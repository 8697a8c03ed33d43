------------------------------- MODULE Pinger -------------------------------
(***************************************************************************)
(* ICMPPinger: echo requests of many goroutines over one socket, and the   *)
(* read loop that hands each reply to the ping whose number it carries.    *)
(*                                                                         *)
(* One ping per address, so the address names the call.  Numbers are the   *)
(* low bits of a counter and come round again: SeqSpace is the 2^16 of the *)
(* protocol.  A request that was sent may be answered never, late, or more *)
(* than once.                                                              *)
(***************************************************************************)
EXTENDS Naturals, FiniteSets

CONSTANTS
  Addresses,
  SeqSpace,
  Sockets,     \* what NewICMPPinger may open: "raw", "udp" or, for nothing, "none"
  Nobody,      \* stands for "no address"
  MaxOthers    \* bound: pings of other scans

ASSUME SeqSpaceAssumption == SeqSpace \in Nat \ {0}
ASSUME SocketsAssumption == Sockets \subseteq {"raw", "udp", "none"}
ASSUME NobodyAssumption == Nobody \notin Addresses
ASSUME OthersAssumption == MaxOthers \in Nat

VARIABLES
  socket,      \* what it opened
  seq,         \* the counter
  waiters,     \* pendingPing by number, Nobody for none
  at,          \* where each call of Ping is
  number,      \* the number it got
  ok,          \* what it is going to return
  token,       \* its channel holds a value
  reader,      \* the ping the read loop has looked up, or Nobody
  listening,   \* the read loop runs
  sent,        \* <<address, number>> of the requests written
  \* history, read by no guard
  heard,       \* addresses an answer to a probe has arrived from
  shared,      \* pings that had their number taken by another, or took it
  others       \* pings of other scans so far

pings == <<seq, waiters, at, number, ok, token, shared, others>>
pinger == <<socket, seq, waiters, at, number, ok, token, reader, listening, sent,
            heard, shared, others>>

PingerTypeOK ==
  /\ socket \in Sockets
  /\ seq \in 0 .. SeqSpace - 1
  /\ waiters \in [0 .. SeqSpace - 1 -> Addresses \cup {Nobody}]
  /\ at \in [Addresses -> {"idle", "called", "registered", "waiting", "leaving",
                           "done"}]
  /\ number \in [Addresses -> 0 .. SeqSpace - 1]
  /\ ok \in [Addresses -> BOOLEAN]
  /\ token \in [Addresses -> BOOLEAN]
  /\ reader \in Addresses \cup {Nobody}
  /\ listening \in BOOLEAN
  /\ sent \subseteq Addresses \X (0 .. SeqSpace - 1)
  /\ heard \subseteq Addresses /\ shared \subseteq Addresses
  /\ others \in 0 .. MaxOthers

\* NewICMPPinger
PingerInit ==
  /\ socket \in Sockets
  /\ seq = 0
  /\ waiters = [n \in 0 .. SeqSpace - 1 |-> Nobody]
  /\ at = [a \in Addresses |-> "idle"]
  /\ number = [a \in Addresses |-> 0]
  /\ ok = [a \in Addresses |-> FALSE]
  /\ token = [a \in Addresses |-> FALSE]
  /\ reader = Nobody
  /\ listening = (socket # "none")
  /\ sent = {} /\ heard = {} /\ shared = {} /\ others = 0

InFlight(a) == at[a] \in {"registered", "waiting", "leaving"}
Holding(n) == {a \in Addresses : InFlight(a) /\ number[a] = n}

-----------------------------------------------------------------------------
(* Ping.                                                                   *)

\* The atomic increment and the new entry, which replaces that of a ping still
\* holding the number.
Register(a) ==
  LET n == (seq + 1) % SeqSpace IN
  /\ at[a] = "called"
  /\ seq' = n
  /\ number' = [number EXCEPT ![a] = n]
  /\ at' = [at EXCEPT ![a] = "registered"]
  /\ waiters' = [waiters EXCEPT ![n] = a]
  /\ shared' = IF Holding(n) = {} THEN shared ELSE shared \cup Holding(n) \cup {a}
  /\ UNCHANGED <<socket, ok, token, reader, listening, sent, heard, others>>

Write(a) ==
  /\ at[a] = "registered"
  /\ \/ /\ at' = [at EXCEPT ![a] = "waiting"]
        /\ sent' = sent \cup {<<a, number[a]>>}
     \/ /\ at' = [at EXCEPT ![a] = "leaving"]
        /\ UNCHANGED sent
  /\ UNCHANGED <<socket, seq, waiters, number, ok, token, reader, listening, heard,
                 shared, others>>

\* The select: a reply, or the timeout; if both are there, either.
Select(a) ==
  /\ at[a] = "waiting"
  /\ \/ token[a] /\ ok' = [ok EXCEPT ![a] = TRUE]
     \/ UNCHANGED ok
  /\ at' = [at EXCEPT ![a] = "leaving"]
  /\ UNCHANGED <<socket, seq, waiters, number, token, reader, listening, sent, heard,
                 shared, others>>

\* Another scan of the program pings over the same socket: that ping takes the
\* next number, enters itself and leaves again, here in one step.
OtherPing ==
  LET n == (seq + 1) % SeqSpace IN
  /\ socket # "none" /\ others < MaxOthers
  /\ others' = others + 1
  /\ seq' = n
  /\ waiters' = [waiters EXCEPT ![n] = Nobody]
  /\ shared' = shared \cup Holding(n)
  /\ UNCHANGED <<socket, at, number, ok, token, reader, listening, sent, heard>>

\* What the call knew is gone once it has returned.
Forget(a) ==
  /\ at' = [at EXCEPT ![a] = "done"]
  /\ number' = [number EXCEPT ![a] = 0]
  /\ ok' = [ok EXCEPT ![a] = FALSE]
  /\ token' = [token EXCEPT ![a] = FALSE]
  /\ shared' = shared \ {a}
  /\ UNCHANGED <<socket, seq, reader, listening, sent, heard, others>>

\* Fault: the entry is deleted only where a reply is received.
Leave_OnReply(a) ==
  /\ at[a] = "leaving"
  /\ waiters' = IF ok[a] THEN [waiters EXCEPT ![number[a]] = Nobody] ELSE waiters
  /\ Forget(a)

\* The deferred delete, by number, whoever's entry that is by now.
Leave(a) ==
  /\ at[a] = "leaving"
  /\ waiters' = [waiters EXCEPT ![number[a]] = Nobody]
  /\ Forget(a)

-----------------------------------------------------------------------------
(* The read loop and the network.                                          *)

\* A reply the socket delivers: to a request of this process, whose ID it has
\* then, or, on a raw socket, to any other.
Delivered(ip, n, ours) == IF ours THEN <<ip, n>> \in sent ELSE socket = "raw"

\* Fault: the source of a reply is not compared.
Accepted_AnySource(ip, n, ours) == (socket # "raw" \/ ours) /\ waiters[n] # Nobody

Accepted(ip, n, ours) == (socket # "raw" \/ ours) /\ waiters[n] = ip

\* A reply from ip with number n.  If it is not accepted the loop reads on.
Read(ip, n, ours) ==
  /\ listening /\ reader = Nobody
  /\ Delivered(ip, n, ours)
  /\ reader' = IF Accepted(ip, n, ours) THEN waiters[n] ELSE Nobody
  /\ heard' = IF ours THEN heard \cup {ip} ELSE heard
  /\ UNCHANGED <<socket, pings, listening, sent>>

\* The send, by now without the lock.  It never blocks: a second value, or one
\* nobody waits for any more, is lost.
Deliver ==
  /\ reader # Nobody
  /\ token' = [token EXCEPT ![reader] = at[reader] # "done"]
  /\ reader' = Nobody
  /\ UNCHANGED <<socket, seq, waiters, at, number, ok, listening, sent, heard, shared,
                 others>>

\* Any error of the socket ends the loop for good, while pings go on.
ReadFails ==
  /\ listening /\ reader = Nobody
  /\ listening' = FALSE
  /\ UNCHANGED <<socket, pings, reader, sent, heard>>

PingStep(a) == Register(a) \/ Write(a) \/ Select(a)

ReaderStep ==
  \/ \E ip \in Addresses, n \in DOMAIN waiters, ours \in BOOLEAN : Read(ip, n, ours)
  \/ Deliver \/ ReadFails

=============================================================================
