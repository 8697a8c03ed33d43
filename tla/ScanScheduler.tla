--------------------------- MODULE ScanScheduler ----------------------------
(***************************************************************************)
(* Which subnets are scanned when: Scanner.Run, its trigger channels and   *)
(* ticker, and the goroutines of one cycle (runOnce), against the HTTP     *)
(* handlers that add, import, exclude and delete subnets and that ask for  *)
(* a scan, and against the shutdown of the process.                        *)
(*                                                                         *)
(* A handler's store call and the TriggerNow that follows it are two       *)
(* steps.  Time is abstract: a tick may come whenever the ticker is armed. *)
(***************************************************************************)
EXTENDS Naturals, FiniteSets

CONSTANTS
  Subnets,      \* CIDRs
  Local,        \* those of the local interfaces; none if AutoDiscoverLocal is off
  Modes,        \* scan modes, one trigger channel each
  Regular,      \* the mode "" of ticks and TriggerNow
  Nobody,       \* shown by Status when no cycle runs
  MaxTriggers,  \* bound: scans the operator asks for
  MaxEdits,     \* bound: changes of the subnet table by handlers
  MaxFaults     \* bound: failing imports and reads of the subnet table
                \* and ends of the process

ASSUME ModesAssumption == Regular \in Modes /\ Nobody \notin Modes
ASSUME LocalAssumption == Local \subseteq Subnets
ASSUME BoundsAssumption == MaxTriggers \in Nat /\ MaxEdits \in Nat /\ MaxFaults \in Nat

VARIABLES
  \* the database file
  table,     \* table[s]: "absent", "enabled" or "excluded"
  \* the scanner
  queue,     \* the modes whose trigger channel (capacity 1) holds a token
  ticker,    \* "off" (not created yet), "armed" or "fired" (a tick is buffered)
  loop,      \* Run: "select", "locals", "list", "spawn", "wait" or "returned"
  mode,      \* the mode of the running cycle
  status,    \* what Status reports: a mode, or Nobody
  locals,    \* local subnets the cycle has not registered yet
  todo,      \* subnets of the cycle's list that have no goroutine yet
  workers,   \* subnets the cycle's goroutines scan: its WaitGroup
  orphans,   \* subnets scanned by goroutines of a cycle that returned early
  \* the handlers
  owing,     \* subnets a handler inserted and has not called TriggerNow for
  \* the process
  stopping,  \* the context is cancelled
  \* history
  fresh,     \* subnets a handler added that no cycle has listed since
  missed,    \* those of them whose import failed, or whose list failed
  triggers, edits, faults

requests == <<queue, owing>>
run == <<ticker, loop, mode, status, locals, todo, workers, orphans>>
history == <<fresh, missed>>
bounds == <<triggers, edits, faults>>
vars == <<table, queue, ticker, loop, mode, status, locals, todo, workers, orphans,
          owing, stopping, fresh, missed, triggers, edits, faults>>

TypeOK ==
  /\ table \in [Subnets -> {"absent", "enabled", "excluded"}]
  /\ queue \in SUBSET Modes
  /\ ticker \in {"off", "armed", "fired"}
  /\ loop \in {"select", "locals", "list", "spawn", "wait", "returned"}
  /\ mode \in Modes
  /\ status \in Modes \cup {Nobody}
  /\ locals \in SUBSET Local
  /\ todo \in SUBSET Subnets
  /\ workers \in SUBSET Subnets
  /\ orphans \in SUBSET Subnets
  /\ owing \in SUBSET Subnets
  /\ stopping \in BOOLEAN
  /\ fresh \in SUBSET Subnets
  /\ missed \in SUBSET Subnets
  /\ triggers \in 0 .. MaxTriggers
  /\ edits \in 0 .. MaxEdits
  /\ faults \in 0 .. MaxFaults

\* Run begins with a regular cycle, before there is a ticker.
Init ==
  /\ table \in [Subnets -> {"absent", "enabled", "excluded"}]
  /\ queue = {} /\ owing = {}
  /\ ticker = "off"
  /\ loop = "locals" /\ mode = Regular /\ status = Regular
  /\ locals \in SUBSET Local
  /\ todo = {} /\ workers = {} /\ orphans = {}
  /\ stopping = FALSE
  /\ fresh = {} /\ missed = {}
  /\ triggers = 0 /\ edits = 0 /\ faults = 0

-----------------------------------------------------------------------------
(* The select of Run.                                                      *)

\* runOnce begins: the status is set, and the interfaces are read, of which any
\* part may be up.
BeginCycle(m) ==
  /\ loop' = "locals"
  /\ mode' = m
  /\ status' = m
  /\ locals' \in SUBSET Local

ReceiveTick ==
  /\ loop = "select"
  /\ ticker = "fired"
  /\ ticker' = "armed"
  /\ BeginCycle(Regular)
  /\ UNCHANGED <<table, requests, todo, workers, orphans, stopping, history, bounds>>

\* Among the channels that are ready select picks any, so a request may still
\* win over a cancelled context.  The ticker.Reset that follows the cycle drops
\* no tick that is buffered already.
ReceiveTrigger(m) ==
  /\ loop = "select"
  /\ m \in queue
  /\ queue' = queue \ {m}
  /\ BeginCycle(m)
  /\ UNCHANGED <<table, ticker, todo, workers, orphans, owing, stopping, history, bounds>>

Return ==
  /\ loop = "select"
  /\ stopping
  /\ loop' = "returned"
  /\ UNCHANGED <<table, requests, ticker, mode, status, locals, todo, workers, orphans,
                 stopping, history, bounds>>

-----------------------------------------------------------------------------
(* runOnce.                                                                *)

\* UpsertAutoSubnet of one local subnet: a known one is left as it is.
RegisterLocal(s) ==
  /\ loop = "locals"
  /\ s \in locals
  /\ locals' = locals \ {s}
  /\ table' = IF table[s] = "absent" THEN [table EXCEPT ![s] = "enabled"] ELSE table
  /\ UNCHANGED <<requests, ticker, loop, mode, status, todo, workers, orphans, stopping,
                 history, bounds>>

LocalsDone ==
  /\ loop = "locals"
  /\ locals = {}
  /\ loop' = "list"
  /\ UNCHANGED <<table, requests, ticker, mode, status, locals, todo, workers, orphans,
                 stopping, history, bounds>>

\* The list is taken once; what changes in the table afterwards is for the next
\* cycle.
ListSubnets ==
  /\ loop = "list"
  /\ loop' = "spawn"
  /\ todo' = {s \in Subnets : table[s] = "enabled"}
  /\ fresh' = {}
  /\ missed' = {}
  /\ UNCHANGED <<table, requests, ticker, mode, status, locals, workers, orphans, stopping,
                 bounds>>

\* The read fails: it is logged, and the cycle goes on with no subnets.
ListSubnetsFails ==
  /\ faults < MaxFaults
  /\ loop = "list"
  /\ loop' = "spawn"
  /\ todo' = {}
  /\ missed' = missed \cup fresh
  /\ faults' = faults + 1
  /\ UNCHANGED <<table, requests, ticker, mode, status, locals, workers, orphans, stopping,
                 fresh, triggers, edits>>

\* One goroutine per subnet, unless the context is cancelled: then runOnce
\* returns at once and leaves the goroutines it started, and the status, behind.
SpawnScan(s) ==
  /\ loop = "spawn"
  /\ s \in todo
  /\ ~stopping
  /\ todo' = todo \ {s}
  /\ workers' = workers \cup {s}
  /\ UNCHANGED <<table, requests, ticker, loop, mode, status, locals, orphans, stopping,
                 history, bounds>>

\* Fault: Run makes no ticker.
BackInRun_NoTicker ==
  /\ loop' = "select"
  /\ UNCHANGED ticker

\* When runOnce is back in Run, a triggered cycle resets the ticker and the
\* first one creates it.
BackInRun ==
  /\ loop' = "select"
  /\ ticker' = IF ticker = "off" THEN "armed" ELSE ticker

AbandonCycle ==
  /\ loop = "spawn"
  /\ todo # {}
  /\ stopping
  /\ todo' = {}
  /\ orphans' = orphans \cup workers
  /\ workers' = {}
  /\ BackInRun
  /\ UNCHANGED <<table, requests, mode, status, locals, stopping, history, bounds>>

SpawnDone ==
  /\ loop = "spawn"
  /\ todo = {}
  /\ loop' = "wait"
  /\ UNCHANGED <<table, requests, ticker, mode, status, locals, todo, workers, orphans,
                 stopping, history, bounds>>

\* Fault: a goroutine whose subnet is gone never reports to the WaitGroup.
ScanDone_SubnetGone(s) ==
  /\ table[s] # "absent"
  /\ \/ s \in workers /\ workers' = workers \ {s} /\ UNCHANGED orphans
     \/ s \in orphans /\ orphans' = orphans \ {s} /\ UNCHANGED workers
  /\ UNCHANGED <<table, requests, ticker, loop, mode, status, locals, todo, stopping,
                 history, bounds>>

\* scanSubnet returns.
ScanDone(s) ==
  /\ \/ s \in workers /\ workers' = workers \ {s} /\ UNCHANGED orphans
     \/ s \in orphans /\ orphans' = orphans \ {s} /\ UNCHANGED workers
  /\ UNCHANGED <<table, requests, ticker, loop, mode, status, locals, todo, stopping,
                 history, bounds>>

\* Fault: no wg.Wait.
CycleDone_NoWait ==
  /\ loop = "wait"
  /\ status' = Nobody
  /\ orphans' = orphans \cup workers
  /\ workers' = {}
  /\ BackInRun
  /\ UNCHANGED <<table, requests, mode, locals, todo, stopping, history, bounds>>

\* wg.Wait is over.
CycleDone ==
  /\ loop = "wait"
  /\ workers = {}
  /\ status' = Nobody
  /\ BackInRun
  /\ UNCHANGED <<table, requests, mode, locals, todo, workers, orphans, stopping, history,
                 bounds>>

Tick ==
  /\ ticker = "armed"
  /\ loop # "returned"
  /\ ticker' = "fired"
  /\ UNCHANGED <<table, requests, loop, mode, status, locals, todo, workers, orphans,
                 stopping, history, bounds>>

-----------------------------------------------------------------------------
(* The HTTP handlers.                                                      *)

\* Trigger...ScanAll, from the scan buttons: a full channel keeps its token.
TriggerScan(m) ==
  /\ m # Regular
  /\ triggers < MaxTriggers
  /\ queue' = queue \cup {m}
  /\ triggers' = triggers + 1
  /\ UNCHANGED <<table, run, owing, stopping, history, edits, faults>>

Edit == edits < MaxEdits /\ edits' = edits + 1

\* createSubnet, and the imports: the row is inserted ...  (If the row is deleted
\* and added again meanwhile, the two handlers count as one.)
AddSubnet(s) ==
  /\ Edit
  /\ table[s] = "absent"
  /\ table' = [table EXCEPT ![s] = "enabled"]
  /\ owing' = owing \cup {s}
  /\ fresh' = fresh \cup {s}
  /\ UNCHANGED <<queue, run, stopping, missed, triggers, faults>>

\* Fault: the request is dropped when a cycle runs already.
TriggerNow_WhenIdle(s) ==
  /\ s \in owing
  /\ owing' = owing \ {s}
  /\ queue' = IF loop = "select" THEN queue \cup {Regular} ELSE queue
  /\ UNCHANGED <<table, run, stopping, history, bounds>>

\* ... and TriggerNow called, once the handler is through.
TriggerNow(s) ==
  /\ s \in owing
  /\ owing' = owing \ {s}
  /\ queue' = queue \cup {Regular}
  /\ UNCHANGED <<table, run, stopping, history, bounds>>

\* An import fails half-way: it answers 500 and TriggerNow is never called.
ImportFails(s) ==
  /\ faults < MaxFaults
  /\ s \in owing
  /\ owing' = owing \ {s}
  /\ missed' = missed \cup {s}
  /\ faults' = faults + 1
  /\ UNCHANGED <<table, queue, run, stopping, fresh, triggers, edits>>

\* updateSubnet, and the second step of importSystemSegments, which inserts an
\* excluded subnet enabled first.
SetSubnetEnabled(s) ==
  /\ Edit
  /\ table[s] # "absent"
  /\ \E e \in {"enabled", "excluded"} : table' = [table EXCEPT ![s] = e]
  /\ UNCHANGED <<requests, run, stopping, history, triggers, faults>>

DeleteSubnet(s) ==
  /\ Edit
  /\ table[s] # "absent"
  /\ table' = [table EXCEPT ![s] = "absent"]
  /\ UNCHANGED <<requests, run, stopping, history, triggers, faults>>

-----------------------------------------------------------------------------
(* The process.                                                            *)

\* SIGINT or SIGTERM cancels the context.
Shutdown ==
  /\ ~stopping
  /\ faults < MaxFaults
  /\ stopping' = TRUE
  /\ faults' = faults + 1
  /\ UNCHANGED <<table, requests, run, history, triggers, edits>>

\* The process ends, by a crash or because main returned, which waits neither
\* for Run nor for a goroutine or handler, and is started again.
Restart ==
  /\ faults < MaxFaults
  /\ queue' = {} /\ owing' = {}
  /\ ticker' = "off"
  /\ BeginCycle(Regular)
  /\ todo' = {} /\ workers' = {} /\ orphans' = {}
  /\ stopping' = FALSE
  /\ faults' = faults + 1
  /\ UNCHANGED <<table, history, triggers, edits>>

-----------------------------------------------------------------------------
CycleStep ==
  \/ \E s \in Subnets : RegisterLocal(s) \/ SpawnScan(s)
  \/ LocalsDone \/ ListSubnets \/ ListSubnetsFails
  \/ AbandonCycle \/ SpawnDone \/ CycleDone

HandlerStep(s) ==
  AddSubnet(s) \/ TriggerNow(s) \/ ImportFails(s) \/ SetSubnetEnabled(s) \/ DeleteSubnet(s)

Next ==
  \/ ReceiveTick \/ Return \/ Tick
  \/ \E m \in Modes : ReceiveTrigger(m) \/ TriggerScan(m)
  \/ CycleStep
  \/ \E s \in Subnets : ScanDone(s) \/ HandlerStep(s)
  \/ Shutdown \/ Restart

Spec == Init /\ [][Next]_vars

\* Goroutines run, scans end and the ticker ticks: the operator asks for finitely
\* many scans, so it is not reset for ever.  select picks among its ready
\* channels at random, so a case that is ready again and again is taken.
Fairness ==
  /\ WF_vars(CycleStep)
  /\ \A s \in Subnets : WF_vars(ScanDone(s))
  /\ WF_vars(Tick)
  /\ SF_vars(ReceiveTick)
  /\ \A m \in Modes : SF_vars(ReceiveTrigger(m))
  /\ SF_vars(Return)

FairSpec == Spec /\ Fairness

-----------------------------------------------------------------------------
(* Properties.                                                             *)

\* A cycle has yet to read the subnet table: one is about to, or a token for
\* TriggerNow is queued, which the full channel of a dropped trigger holds too.
WillList == loop \in {"locals", "list"} \/ Regular \in queue

\* A subnet the operator adds while a cycle is already past its list is not left
\* for the next tick: until a cycle has listed it, one that will is requested,
\* or the handler is about to request it.  Neither the coalescing of triggers
\* nor a crash between insert and TriggerNow loses it.
NewSubnetNotMissed ==
  \A s \in fresh : s \in owing \cup missed \/ WillList \/ loop = "returned"

\* No subnet is scanned by two goroutines at once, and none but the last cycle's
\* goroutines run when a cycle spawns its own: wg.Wait, and the early return of
\* a cancelled cycle, which is followed by no cycle that spawns.
NoDoubleScan == orphans # {} => workers = {}

\* Until the shutdown Status tells the truth: it names the mode of the cycle
\* exactly as long as that cycle has work left.
StatusHonest ==
  ~stopping =>
    /\ status = IF loop = "select" THEN Nobody ELSE mode
    /\ workers \cup orphans # {} => status # Nobody

\* A scan the operator asks for starts, unless the process is told to stop.
TriggerServed ==
  \A m \in Modes : m \in queue ~> m \notin queue \/ stopping

\* A subnet that stays enabled is scanned again and again.
EnabledIsScanned ==
  \A s \in Subnets :
    <>[](table[s] = "enabled" /\ ~stopping) => []<>(s \in workers)

\* After the signal Run returns, if the process lives long enough, even with
\* requests queued and a slow cycle to finish.
ShutdownReturns == stopping ~> loop = "returned" \/ ~stopping

=============================================================================
