------------------------------ MODULE LiveView ------------------------------
(***************************************************************************)
(* How the list of hosts that one browser page shows follows the database: *)
(* loadAppData, the event stream, and the debounced refetch of             *)
(* web/static/app.js, against the scanner and the handlers that commit a   *)
(* change first and broadcast its event afterwards (Scanner.emit).         *)
(*                                                                         *)
(* The database is its version: the number of changes committed.  Of an    *)
(* event only its kind matters to the page, so a buffer is a count of      *)
(* either kind; the order of the stream is the subject of EventHub.        *)
(***************************************************************************)
EXTENDS Naturals

CONSTANTS
  Capacity,    \* of the client's channel in the hub
  Requests,    \* bound: slots for the page's outstanding fetches
  MaxChanges,  \* bound: changes committed
  MaxQuiet,    \* bound: changes and events the page does not listen for
  MaxGaps      \* bound: broken streams, lost sessions and failing requests

ASSUME LiveAssumption ==
  Capacity \in Nat \ {0} /\ MaxChanges \in Nat /\ MaxQuiet \in Nat /\ MaxGaps \in Nat

VARIABLES
  \* the server
  db,        \* the version of the database
  unsent,    \* changes committed whose event is not broadcast yet
  \* the hub's channel and the connection
  stream,    \* "off", "connecting" (or reconnecting) or "open"
  buffered,  \* buffered[k]: events of kind k on their way to the page
  \* the page
  page,      \* "login", "asking", "answered" (loadAppData) or "live"
  loaded,    \* the version loadAppData was answered with
  view,      \* the version on display
  timer,     \* the debounce timer runs
  fetch,     \* fetch[r]: "free", "asked" or "answered"
  answer,    \* answer[r]: the version in the answer
  editing,   \* an edit made on this page is committed, its answer on its way
  \* history
  causes,    \* what made the page miss a change since it last showed them all
  quiets, gaps

server == <<db, unsent>>
wire == <<stream, buffered>>
requests == <<fetch, answer, editing>>
bounds == <<quiets, gaps>>
vars == <<db, unsent, stream, buffered, page, loaded, view, timer, fetch, answer, editing,
          causes, quiets, gaps>>

\* "refresh": the types connectSSE listens for and refetches on; "quiet":
\* scan_anomaly, and the types it has no listener for (import, hosts_reviewed).
Kinds == {"refresh", "quiet"}
Empty == [k \in Kinds |-> 0]
Causes == {"gap", "crowded", "silent", "overtaken", "failed"}

TypeOK ==
  /\ db \in 0 .. MaxChanges
  /\ unsent \in 0 .. MaxChanges
  /\ stream \in {"off", "connecting", "open"}
  /\ buffered \in [Kinds -> 0 .. Capacity]
  /\ page \in {"login", "asking", "answered", "live"}
  /\ loaded \in 0 .. MaxChanges
  /\ view \in 0 .. MaxChanges
  /\ timer \in BOOLEAN
  /\ fetch \in [Requests -> {"free", "asked", "answered"}]
  /\ answer \in [Requests -> 0 .. MaxChanges]
  /\ editing \in BOOLEAN
  /\ causes \in SUBSET Causes
  /\ quiets \in 0 .. MaxQuiet
  /\ gaps \in 0 .. MaxGaps

Init ==
  /\ db = 0 /\ unsent = 0
  /\ stream = "off" /\ buffered = Empty
  /\ page = "login" /\ loaded = 0 /\ view = 0
  /\ timer = FALSE /\ editing = FALSE
  /\ fetch = [r \in Requests |-> "free"]
  /\ answer = [r \in Requests |-> 0]
  /\ causes = {}
  /\ quiets = 0 /\ gaps = 0

-----------------------------------------------------------------------------
(* The server.                                                             *)

Full == buffered["refresh"] + buffered["quiet"] >= Capacity
Buffer(k) == IF Full THEN buffered ELSE [buffered EXCEPT ![k] = @ + 1]

\* The page has read the hosts, and they have changed since.
Behind ==
  \/ page = "answered" /\ loaded # db
  \/ page = "live" /\ view # db

\* Cause c counts if the page is behind when it misses something.
Missed(c) == IF Behind THEN causes \cup {c} ELSE causes

\* A goroutine or handler commits a change that an event follows.
Change ==
  /\ db < MaxChanges
  /\ db' = db + 1
  /\ unsent' = unsent + 1
  /\ UNCHANGED <<wire, page, loaded, view, timer, requests, causes, bounds>>

\* Its event, to the channel of the page if it has one.  A full channel drops it,
\* which matters only if no event is buffered that makes the page refetch.
Broadcast ==
  /\ unsent > 0
  /\ unsent' = unsent - 1
  /\ buffered' = IF stream = "open" THEN Buffer("refresh") ELSE buffered
  /\ causes' = CASE stream # "open" -> Missed("gap")
                 [] buffered'["refresh"] = 0 -> Missed("crowded")
                 [] OTHER -> causes
  /\ UNCHANGED <<db, stream, page, loaded, view, timer, requests, bounds>>

\* A change without an event the page listens for: an import, a host that comes
\* back up, an edit made on another page.
QuietChange ==
  /\ quiets < MaxQuiet
  /\ db < MaxChanges
  /\ quiets' = quiets + 1
  /\ db' = db + 1
  /\ causes' = IF page \in {"answered", "live"} THEN causes \cup {"silent"} ELSE causes
  /\ UNCHANGED <<unsent, wire, page, loaded, view, timer, requests, gaps>>

\* An event without a change, or one that follows a QuietChange.
QuietEvent ==
  /\ quiets < MaxQuiet
  /\ stream = "open"
  /\ quiets' = quiets + 1
  /\ buffered' = Buffer("quiet")
  /\ UNCHANGED <<server, stream, page, loaded, view, timer, requests, causes, gaps>>

-----------------------------------------------------------------------------
(* Loading the page, and its stream.                                       *)

\* startApp, at the first or a later login.
StartLoad ==
  /\ page = "login"
  /\ page' = "asking"
  /\ causes' = {}
  /\ UNCHANGED <<server, wire, loaded, view, timer, requests, bounds>>

AnswerLoad ==
  /\ page = "asking"
  /\ page' = "answered"
  /\ loaded' = db
  /\ UNCHANGED <<server, wire, view, timer, requests, causes, bounds>>

\* What a page shows after it rendered version v.
Rendered(v) ==
  /\ view' = v
  /\ causes' = IF v = db THEN {} ELSE IF v < view THEN causes \cup {"overtaken"} ELSE causes

\* loadAppData renders, and startLiveUpdates connects.
FinishLoad ==
  /\ page = "answered"
  /\ page' = "live"
  /\ Rendered(loaded)
  /\ stream' = "connecting"
  /\ UNCHANGED <<server, buffered, loaded, timer, requests, bounds>>

\* The hub subscribes the connection.  The page gets "ready", and reads nothing
\* again.
Subscribe ==
  /\ stream = "connecting"
  /\ stream' = "open"
  /\ UNCHANGED <<server, buffered, page, loaded, view, timer, requests, causes, bounds>>

\* The connection breaks, what was on its way is lost, and the EventSource
\* connects again.
StreamBreaks ==
  /\ gaps < MaxGaps
  /\ stream = "open"
  /\ gaps' = gaps + 1
  /\ stream' = "connecting"
  /\ buffered' = Empty
  /\ causes' = IF buffered["refresh"] > 0 THEN Missed("gap") ELSE causes
  /\ UNCHANGED <<server, page, loaded, view, timer, requests, quiets>>

\* Some request is answered with 401: showLoginScreen stops the live updates.
\* The debounce timer and the other requests go on.
SessionLost ==
  /\ gaps < MaxGaps
  /\ page \in {"asking", "live"}
  /\ gaps' = gaps + 1
  /\ page' = "login"
  /\ stream' = "off"
  /\ buffered' = Empty
  /\ UNCHANGED <<server, loaded, view, timer, requests, causes, quiets>>

-----------------------------------------------------------------------------
(* The page's handlers.                                                    *)

\* Faults: an event is ignored while a refetch is under way; an event of
\* another type stops the handler.
Receive_Throttles(k) ==
  /\ stream = "open"
  /\ buffered[k] > 0
  /\ buffered' = [buffered EXCEPT ![k] = @ - 1]
  /\ timer' = (timer \/ (k = "refresh" /\ \A r \in Requests : fetch[r] = "free"))
  /\ UNCHANGED <<server, stream, page, loaded, view, requests, causes, bounds>>
Receive_StopsOnQuiet(k) ==
  /\ stream = "open"
  /\ buffered[k] > 0
  /\ buffered["quiet"] = 0
  /\ buffered' = [buffered EXCEPT ![k] = @ - 1]
  /\ timer' = (timer \/ k = "refresh")
  /\ UNCHANGED <<server, stream, page, loaded, view, requests, causes, bounds>>

\* The listener: refreshDebounced starts the timer anew.
Receive(k) ==
  /\ stream = "open"
  /\ buffered[k] > 0
  /\ buffered' = [buffered EXCEPT ![k] = @ - 1]
  /\ timer' = (timer \/ k = "refresh")
  /\ UNCHANGED <<server, stream, page, loaded, view, requests, causes, bounds>>

\* refreshHostsAndSubnets, 350 ms after the last event.
TimerFires(r) ==
  /\ timer
  /\ fetch[r] = "free"
  /\ timer' = FALSE
  /\ fetch' = [fetch EXCEPT ![r] = "asked"]
  /\ UNCHANGED <<server, wire, page, loaded, view, answer, editing, causes, bounds>>

\* The handlers read under Store.mu; the answers travel side by side.
AnswerFetch(r) ==
  /\ fetch[r] = "asked"
  /\ fetch' = [fetch EXCEPT ![r] = "answered"]
  /\ answer' = [answer EXCEPT ![r] = db]
  /\ UNCHANGED <<server, wire, page, loaded, view, timer, editing, causes, bounds>>

\* Whatever arrives last is shown.
Render(r) ==
  /\ fetch[r] = "answered"
  /\ fetch' = [fetch EXCEPT ![r] = "free"]
  /\ Rendered(answer[r])
  /\ UNCHANGED <<server, wire, page, loaded, timer, answer, editing, bounds>>

\* An error or a 401: nobody tries again.
FetchFails(r) ==
  /\ gaps < MaxGaps
  /\ fetch[r] # "free"
  /\ gaps' = gaps + 1
  /\ fetch' = [fetch EXCEPT ![r] = "free"]
  /\ causes' = Missed("failed")
  /\ UNCHANGED <<server, wire, page, loaded, view, timer, answer, editing, quiets>>

\* An edit made on this page is committed ...
OwnEdit ==
  /\ page = "live"
  /\ ~editing
  /\ db < MaxChanges
  /\ db' = db + 1
  /\ editing' = TRUE
  /\ UNCHANGED <<unsent, wire, page, loaded, view, timer, fetch, answer, causes, bounds>>

\* ... and its answer makes the page call refreshHosts at once.
EditAnswered(r) ==
  /\ editing
  /\ fetch[r] = "free"
  /\ editing' = FALSE
  /\ fetch' = [fetch EXCEPT ![r] = "asked"]
  /\ UNCHANGED <<server, wire, page, loaded, view, timer, answer, causes, bounds>>

-----------------------------------------------------------------------------
FetchStep(r) == TimerFires(r) \/ AnswerFetch(r) \/ Render(r) \/ EditAnswered(r)
LoadStep == AnswerLoad \/ FinishLoad \/ Subscribe
Next ==
  \/ Change \/ Broadcast \/ QuietChange \/ QuietEvent \/ OwnEdit
  \/ StartLoad \/ LoadStep \/ StreamBreaks \/ SessionLost
  \/ \E k \in Kinds : Receive(k)
  \/ \E r \in Requests : FetchStep(r) \/ FetchFails(r)

Spec == Init /\ [][Next]_vars

\* What is committed is broadcast, requests that do not fail are answered, and
\* the browser runs its handlers and timers and connects.
Fairness ==
  /\ WF_vars(Broadcast)
  /\ WF_vars(LoadStep)
  /\ \A k \in Kinds : WF_vars(Receive(k))
  /\ \A r \in Requests : WF_vars(AnswerFetch(r)) /\ WF_vars(Render(r))
  /\ WF_vars(\E r \in Requests : TimerFires(r))
  /\ WF_vars(\E r \in Requests : EditAnswered(r))

FairSpec == Spec /\ Fairness

-----------------------------------------------------------------------------
(* Properties.                                                             *)

\* The page is about to learn the present version.
OnItsWay ==
  \/ unsent > 0 \/ buffered["refresh"] > 0 \/ timer \/ editing
  \/ \E r \in Requests : fetch[r] = "asked" \/ (fetch[r] = "answered" /\ answer[r] = db)

\* A page that shows less than the database holds is about to refetch, or has
\* missed something nameable: an event while it did not listen, a change without
\* an event, an answer overtaken by an older one, a failed request, or an event
\* dropped from a channel that held nothing to refetch on.  Dropping events from
\* a full channel, debouncing them and letting refetches overlap with commits
\* and edits is otherwise harmless (Hub.Broadcast, refreshDebounced).
FreshOrExcused ==
  page = "live" => view = db \/ OnItsWay \/ causes # {}

\* And it does refetch: a page that stays up and misses nothing ends up showing
\* the database.
ChangesReachThePage ==
  <>[](page = "live" /\ causes = {}) => <>[](view = db)
=============================================================================
