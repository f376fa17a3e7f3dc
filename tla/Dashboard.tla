------------------------------ MODULE Dashboard ------------------------------
(***************************************************************************)
(* The dashboard: background scans, the registry of WebSocket connections  *)
(* they broadcast to (netscanx/dashboard/server.py), and the browser tabs  *)
(* that show what they are sent (netscanx/dashboard/static/app.js).        *)
(*                                                                         *)
(* The server is one event loop: a step runs from one await to the next,   *)
(* and every send to a client is an await.  A broadcast iterates over the  *)
(* set of connections while other tasks add to it and remove from it; the  *)
(* iterator raises when the size of the set is not what it was at first.   *)
(*                                                                         *)
(* A tab handles a message in the step that sends it.  Connections are     *)
(* ordered and a tab takes part in nothing else meanwhile, so that a       *)
(* message on its way when the connection is lost is one that was sent     *)
(* after the loss.                                                         *)
(*                                                                         *)
(* A result is named after the task that produced it, so that a tab is up  *)
(* to date if and only if the names agree.                                 *)
(***************************************************************************)
EXTENDS Integers, Sequences, FiniteSets

CONSTANTS
  Tabs,        \* browser tabs
  MaxConns,    \* bound: connections a tab makes, one after the other
  Scans,       \* background scans that may be started
  Startup,     \* the one the server starts itself
  Tests,       \* latency tests that may be asked for
  Sections,    \* bound: the sections of a scan, in their order
  MaxDemand,   \* bound: scans, tests and connections altogether
  Nothing      \* no result

ASSUME StartupAssumption == Startup \in Scans
ASSUME TasksAssumption == Scans \cap Tests = {} /\ Nothing \notin Scans \cup Tests
ASSUME BoundsAssumption == MaxConns \in Nat /\ MaxDemand \in Nat
ASSUME SectionsAssumption ==
  /\ Sections \in Seq({"hosts", "services", "diagnostics"})
  /\ Sections # <<>> /\ Head(Sections) = "hosts"

Tasks == Scans \cup Tests
Conns == Tabs \X (1..MaxConns)

SectionKinds == {Sections[i] : i \in DOMAIN Sections}

\* What the server caches.
Cached == SectionKinds \cup {"speedtest"}

ScanSteps == <<"scan_start">> \o Sections \o <<"change_detected", "scan_done">>
TestSteps == <<"speedtest">>

\* The stages inside a try block: an exception leads to the next stage.
Guarded == SectionKinds \cup {"change_detected"}

VARIABLES
  registry,   \* the connections in BroadcastRegistry._clients
  cache,      \* _scan_cache
  report,     \* the scan whose changes /api/changes returns, if there are any
  task,       \* where each task is, and the broadcast it is in
  endpoint,   \* where the endpoint of each connection is
  conn,       \* the number of each tab's latest connection
  up,         \* the connections that have not been lost
  tab,        \* what each tab shows, and its requests
  cut         \* some broadcast was cut short: no variable of the program

server == <<registry, cache, report>>
links  == <<endpoint, conn, up>>
vars   == <<server, task, links, tab, cut>>

NoBroadcast == [msg |-> Nothing, must |-> {}, sent |-> {}, size |-> 0, dead |-> {}]

NewTask(at) == [at |-> at, phase |-> "work", found |-> FALSE, cast |-> NoBroadcast]

NewTab == [shown |-> [kind \in Cached |-> Nothing], changes |-> Nothing, scanning |-> FALSE,
           asked |-> FALSE, test |-> Nothing, fetch |-> "none", reply |-> Nothing]

Init ==
  /\ registry = {}
  /\ cache = [kind \in Cached |-> Nothing]
  /\ report = Nothing
  /\ task = [n \in Tasks |-> NewTask(IF n = Startup THEN 1 ELSE 0)]
  /\ endpoint = [c \in Conns |-> "none"]
  /\ conn = [t \in Tabs |-> 0]
  /\ up = {}
  /\ tab = [t \in Tabs |-> NewTab]
  /\ cut = FALSE

\* MaxDemand is not yet reached.
Affordable ==
  Cardinality({n \in Tasks : task[n].at > 0}) + Cardinality({c \in Conns : endpoint[c] # "none"})
    < MaxDemand

Message(type, data) == [type |-> type, data |-> data]

-----------------------------------------------------------------------------
(* Sending.  To a lost connection a send raises, or the message vanishes   *)
(* while the server does not know of the loss.                             *)

\* What is there replaces what is shown, kind by kind.
Overlay(shown, data) ==
  [kind \in Cached |-> IF data[kind] # Nothing THEN data[kind] ELSE shown[kind]]

\* handleMessage.
Handled(view, msg) ==
  CASE msg.type = "scan_start" -> [view EXCEPT !.scanning = TRUE]
    [] msg.type = "scan_done" -> [view EXCEPT !.scanning = FALSE]
    [] msg.type \in Cached -> [view EXCEPT !.shown[msg.type] = msg.data]
    [] msg.type = "change_detected" -> [view EXCEPT !.changes = msg.data]
    [] msg.type = "cache" -> [view EXCEPT !.shown = Overlay(@, msg.data)]

SendOk(c, msg) == tab' = IF c \in up THEN [tab EXCEPT ![c[1]] = Handled(@, msg)] ELSE tab
SendRaises(c)  == c \notin up /\ UNCHANGED tab

-----------------------------------------------------------------------------
(* Tasks: _background_scan, api_speedtest_run and broadcast.               *)

Steps(n)   == IF n \in Tests THEN TestSteps ELSE ScanSteps
Running(n) == task[n].at \in DOMAIN Steps(n)
Kind(n)    == Steps(n)[task[n].at]

In(n, kinds, phase) == Running(n) /\ Kind(n) \in kinds /\ task[n].phase = phase

\* Slip: the section after one that is done is left out.
SlipAdvanced(n, view) ==
  [NewTask(view.at + 2) EXCEPT !.found = view.found /\ view.at < Len(Steps(n))]

\* Slip: the stage that is done comes again.
SlipStays(n, view) ==
  [NewTask(view.at) EXCEPT !.found = view.found /\ view.at < Len(Steps(n))]

\* The task as it is at its next stage; its locals end with it.
Advanced(n, view) ==
  [NewTask(view.at + 1) EXCEPT !.found = view.found /\ view.at < Len(Steps(n))]

Advance(n) == task' = [task EXCEPT ![n] = Advanced(n, @)]

\* An exception outside the try blocks ends the task.
Raise(n) ==
  IF Kind(n) \in Guarded THEN Advance(n)
  ELSE task' = [task EXCEPT ![n] = [NewTask(Len(Steps(n)) + 1) EXCEPT !.phase = "failed"]]

\* The first turn of the loop in broadcast runs before anything else does;
\* without clients the broadcast is over at once.
Broadcast(n, view, msg) ==
  LET Begun(c, dead) == [task EXCEPT ![n] = [view EXCEPT !.phase = "send",
        !.cast = [msg |-> msg, must |-> registry, sent |-> {c},
                  size |-> Cardinality(registry), dead |-> dead]]]
  IN  IF registry = {} THEN task' = [task EXCEPT ![n] = Advanced(n, view)] /\ UNCHANGED tab
      ELSE \E c \in registry :
             \/ SendOk(c, msg) /\ task' = Begun(c, {})
             \/ SendRaises(c)  /\ task' = Begun(c, {c})

Announce(n) ==
  /\ In(n, {"scan_start", "scan_done"}, "work")
  /\ Broadcast(n, task[n], Message(Kind(n), Nothing))
  /\ UNCHANGED <<server, links, cut>>

\* A result is cached before it is broadcast.
Produce(n) ==
  /\ In(n, Cached, "work")
  /\ cache' = [cache EXCEPT ![Kind(n)] = n]
  /\ Broadcast(n, [task[n] EXCEPT !.found = @ \/ Kind(n) = "hosts"], Message(Kind(n), n))
  /\ UNCHANGED <<registry, report, links, cut>>

\* A scanner, a check, a latency test or, with something to persist or to read
\* back, the inventory raises.
Stumble(n) ==
  /\ \/ In(n, Cached, "work")
     \/ In(n, {"change_detected"}, "work") /\ task[n].found
     \/ In(n, {"change_detected"}, "read")
  /\ Raise(n)
  /\ UNCHANGED <<server, links, tab, cut>>

\* Without a discover result there is nothing to persist.
SkipPersist(n) ==
  /\ In(n, {"change_detected"}, "work")
  /\ ~ task[n].found
  /\ Advance(n)
  /\ UNCHANGED <<server, links, tab, cut>>

\* persist_results returns, with changes to read back or without.
Persist(n) ==
  /\ In(n, {"change_detected"}, "work")
  /\ task[n].found
  /\ \/ report' = Nothing /\ Advance(n)
     \/ report' = n /\ task' = [task EXCEPT ![n].phase = "read"]
  /\ UNCHANGED <<registry, cache, links, tab, cut>>

\* What is read back are the changes of the run persisted last by then.
BroadcastChanges(n) ==
  /\ In(n, {"change_detected"}, "read")
  /\ Broadcast(n, task[n], Message("change_detected", report))
  /\ UNCHANGED <<server, links, cut>>

Casting(n) == Running(n) /\ task[n].phase = "send"

\* The set has changed its size: the iterator raises, the others are not
\* told, and the connections found dead stay in the registry.
CutShort(n) ==
  /\ Casting(n)
  /\ Cardinality(registry) # task[n].cast.size
  /\ Raise(n)
  /\ cut' = TRUE
  /\ UNCHANGED <<server, links, tab>>

\* A connection that joined in place of one that left may be met or missed.
SendNext(n) ==
  LET b == task[n].cast IN
  /\ Casting(n)
  /\ Cardinality(registry) = b.size
  /\ \E c \in registry \ b.sent :
       \/ /\ SendOk(c, b.msg)
          /\ task' = [task EXCEPT ![n].cast.sent = @ \cup {c}]
       \/ /\ SendRaises(c)
          /\ task' = [task EXCEPT ![n].cast.sent = @ \cup {c}, ![n].cast.dead = @ \cup {c}]
  /\ UNCHANGED <<server, links, cut>>

EndBroadcast(n) ==
  LET b == task[n].cast IN
  /\ Casting(n)
  /\ Cardinality(registry) = b.size
  /\ b.must \cap registry \subseteq b.sent
  /\ registry' = registry \ b.dead
  /\ Advance(n)
  /\ UNCHANGED <<cache, report, links, tab, cut>>

-----------------------------------------------------------------------------
(* Endpoints: websocket_endpoint.                                          *)

Discard(c) == registry' = registry \ {c} /\ endpoint' = [endpoint EXCEPT ![c] = "closed"]

\* The connection is registered and greeted.
Join(c) ==
  /\ endpoint[c] = "accepted"
  /\ \/ /\ registry' = registry \cup {c}
        /\ endpoint' = [endpoint EXCEPT ![c] = "joined"]
     \/ c \notin up /\ Discard(c)
  /\ UNCHANGED <<cache, report, task, conn, up, tab, cut>>

\* Slip: a tab that joins is left to the next broadcast.
SlipNoCache(c) ==
  /\ endpoint[c] = "joined"
  /\ endpoint' = [endpoint EXCEPT ![c] = "serving"]
  /\ UNCHANGED <<server, task, conn, up, tab, cut>>

\* The whole cache follows, as it is by then, unless it is empty.
SendCache(c) ==
  /\ endpoint[c] = "joined"
  /\ \/ /\ IF \E kind \in Cached : cache[kind] # Nothing
           THEN SendOk(c, Message("cache", cache))
           ELSE UNCHANGED tab
        /\ endpoint' = [endpoint EXCEPT ![c] = "serving"]
        /\ UNCHANGED registry
     \/ SendRaises(c) /\ Discard(c)
  /\ UNCHANGED <<cache, report, task, conn, up, cut>>

\* Slip: the endpoint ends without a word to the registry.
SlipStaysRegistered(c) ==
  /\ endpoint[c] = "serving"
  /\ c \notin up
  /\ endpoint' = [endpoint EXCEPT ![c] = "closed"]
  /\ UNCHANGED <<server, task, conn, up, tab, cut>>

\* The ping every thirty seconds changes nothing until it finds the
\* connection lost.
PingFails(c) ==
  /\ endpoint[c] = "serving"
  /\ c \notin up
  /\ Discard(c)
  /\ UNCHANGED <<cache, report, task, conn, up, tab, cut>>

-----------------------------------------------------------------------------
(* Tabs: app.js.                                                           *)

Current(t) == <<t, conn[t]>>
Live(t)    == Current(t) \in up         \* wsState = 'connected'

\* A page is loaded with its first connection.
Loaded(t) == conn[t] > 0

\* init, and connectWS five seconds after a connection was lost.
Connect(t) ==
  /\ ~ Live(t)
  /\ conn[t] < MaxConns /\ Affordable
  /\ conn' = [conn EXCEPT ![t] = @ + 1]
  /\ up' = up \cup {<<t, conn[t] + 1>>}
  /\ endpoint' = [endpoint EXCEPT ![<<t, conn[t] + 1>>] = "accepted"]
  /\ tab' = IF Loaded(t) THEN tab ELSE [tab EXCEPT ![t].fetch = "sent"]
  /\ UNCHANGED <<server, task, cut>>

Lose(t) ==
  /\ Live(t)
  /\ up' = up \ {Current(t)}
  /\ UNCHANGED <<server, task, endpoint, conn, tab, cut>>

\* fetchInitial: the server answers, and later, with the last of six answers
\* or an error in one of them, the tab goes on.
AnswerFetch(t) ==
  /\ tab[t].fetch = "sent"
  /\ tab' = [tab EXCEPT ![t].fetch = "answered",
                        ![t].reply = [shown |-> cache, changes |-> report]]
  /\ UNCHANGED <<server, task, links, cut>>

UseFetch(t) ==
  LET r == tab[t].reply IN
  /\ tab[t].fetch = "answered"
  /\ tab' = [tab EXCEPT ![t].fetch = "over", ![t].reply = Nothing,
                        ![t].shown = Overlay(@, r.shown),
                        ![t].changes = IF r.changes # Nothing THEN r.changes ELSE @]
  /\ UNCHANGED <<server, task, links, cut>>

DropFetch(t) ==
  /\ tab[t].fetch \in {"sent", "answered"}
  /\ tab' = [tab EXCEPT ![t].fetch = "over", ![t].reply = Nothing]
  /\ UNCHANGED <<server, task, links, cut>>

\* triggerScan; the button is disabled while the tab shows a scan.  Scans
\* and MaxDemand bound what is asked for.
Rescan(t) ==
  /\ Loaded(t) /\ ~ tab[t].scanning
  /\ (\E n \in Scans : task[n].at = 0) /\ Affordable
  /\ tab' = [tab EXCEPT ![t].scanning = TRUE, ![t].asked = TRUE]
  /\ UNCHANGED <<server, task, links, cut>>

\* api_trigger_scan: a further scan, whether or not one is running.
TriggerScan(t) ==
  /\ tab[t].asked /\ Affordable
  /\ \E n \in Scans : task[n].at = 0 /\ task' = [task EXCEPT ![n] = NewTask(1)]
  /\ tab' = [tab EXCEPT ![t].asked = FALSE]
  /\ UNCHANGED <<server, links, cut>>

TriggerFails(t) ==
  /\ tab[t].asked
  /\ tab' = [tab EXCEPT ![t].asked = FALSE, ![t].scanning = FALSE]
  /\ UNCHANGED <<server, task, links, cut>>

\* runSpeedtest; the button is disabled while the tab's own test runs.
RunSpeedtest(t) ==
  /\ Loaded(t) /\ tab[t].test = Nothing /\ Affordable
  /\ \E n \in Tests :
       /\ task[n].at = 0
       /\ task' = [task EXCEPT ![n] = NewTask(1)]
       /\ tab' = [tab EXCEPT ![t].test = n]
  /\ UNCHANGED <<server, links, cut>>

\* The response carries the result, unless the request failed.
SpeedtestAnswered(t) ==
  LET n == tab[t].test IN
  /\ n # Nothing
  /\ task[n].at > Len(TestSteps)
  /\ \/ /\ task[n].phase # "failed"
        /\ tab' = [tab EXCEPT ![t].test = Nothing, ![t].shown["speedtest"] = n]
     \/ tab' = [tab EXCEPT ![t].test = Nothing]
  /\ UNCHANGED <<server, task, links, cut>>

-----------------------------------------------------------------------------

TaskStep(n) ==
  \/ Announce(n) \/ Produce(n) \/ Stumble(n) \/ SkipPersist(n) \/ Persist(n)
  \/ BroadcastChanges(n) \/ CutShort(n) \/ SendNext(n) \/ EndBroadcast(n)

EndpointStep(c) == Join(c) \/ SendCache(c) \/ PingFails(c)

TabStep(t) ==
  \/ Connect(t) \/ Lose(t) \/ AnswerFetch(t) \/ UseFetch(t) \/ DropFetch(t)
  \/ Rescan(t) \/ TriggerScan(t) \/ TriggerFails(t)
  \/ RunSpeedtest(t) \/ SpeedtestAnswered(t)

Next ==
  \/ \E n \in Tasks : TaskStep(n)
  \/ \E c \in Conns : EndpointStep(c)
  \/ \E t \in Tabs : TabStep(t)

Spec == Init /\ [][Next]_vars

\* The event loop runs every task and every endpoint that can go on.
FairSpec ==
  /\ Spec
  /\ \A n \in Tasks : WF_vars(TaskStep(n))
  /\ \A c \in Conns : WF_vars(EndpointStep(c))

=============================================================================
