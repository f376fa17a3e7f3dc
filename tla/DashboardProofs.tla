-------------------------- MODULE DashboardProofs --------------------------
(***************************************************************************)
(* The registry and the endpoints agree, and live tabs show what the       *)
(* server has, for every number of tabs, scans and connections.            *)
(***************************************************************************)
EXTENDS DashboardProperties, FiniteSetTheorems, TLAPS

\* The connections that have been made.
Made == {c \in Conns : c[2] <= conn[c[1]]}

\* The broadcast a task is in holds for dead only what is lost.
CastOk(cast, lost) ==
  /\ cast = [msg |-> cast.msg, must |-> cast.must, sent |-> cast.sent, size |-> cast.size,
             dead |-> cast.dead]
  /\ cast.dead \subseteq lost

TaskOk(view, lost) ==
  /\ view = [at |-> view.at, phase |-> view.phase, found |-> view.found, cast |-> view.cast]
  /\ CastOk(view.cast, lost)

Lost == Made \ up

TasksInv == DOMAIN task = Tasks /\ \A n \in Tasks : TaskOk(task[n], Lost)

\* RegisteredIsServed is not inductive: a broadcast takes out of the registry
\* what it found dead some steps before.
LinksInv ==
  /\ endpoint \in [Conns -> {"none", "accepted", "joined", "serving", "closed"}]
  /\ conn \in [Tabs -> Nat]
  /\ up \subseteq Made
  /\ registry \subseteq Made
  /\ \A c \in Conns : endpoint[c] # "none" => c \in Made
  /\ RegisteredIsServed

RegistryInv == TasksInv /\ LinksInv

-----------------------------------------------------------------------------
(* Tasks.                                                                  *)

LEMMA NewTaskOk == ASSUME NEW at, NEW lost PROVE TaskOk(NewTask(at), lost)
BY DEF TaskOk, CastOk, NewTask, NoBroadcast

\* A task whose other locals change, and one that is at its next stage.
LEMMA TaskOkKept ==
  ASSUME NEW view, NEW lost, TaskOk(view, lost)
  PROVE  /\ \A f : TaskOk([view EXCEPT !.found = f], lost)
         /\ \A p : TaskOk([view EXCEPT !.phase = p], lost)
         /\ \A k : CastOk(k, lost) => TaskOk([view EXCEPT !.cast = k], lost)
BY DEF TaskOk

LEMMA AdvancedOk == ASSUME NEW n, NEW view, NEW lost PROVE TaskOk(Advanced(n, view), lost)
<1> DEFINE f == view.found /\ view.at < Len(Steps(n))
<1>1. Advanced(n, view) = [NewTask(view.at + 1) EXCEPT !.found = f]
  BY DEF Advanced
<1> HIDE DEF f
<1> QED BY <1>1, NewTaskOk, TaskOkKept

\* A step that changes one task.
LEMMA TaskStepOk ==
  ASSUME TasksInv, NEW n \in Tasks, NEW view, TaskOk(view, Lost),
         task' = [task EXCEPT ![n] = view], UNCHANGED <<conn, up>>
  PROVE  TasksInv'
<1>1. Lost' = Lost
  BY DEF Lost, Made
<1>2. DOMAIN task' = Tasks /\ \A m \in Tasks : task'[m] = IF m = n THEN view ELSE task[m]
  BY DEF TasksInv
<1> QED BY <1>1, <1>2 DEF TasksInv

LEMMA AdvanceOk ==
  ASSUME TasksInv, NEW n \in Tasks, Advance(n), UNCHANGED <<conn, up>>
  PROVE  TasksInv'
<1>1. task' = [task EXCEPT ![n] = Advanced(n, task[n])]
  BY DEF Advance
<1> QED BY <1>1, AdvancedOk, TaskStepOk

LEMMA RaiseOk ==
  ASSUME TasksInv, NEW n \in Tasks, Raise(n), UNCHANGED <<conn, up>>
  PROVE  TasksInv'
<1> DEFINE failed == [NewTask(Len(Steps(n)) + 1) EXCEPT !.phase = "failed"]
<1>1. TaskOk(failed, Lost)
  BY NewTaskOk, TaskOkKept
<1>2. Advance(n) \/ task' = [task EXCEPT ![n] = failed]
  BY DEF Raise
<1> HIDE DEF failed
<1> QED BY <1>1, <1>2, AdvanceOk, TaskStepOk

LEMMA BroadcastOk ==
  ASSUME TasksInv, registry \subseteq Made, NEW n \in Tasks, NEW view, TaskOk(view, Lost),
         NEW msg, Broadcast(n, view, msg), UNCHANGED <<conn, up>>
  PROVE  TasksInv'
<1> DEFINE begun(c, dead) == [view EXCEPT !.phase = "send",
             !.cast = [msg |-> msg, must |-> registry, sent |-> {c},
                       size |-> Cardinality(registry), dead |-> dead]]
<1>1. ASSUME NEW c, NEW dead, dead \subseteq Lost PROVE TaskOk(begun(c, dead), Lost)
  <2> DEFINE cast == [msg |-> msg, must |-> registry, sent |-> {c},
                      size |-> Cardinality(registry), dead |-> dead]
  <2>1. CastOk(cast, Lost)
    BY <1>1 DEF CastOk
  <2> DEFINE sending == [view EXCEPT !.phase = "send"]
  <2>2. TaskOk(sending, Lost)
    BY TaskOkKept
  <2>3. begun(c, dead) = [sending EXCEPT !.cast = cast]
    OBVIOUS
  <2> HIDE DEF begun, cast, sending
  <2> QED BY <2>1, <2>2, <2>3, TaskOkKept
<1>2. CASE task' = [task EXCEPT ![n] = Advanced(n, view)]
  BY <1>2, AdvancedOk, TaskStepOk
<1>3. ASSUME NEW c \in registry, SendRaises(c), task' = [task EXCEPT ![n] = begun(c, {c})]
      PROVE  TasksInv'
  <2>1. {c} \subseteq Lost
    BY <1>3 DEF SendRaises, Lost
  <2> QED BY <1>1, <1>3, <2>1, TaskStepOk
<1>4. ASSUME NEW c \in registry, task' = [task EXCEPT ![n] = begun(c, {})] PROVE TasksInv'
  BY <1>1, <1>4, TaskStepOk
<1> QED BY <1>2, <1>3, <1>4 DEF Broadcast

LEMMA SendNextOk ==
  ASSUME TasksInv, registry \subseteq Made, NEW n \in Tasks, SendNext(n)
  PROVE  TasksInv'
<1>1. UNCHANGED <<conn, up>>
  BY DEF SendNext, links
<1>2. PICK c \in registry :
        \/ task' = [task EXCEPT ![n].cast.sent = @ \cup {c}]
        \/ /\ c \notin up
           /\ task' = [task EXCEPT ![n].cast.sent = @ \cup {c}, ![n].cast.dead = @ \cup {c}]
  BY DEF SendNext, SendRaises
<1> DEFINE told == [task[n] EXCEPT !.cast.sent = @ \cup {c}]
           dead == [task[n] EXCEPT !.cast.sent = @ \cup {c}, !.cast.dead = @ \cup {c}]
<1>3. TaskOk(task[n], Lost)
  BY DEF TasksInv
<1>4. TaskOk(told, Lost)
  BY <1>3 DEF TaskOk, CastOk
<1>5. ASSUME c \notin up PROVE TaskOk(dead, Lost)
  <2>1. told = [at |-> told.at, phase |-> told.phase, found |-> told.found, cast |-> told.cast]
        /\ CastOk(told.cast, Lost)
    BY <1>4 DEF TaskOk
  <2>2. dead = [told EXCEPT !.cast.dead = @ \cup {c}]
    BY <1>3 DEF TaskOk, CastOk
  <2>3. c \in Lost
    BY <1>5 DEF Lost
  <2> HIDE DEF told, dead
  <2> QED BY <2>1, <2>2, <2>3 DEF TaskOk, CastOk
<1>6. \/ task' = [task EXCEPT ![n] = told]
      \/ c \notin up /\ task' = [task EXCEPT ![n] = dead]
  BY <1>2 DEF TasksInv
<1> HIDE DEF told, dead
<1> QED BY <1>1, <1>4, <1>5, <1>6, TaskStepOk

\* The steps of the tasks, which leave connections and endpoints alone.
LEMMA TaskSteps ==
  ASSUME RegistryInv, NEW n \in Tasks, TaskStep(n)
  PROVE  RegistryInv'
<1>1. TasksInv /\ registry \subseteq Made /\ TaskOk(task[n], Lost)
  BY DEF RegistryInv, TasksInv, LinksInv
<1>2. UNCHANGED links
  BY DEF TaskStep, Announce, Produce, Stumble, SkipPersist, Persist, BroadcastChanges, CutShort,
         SendNext, EndBroadcast
<1>3. UNCHANGED <<conn, up>>
  BY <1>2 DEF links
<1>4. ASSUME UNCHANGED registry PROVE LinksInv'
  BY <1>2, <1>4 DEF RegistryInv, LinksInv, RegisteredIsServed, Made, links
<1>5. CASE Announce(n)
  BY <1>1, <1>3, <1>4, <1>5, BroadcastOk DEF Announce, server, RegistryInv
<1>6. CASE Produce(n)
  <2>1. PICK found : Broadcast(n, [task[n] EXCEPT !.found = found], Message(Kind(n), n))
    BY <1>6 DEF Produce
  <2>2. TasksInv'
    BY <1>1, <1>3, <2>1, TaskOkKept, BroadcastOk
  <2> QED BY <1>4, <1>6, <2>2 DEF Produce, RegistryInv
<1>7. CASE Stumble(n)
  BY <1>1, <1>3, <1>4, <1>7, RaiseOk DEF Stumble, server, RegistryInv
<1>8. CASE SkipPersist(n)
  BY <1>1, <1>3, <1>4, <1>8, AdvanceOk DEF SkipPersist, server, RegistryInv
<1>9. CASE Persist(n)
  <2> DEFINE reading == [task[n] EXCEPT !.phase = "read"]
  <2>1. TaskOk(reading, Lost)
    BY <1>1, TaskOkKept
  <2>2. Advance(n) \/ task' = [task EXCEPT ![n] = reading]
    BY <1>9 DEF Persist
  <2> HIDE DEF reading
  <2>3. TasksInv'
    BY <1>1, <1>3, <2>1, <2>2, AdvanceOk, TaskStepOk
  <2> QED BY <1>4, <1>9, <2>3 DEF Persist, RegistryInv
<1>10. CASE BroadcastChanges(n)
  BY <1>1, <1>3, <1>4, <1>10, BroadcastOk DEF BroadcastChanges, server, RegistryInv
<1>11. CASE CutShort(n)
  BY <1>1, <1>3, <1>4, <1>11, RaiseOk DEF CutShort, server, RegistryInv
<1>12. CASE SendNext(n)
  BY <1>1, <1>4, <1>12, SendNextOk DEF SendNext, server, RegistryInv
<1>13. CASE EndBroadcast(n)
  <2>1. TasksInv'
    BY <1>1, <1>3, <1>13, AdvanceOk DEF EndBroadcast
  <2>2. registry' = registry \ task[n].cast.dead /\ task[n].cast.dead \subseteq Lost
    BY <1>1, <1>13 DEF EndBroadcast, TaskOk, CastOk
  <2>3. LinksInv'
    BY <1>2, <2>2 DEF RegistryInv, LinksInv, RegisteredIsServed, Made, Lost, links
  <2> QED BY <2>1, <2>3 DEF RegistryInv
<1> QED BY <1>5, <1>6, <1>7, <1>8, <1>9, <1>10, <1>11, <1>12, <1>13 DEF TaskStep

-----------------------------------------------------------------------------
(* Endpoints and tabs.                                                     *)

LEMMA TasksStay ==
  ASSUME TasksInv, UNCHANGED task, Lost \subseteq Lost'
  PROVE  TasksInv'
BY DEF TasksInv, TaskOk, CastOk

LEMMA DiscardOk ==
  ASSUME LinksInv, NEW c \in Conns, c \notin up, endpoint[c] # "none", Discard(c),
         UNCHANGED <<conn, up>>
  PROVE  LinksInv'
BY DEF LinksInv, RegisteredIsServed, Made, Discard

LEMMA EndpointSteps ==
  ASSUME RegistryInv, NEW c \in Conns, EndpointStep(c)
  PROVE  RegistryInv'
<1>1. UNCHANGED <<task, conn, up>>
  BY DEF EndpointStep, Join, SendCache, PingFails
<1>2. TasksInv'
  BY <1>1, TasksStay DEF RegistryInv, Lost, Made
<1>3. CASE c \notin up /\ endpoint[c] # "none" /\ Discard(c)
  BY <1>1, <1>2, <1>3, DiscardOk DEF RegistryInv
<1>4. CASE /\ endpoint[c] = "accepted" /\ registry' = registry \cup {c}
           /\ endpoint' = [endpoint EXCEPT ![c] = "joined"]
  <2>1. c \in Made
    BY <1>4 DEF RegistryInv, LinksInv
  <2>2. LinksInv'
    BY <1>1, <1>4, <2>1 DEF RegistryInv, LinksInv, RegisteredIsServed, Made
  <2> QED BY <1>2, <2>2 DEF RegistryInv
<1>5. CASE /\ endpoint[c] = "joined" /\ registry' = registry
           /\ endpoint' = [endpoint EXCEPT ![c] = "serving"]
  <2>1. LinksInv'
    BY <1>1, <1>5 DEF RegistryInv, LinksInv, RegisteredIsServed, Made
  <2> QED BY <1>2, <2>1 DEF RegistryInv
<1>6. CASE Join(c)
  BY <1>3, <1>4, <1>6 DEF Join
<1>7. CASE SendCache(c)
  BY <1>3, <1>5, <1>7 DEF SendCache, SendRaises
<1>8. CASE PingFails(c)
  BY <1>3, <1>8 DEF PingFails
<1> QED BY <1>6, <1>7, <1>8 DEF EndpointStep

LEMMA TabSteps ==
  ASSUME RegistryInv, NEW t \in Tabs, TabStep(t)
  PROVE  RegistryInv'
<1>1. CASE Connect(t)
  <2> DEFINE c == <<t, conn[t] + 1>>
  <2>1. /\ conn[t] \in Nat /\ c \in Conns /\ c \notin Made /\ c[1] = t /\ c[2] = conn[t] + 1
    BY <1>1, BoundsAssumption DEF Connect, RegistryInv, LinksInv, Conns, Made
  <2>2. /\ conn' = [conn EXCEPT ![t] = conn[t] + 1] /\ up' = up \cup {c}
        /\ endpoint' = [endpoint EXCEPT ![c] = "accepted"]
        /\ registry' = registry /\ task' = task
    BY <1>1 DEF Connect, server
  <2> HIDE DEF c
  <2>3. Made' = Made \cup {c}
    <3>1. ASSUME NEW d \in Conns PROVE d \in Made' <=> d \in Made \/ d = c
      <4>1. d = <<d[1], d[2]>> /\ d[1] \in Tabs /\ d[2] \in Nat
        BY BoundsAssumption DEF Conns
      <4>2. CASE d[1] = t
        BY <2>1, <2>2, <4>1, <4>2 DEF Made, RegistryInv, LinksInv, c
      <4>3. CASE d[1] # t
        BY <2>1, <2>2, <4>1, <4>3 DEF Made, RegistryInv, LinksInv
      <4> QED BY <4>2, <4>3
    <3> QED BY <2>1, <3>1 DEF Made
  <2>4. c \notin registry /\ c \notin up /\ endpoint[c] = "none"
    BY <2>1 DEF RegistryInv, LinksInv
  <2>5. LinksInv'
    <3>1. conn' \in [Tabs -> Nat]
      BY <2>1, <2>2 DEF RegistryInv, LinksInv
    <3>2. endpoint' \in [Conns -> {"none", "accepted", "joined", "serving", "closed"}]
      BY <2>2 DEF RegistryInv, LinksInv
    <3>3. up' \subseteq Made' /\ registry' \subseteq Made'
      BY <2>2, <2>3 DEF RegistryInv, LinksInv
    <3>4. \A d \in Conns : endpoint'[d] # "none" => d \in Made'
      BY <2>2, <2>3 DEF RegistryInv, LinksInv
    <3>5. RegisteredIsServed'
      BY <2>1, <2>2, <2>4 DEF RegistryInv, LinksInv, RegisteredIsServed
    <3> QED BY <3>1, <3>2, <3>3, <3>4, <3>5 DEF LinksInv
  <2>6. Lost \subseteq Lost'
    BY <2>1, <2>2, <2>3 DEF Lost
  <2> QED BY <2>2, <2>5, <2>6, TasksStay DEF RegistryInv
<1>2. CASE Lose(t)
  <2>1. UNCHANGED <<registry, task, endpoint, conn>> /\ up' \subseteq up
    BY <1>2 DEF Lose, server
  <2>2. LinksInv'
    BY <2>1 DEF RegistryInv, LinksInv, RegisteredIsServed, Made
  <2> QED BY <2>1, <2>2, TasksStay DEF RegistryInv, Lost, Made
<1>3. CASE AnswerFetch(t) \/ UseFetch(t) \/ DropFetch(t) \/ Rescan(t) \/ TriggerFails(t)
           \/ SpeedtestAnswered(t)
  <2>1. UNCHANGED <<registry, task, endpoint, conn, up>>
    BY <1>3 DEF AnswerFetch, UseFetch, DropFetch, Rescan, TriggerFails, SpeedtestAnswered, server,
                links
  <2>2. LinksInv'
    BY <2>1 DEF RegistryInv, LinksInv, RegisteredIsServed, Made
  <2> QED BY <2>1, <2>2, TasksStay DEF RegistryInv, Lost, Made
<1>4. CASE TriggerScan(t) \/ RunSpeedtest(t)
  <2>1. PICK n \in Tasks : task' = [task EXCEPT ![n] = NewTask(1)]
    BY <1>4 DEF TriggerScan, RunSpeedtest, Tasks
  <2>2. UNCHANGED <<registry, endpoint, conn, up>>
    BY <1>4 DEF TriggerScan, RunSpeedtest, server, links
  <2>3. TasksInv'
    BY <2>1, <2>2, NewTaskOk, TaskStepOk DEF RegistryInv
  <2>4. LinksInv'
    BY <2>2 DEF RegistryInv, LinksInv, RegisteredIsServed, Made
  <2> QED BY <2>3, <2>4 DEF RegistryInv
<1> QED BY <1>1, <1>2, <1>3, <1>4 DEF TabStep

-----------------------------------------------------------------------------

LEMMA RegistryInit == Init => RegistryInv
<1> SUFFICES ASSUME Init PROVE RegistryInv
  OBVIOUS
<1>1. TasksInv
  BY NewTaskOk DEF Init, TasksInv
<1>2. LinksInv
  BY DEF Init, LinksInv, RegisteredIsServed
<1> QED BY <1>1, <1>2 DEF RegistryInv

LEMMA RegistryNext == RegistryInv /\ [Next]_vars => RegistryInv'
<1> SUFFICES ASSUME RegistryInv, [Next]_vars PROVE RegistryInv'
  OBVIOUS
<1>1. CASE Next
  BY <1>1, TaskSteps, EndpointSteps, TabSteps DEF Next
<1>2. CASE UNCHANGED vars
  BY <1>2, TasksStay DEF vars, server, links, RegistryInv, LinksInv, RegisteredIsServed, Lost, Made
<1> QED BY <1>1, <1>2

\* Whatever broadcasts and endpoints do to the registry between two awaits,
\* what is registered has an endpoint that will take it out again, and what
\* is served and up is registered.
THEOREM RegistryHolds == Spec => []RegisteredIsServed
<1>1. RegistryInv => RegisteredIsServed
  BY DEF RegistryInv, LinksInv
<1> QED BY <1>1, RegistryInit, RegistryNext, PTL DEF Spec

-----------------------------------------------------------------------------
(* What tabs show.                                                         *)

\* What produces the results of a kind, and what of it has been started.
Class(kind) == IF kind = "speedtest" THEN Tests ELSE Scans
Started(kind, tasks) == {n \in Class(kind) : tasks[n].at > 0}

\* Results of tasks that were started, of kinds the server has a result of.
Genuine(shown, had, tasks) ==
  /\ shown \in [Cached -> Tasks \cup {Nothing}]
  /\ \A kind \in Cached : shown[kind] # Nothing =>
       shown[kind] \in Started(kind, tasks) /\ had[kind] # Nothing

IsView(view) ==
  view = [shown |-> view.shown, changes |-> view.changes, scanning |-> view.scanning,
          asked |-> view.asked, test |-> view.test, fetch |-> view.fetch, reply |-> view.reply]

ViewOk(view, had, tasks) ==
  /\ IsView(view)
  /\ Genuine(view.shown, had, tasks)
  /\ view.fetch = "answered" => Genuine(view.reply.shown, had, tasks)
  /\ view.test \in Tests \cup {Nothing}

\* A broadcast carries what its task produced, which is cached by then.
CarriesOwn(n) ==
  LET msg == task[n].cast.msg IN
  /\ msg = Message(Kind(n), msg.data)
  /\ Kind(n) \in Cached => msg.data = n /\ cache[Kind(n)] # Nothing

ResultsInv ==
  /\ Genuine(cache, cache, task)
  /\ DOMAIN tab = Tabs /\ \A t \in Tabs : ViewOk(tab[t], cache, task)
  /\ \A n \in Tasks : task[n].at \in Nat /\ (Casting(n) => CarriesOwn(n))
  /\ \A n \in Tests : Casting(n) \/ (task[n].at > 1 /\ task[n].phase # "failed")
                        => cache["speedtest"] # Nothing
  /\ IsFiniteSet({n \in Tasks : task[n].at > 0})

\* A tab whose connection is served shows a result of every kind there is
\* one of, or a broadcast of that kind is on its way to it.
Served(t) == Current(t) \in up /\ endpoint[Current(t)] = "serving"

Pending(n, c, kind) ==
  /\ Casting(n) /\ Kind(n) = kind
  /\ c \in task[n].cast.must /\ c \notin task[n].cast.sent

ReachInv == ~ cut =>
  \A t \in Tabs : \A kind \in Cached :
    Served(t) /\ cache[kind] # Nothing =>
      tab[t].shown[kind] # Nothing \/ \E n \in Tasks : Pending(n, Current(t), kind)

-----------------------------------------------------------------------------
(* The stages of a task, and the kinds of results.                         *)

LEMMA Kinds ==
  /\ SectionKinds \subseteq {"hosts", "services", "diagnostics"}
  /\ Sections \in Seq(SectionKinds)
  /\ ScanSteps \in Seq(SectionKinds \cup {"scan_start", "change_detected", "scan_done"})
  /\ Len(ScanSteps) \in Nat /\ Len(ScanSteps) > 1
<1>1. Sections \in Seq({"hosts", "services", "diagnostics"})
  BY SectionsAssumption
<1>2. SectionKinds \subseteq {"hosts", "services", "diagnostics"}
  BY <1>1 DEF SectionKinds
<1>3. Sections \in Seq(SectionKinds)
  BY <1>1 DEF SectionKinds
<1> DEFINE All == SectionKinds \cup {"scan_start", "change_detected", "scan_done"}
<1>4. <<"scan_start">> \in Seq(All) /\ <<"change_detected", "scan_done">> \in Seq(All)
  OBVIOUS
<1>5. Sections \in Seq(All)
  BY <1>3
<1>6. ScanSteps \in Seq(All)
  BY <1>4, <1>5 DEF ScanSteps
<1>7. Len(ScanSteps) = 1 + Len(Sections) + 2 /\ Len(Sections) \in Nat
  BY <1>4, <1>5 DEF ScanSteps
<1> QED BY <1>2, <1>3, <1>6, <1>7

LEMMA KindOf ==
  ASSUME NEW n \in Tasks, Running(n), task[n].at \in Nat
  PROVE  /\ task[n].at > 0
         /\ n \in Tests => Kind(n) = "speedtest" /\ task[n].at = 1
         /\ n \notin Tests => Kind(n) \in SectionKinds \cup {"scan_start", "change_detected", "scan_done"}
         /\ Kind(n) \in Cached => n \in Class(Kind(n))
<1>1. CASE n \in Tests
  BY <1>1 DEF Running, Steps, TestSteps, Kind, Class
<1>2. CASE n \notin Tests
  <2>1. Kind(n) \in SectionKinds \cup {"scan_start", "change_detected", "scan_done"} /\ task[n].at > 0
    BY <1>2, Kinds DEF Running, Steps, Kind
  <2>2. Kind(n) # "speedtest" /\ n \in Scans
    BY <1>2, <2>1, Kinds DEF Tasks
  <2> QED BY <1>2, <2>1, <2>2 DEF Class
<1> QED BY <1>1, <1>2

LEMMA GenuineKept ==
  ASSUME NEW f, NEW had, NEW tasks, NEW had1, NEW tasks1, Genuine(f, had, tasks),
         \A kind \in Cached : had[kind] # Nothing => had1[kind] # Nothing,
         \A kind \in Cached : Started(kind, tasks) \subseteq Started(kind, tasks1)
  PROVE  Genuine(f, had1, tasks1)
BY DEF Genuine

LEMMA ViewKept ==
  ASSUME NEW view, NEW had, NEW tasks, NEW had1, NEW tasks1, ViewOk(view, had, tasks),
         \A kind \in Cached : had[kind] # Nothing => had1[kind] # Nothing,
         \A kind \in Cached : Started(kind, tasks) \subseteq Started(kind, tasks1)
  PROVE  ViewOk(view, had1, tasks1)
BY GenuineKept DEF ViewOk

\* Putting one result, or those of another map, in the place of others.
LEMMA GenuineUpdate ==
  ASSUME NEW f, NEW had, NEW tasks, Genuine(f, had, tasks), NEW kind \in Cached,
         NEW n \in Started(kind, tasks), had[kind] # Nothing
  PROVE  /\ Genuine([f EXCEPT ![kind] = n], had, tasks)
         /\ [f EXCEPT ![kind] = n][kind] # Nothing
         /\ \A k \in Cached : f[k] # Nothing => [f EXCEPT ![kind] = n][k] # Nothing
<1>1. n \in Tasks /\ n # Nothing
  BY TasksAssumption DEF Started, Class, Tasks
<1> QED BY <1>1 DEF Genuine

LEMMA GenuineOverlay ==
  ASSUME NEW f, NEW g, NEW had, NEW tasks, Genuine(f, had, tasks), Genuine(g, had, tasks)
  PROVE  /\ Genuine(Overlay(f, g), had, tasks)
         /\ \A k \in Cached : f[k] # Nothing \/ g[k] # Nothing => Overlay(f, g)[k] # Nothing
BY DEF Genuine, Overlay

\* A view in which something else changes.
LEMMA ViewFields ==
  ASSUME NEW view, NEW had, NEW tasks, ViewOk(view, had, tasks)
  PROVE  /\ \A x : ViewOk([view EXCEPT !.scanning = x], had, tasks)
         /\ \A x : ViewOk([view EXCEPT !.asked = x], had, tasks)
         /\ \A x : ViewOk([view EXCEPT !.changes = x], had, tasks)
         /\ \A x : ViewOk([view EXCEPT !.reply = x], had, tasks)
              \/ (view.fetch = "answered" /\ ~ Genuine(x.shown, had, tasks))
         /\ \A x \in Tests \cup {Nothing} : ViewOk([view EXCEPT !.test = x], had, tasks)
         /\ \A x : x # "answered" => ViewOk([view EXCEPT !.fetch = x], had, tasks)
         /\ \A x : Genuine(x, had, tasks) => ViewOk([view EXCEPT !.shown = x], had, tasks)
BY DEF ViewOk, IsView

\* No result that was shown is not shown any more.
Better(old, new) == \A k \in Cached : old.shown[k] # Nothing => new.shown[k] # Nothing

LEMMA HandledOk ==
  ASSUME NEW view, NEW had, NEW tasks, ViewOk(view, had, tasks),
         NEW kind \in Cached \cup {"scan_start", "scan_done", "change_detected"}, NEW data,
         kind \in Cached => data \in Started(kind, tasks) /\ had[kind] # Nothing
  PROVE  LET new == Handled(view, Message(kind, data))
         IN  /\ ViewOk(new, had, tasks) /\ Better(view, new)
             /\ kind \in Cached => new.shown[kind] # Nothing
<1> DEFINE new == Handled(view, Message(kind, data))
<1>1. /\ Message(kind, data).type = kind /\ Message(kind, data).data = data
      /\ Cached \subseteq {"hosts", "services", "diagnostics", "speedtest"}
  BY Kinds DEF Message, Cached
<1>2. CASE kind \notin Cached
  <2>1. \E x : \/ new = [view EXCEPT !.scanning = x]
               \/ new = [view EXCEPT !.changes = x]
    BY <1>1, <1>2 DEF Handled
  <2>2. ViewOk(new, had, tasks)
    BY <2>1, ViewFields
  <2>3. new.shown = view.shown
    BY <2>1 DEF ViewOk, IsView
  <2> QED BY <1>2, <2>2, <2>3 DEF Better
<1>3. CASE kind \in Cached
  <2> DEFINE shown == [view.shown EXCEPT ![kind] = data]
  <2>1. new = [view EXCEPT !.shown = shown]
    BY <1>1, <1>3 DEF Handled, ViewOk, IsView
  <2>2. /\ Genuine(shown, had, tasks) /\ shown[kind] # Nothing
        /\ \A k \in Cached : view.shown[k] # Nothing => shown[k] # Nothing
    BY <1>3, GenuineUpdate DEF ViewOk
  <2> HIDE DEF new, shown
  <2>3. ViewOk(new, had, tasks) /\ new.shown = shown
    BY <2>1, <2>2, ViewFields DEF ViewOk, IsView
  <2> QED BY <2>2, <2>3 DEF Better, new
<1> QED BY <1>2, <1>3

LEMMA CacheHandledOk ==
  ASSUME NEW view, NEW had, NEW tasks, ViewOk(view, had, tasks), Genuine(had, had, tasks)
  PROVE  LET new == Handled(view, Message("cache", had))
         IN  /\ ViewOk(new, had, tasks) /\ Better(view, new)
             /\ \A kind \in Cached : had[kind] # Nothing => new.shown[kind] # Nothing
<1> DEFINE new == Handled(view, Message("cache", had))
           shown == Overlay(view.shown, had)
<1>1. /\ Message("cache", had).type = "cache" /\ Message("cache", had).data = had
      /\ "cache" \notin Cached
  BY Kinds DEF Message, Cached
<1>2. new = [view EXCEPT !.shown = shown]
  BY <1>1 DEF Handled, ViewOk, IsView
<1>3. /\ Genuine(shown, had, tasks)
      /\ \A k \in Cached : view.shown[k] # Nothing \/ had[k] # Nothing => shown[k] # Nothing
  BY GenuineOverlay DEF ViewOk
<1> HIDE DEF new, shown
<1>4. ViewOk(new, had, tasks) /\ new.shown = shown
  BY <1>2, <1>3, ViewFields DEF ViewOk, IsView
<1> QED BY <1>3, <1>4 DEF Better, new

-----------------------------------------------------------------------------
(* A step of a task, as far as results are concerned.                      *)

LiveInv == ResultsInv /\ ReachInv

\* A task moves on, and may have put its result into the cache.
Moved(n, view) ==
  /\ task' = [task EXCEPT ![n] = view] /\ view.at \in Nat /\ view.at > 0
  /\ UNCHANGED links
  /\ \/ cache' = cache
     \/ Kind(n) \in Cached /\ cache' = [cache EXCEPT ![Kind(n)] = n]

\* Nothing that was started or cached is not any more.
MoreDone ==
  /\ \A kind \in Cached : cache[kind] # Nothing => cache'[kind] # Nothing
  /\ \A kind \in Cached : Started(kind, task) \subseteq Started(kind, task')

LEMMA StartedOne ==
  ASSUME TasksInv, ResultsInv, NEW n \in Tasks, NEW view,
         task' = [task EXCEPT ![n] = view], view.at \in Nat, view.at > 0
  PROVE  /\ task'[n] = view /\ \A m \in Tasks : m # n => task'[m] = task[m]
         /\ \A kind : Started(kind, task) \subseteq Started(kind, task')
         /\ \A m \in Tasks : task'[m].at \in Nat
         /\ IsFiniteSet({m \in Tasks : task'[m].at > 0})
<1>1. task'[n] = view /\ \A m \in Tasks : m # n => task'[m] = task[m]
  BY DEF TasksInv
<1>2. \A kind : Started(kind, task) \subseteq Started(kind, task')
  BY <1>1 DEF Started, Class, Tasks
<1> DEFINE at == {m \in Tasks : task[m].at > 0}
<1>3. {m \in Tasks : task'[m].at > 0} = at \cup {n}
  BY <1>1
<1>4. IsFiniteSet(at)
  BY DEF ResultsInv
<1> HIDE DEF at
<1>5. IsFiniteSet(at \cup {n})
  BY <1>4, FS_AddElement
<1> QED BY <1>1, <1>2, <1>3, <1>5 DEF ResultsInv

LEMMA MovedOk ==
  ASSUME TasksInv, ResultsInv, NEW n \in Tasks, Running(n), NEW view, Moved(n, view)
  PROVE  /\ task'[n] = view /\ \A m \in Tasks : m # n => task'[m] = task[m]
         /\ \A m \in Tasks : task'[m].at \in Nat
         /\ IsFiniteSet({m \in Tasks : task'[m].at > 0})
         /\ MoreDone /\ Genuine(cache', cache', task')
         /\ \A t \in Tabs : ViewOk(tab[t], cache', task')
<1>1. /\ task'[n] = view /\ \A m \in Tasks : m # n => task'[m] = task[m]
      /\ \A kind : Started(kind, task) \subseteq Started(kind, task')
      /\ \A m \in Tasks : task'[m].at \in Nat
      /\ IsFiniteSet({m \in Tasks : task'[m].at > 0})
  BY StartedOne DEF Moved
<1>2. Genuine(cache, cache, task) /\ n # Nothing
  BY TasksAssumption DEF ResultsInv, Tasks
<1>3. \A kind \in Cached : cache[kind] # Nothing => cache'[kind] # Nothing
  BY <1>2 DEF Moved, Genuine
<1>4. Genuine(cache, cache', task')
  BY <1>1, <1>2, <1>3, GenuineKept
<1>5. ASSUME Kind(n) \in Cached, cache' = [cache EXCEPT ![Kind(n)] = n]
      PROVE  Genuine(cache', cache', task')
  <2>1. n \in Class(Kind(n))
    BY <1>5, KindOf DEF ResultsInv
  <2>2. n \in Started(Kind(n), task')
    BY <1>1, <2>1 DEF Started, Moved
  <2>3. cache'[Kind(n)] # Nothing
    BY <1>2, <1>5 DEF Genuine
  <2>4. Genuine([cache EXCEPT ![Kind(n)] = n], cache', task')
    BY <1>4, <1>5, <2>2, <2>3, GenuineUpdate
  <2> QED BY <1>5, <2>4
<1>6. Genuine(cache', cache', task')
  BY <1>4, <1>5 DEF Moved
<1>7. \A t \in Tabs : ViewOk(tab[t], cache', task')
  BY <1>1, <1>3, ViewKept DEF ResultsInv
<1> QED BY <1>1, <1>3, <1>6, <1>7 DEF MoreDone

\* What holds of the other tasks.
LEMMA OthersOk ==
  ASSUME ResultsInv, MoreDone, NEW m \in Tasks, task'[m] = task[m]
  PROVE  /\ Kind(m)' = Kind(m) /\ (Casting(m)' <=> Casting(m))
         /\ Casting(m)' => CarriesOwn(m)'
         /\ m \in Tests /\ (Casting(m)' \/ (task'[m].at > 1 /\ task'[m].phase # "failed"))
              => cache'["speedtest"] # Nothing
         /\ \A c, kind : Pending(m, c, kind)' <=> Pending(m, c, kind)
<1>1. Kind(m)' = Kind(m) /\ (Casting(m)' <=> Casting(m))
  BY DEF Kind, Steps, Casting, Running
<1>2. Casting(m)' => CarriesOwn(m)'
  BY <1>1 DEF ResultsInv, MoreDone, CarriesOwn
<1>3. "speedtest" \in Cached
  BY DEF Cached
<1>4. m \in Tests /\ (Casting(m)' \/ (task'[m].at > 1 /\ task'[m].phase # "failed"))
        => cache'["speedtest"] # Nothing
  BY <1>1, <1>3 DEF ResultsInv, MoreDone
<1>5. \A c, kind : Pending(m, c, kind)' <=> Pending(m, c, kind)
  BY <1>1 DEF Pending
<1> QED BY <1>1, <1>2, <1>4, <1>5

\* A tab is covered for a kind by what it shows, or by a broadcast.
Covered(t, kind) ==
  tab[t].shown[kind] # Nothing \/ \E m \in Tasks : Pending(m, Current(t), kind)

LEMMA ReachKept ==
  ASSUME ReachInv, UNCHANGED links, ~ cut' => ~ cut,
         \A t \in Tabs : \A kind \in Cached :
           /\ ~ cut' /\ Served(t) /\ cache'[kind] # Nothing
           /\ cache[kind] # Nothing => Covered(t, kind)
           => Covered(t, kind)'
  PROVE  ReachInv'
<1>1. \A t \in Tabs : Current(t)' = Current(t) /\ (Served(t)' <=> Served(t))
  BY DEF links, Current, Served
<1>2. ASSUME ~ cut', NEW t \in Tabs, NEW kind \in Cached, Served(t)', cache'[kind] # Nothing
      PROVE  Covered(t, kind)'
  <2>1. Served(t)
    BY <1>1, <1>2
  <2>2. ~ cut
    BY <1>2
  <2>3. cache[kind] # Nothing => Covered(t, kind)
    BY <2>1, <2>2 DEF ReachInv, Covered
  <2> QED BY <1>2, <2>1, <2>3
<1> QED BY <1>2 DEF ReachInv, Covered

\* A task goes to another stage, without a broadcast, or ends.
LEMMA EndedLive ==
  ASSUME RegistryInv, LiveInv, NEW n \in Tasks, Running(n), NEW view, Moved(n, view),
         view.phase # "send", UNCHANGED tab,
         cache' = cache \/ registry = {},
         n \in Tests => view.phase = "failed" \/ cache'["speedtest"] # Nothing,
         ~ cut' => ~ cut,
         ~ cut' /\ Casting(n) => task[n].cast.must \cap registry \subseteq task[n].cast.sent
  PROVE  LiveInv'
<1>0. TasksInv /\ ResultsInv /\ ReachInv
  BY DEF RegistryInv, LiveInv
<1>1. /\ task'[n] = view /\ \A m \in Tasks : m # n => task'[m] = task[m]
      /\ \A m \in Tasks : task'[m].at \in Nat
      /\ IsFiniteSet({m \in Tasks : task'[m].at > 0})
      /\ MoreDone /\ Genuine(cache', cache', task')
      /\ \A t \in Tabs : ViewOk(tab[t], cache', task')
  BY <1>0, MovedOk
<1>2. ~ Casting(n)'
  BY <1>1 DEF Casting
<1>3. ASSUME NEW m \in Tasks, Casting(m)' PROVE CarriesOwn(m)'
  BY <1>0, <1>1, <1>2, <1>3, OthersOk
<1>4. ASSUME NEW m \in Tests, Casting(m)' \/ (task'[m].at > 1 /\ task'[m].phase # "failed")
      PROVE  cache'["speedtest"] # Nothing
  BY <1>0, <1>1, <1>2, <1>4, OthersOk DEF Tasks
<1>5. ResultsInv'
  BY <1>0, <1>1, <1>3, <1>4 DEF ResultsInv
<1>6. ASSUME NEW t \in Tabs, NEW kind \in Cached, ~ cut', Served(t), cache'[kind] # Nothing,
             cache[kind] # Nothing => Covered(t, kind)
      PROVE  Covered(t, kind)'
  <2>1. Current(t) \in registry
    BY <1>6 DEF RegistryInv, LinksInv, RegisteredIsServed, Served, Made
  <2>2. ~ Pending(n, Current(t), kind)
    BY <1>6, <2>1 DEF Pending
  <2>3. Covered(t, kind)
    BY <1>6, <2>1
  <2>4. Current(t)' = Current(t)
    BY DEF Moved, links, Current
  <2>5. ASSUME NEW m \in Tasks, Pending(m, Current(t), kind) PROVE Pending(m, Current(t), kind)'
    <3>1. m # n
      BY <2>2, <2>5
    <3>2. \A c, k : Pending(m, c, k)' <=> Pending(m, c, k)
      BY <1>0, <1>1, <3>1, OthersOk
    <3> QED BY <2>4, <2>5, <3>2 DEF Pending
  <2> QED BY <2>3, <2>5 DEF Covered
<1>7. ReachInv'
  BY <1>0, <1>6, ReachKept DEF Moved
<1> QED BY <1>5, <1>7 DEF LiveInv

\* A message of a broadcast changes one tab, for the better.
LEMMA SentOk ==
  ASSUME NEW had, NEW tasks, DOMAIN tab = Tabs, \A t \in Tabs : ViewOk(tab[t], had, tasks),
         NEW c \in Conns, NEW kind \in Cached \cup {"scan_start", "scan_done", "change_detected"},
         NEW data, kind \in Cached => data \in Started(kind, tasks) /\ had[kind] # Nothing,
         SendOk(c, Message(kind, data)) \/ SendRaises(c)
  PROVE  /\ DOMAIN tab' = Tabs
         /\ \A t \in Tabs : ViewOk(tab'[t], had, tasks) /\ Better(tab[t], tab'[t])
         /\ c \in up /\ kind \in Cached => tab'[c[1]].shown[kind] # Nothing
<1> DEFINE msg == Message(kind, data)
           new == Handled(tab[c[1]], msg)
<1>1. c[1] \in Tabs
  BY DEF Conns
<1>2. /\ ViewOk(new, had, tasks) /\ Better(tab[c[1]], new)
      /\ kind \in Cached => new.shown[kind] # Nothing
  BY <1>1, HandledOk
<1>3. \/ tab' = tab /\ c \notin up
      \/ tab' = [tab EXCEPT ![c[1]] = new]
  BY DEF SendOk, SendRaises
<1> HIDE DEF new, msg
<1>4. CASE tab' = tab /\ c \notin up
  BY <1>4 DEF Better
<1>5. CASE tab' = [tab EXCEPT ![c[1]] = new]
  BY <1>1, <1>2, <1>5 DEF Better
<1> QED BY <1>3, <1>4, <1>5

LEMMA KindSent ==
  ASSUME ResultsInv, NEW n \in Tasks, Running(n)
  PROVE  /\ Kind(n) \in Cached \cup {"scan_start", "scan_done", "change_detected"}
         /\ Kind(n) \in Cached => n \in Started(Kind(n), task)
         /\ n \in Tests => Kind(n) = "speedtest"
<1>1. task[n].at \in Nat
  BY DEF ResultsInv
<1> QED BY <1>1, KindOf DEF Started, Cached

\* A task is at the same stage and broadcasts a message of its own.
LEMMA CastingLive ==
  ASSUME RegistryInv, LiveInv, NEW n \in Tasks, Running(n), NEW view, Moved(n, view),
         view.at = task[n].at, view.phase = "send",
         NEW data, view.cast.msg = Message(Kind(n), data),
         Kind(n) \in Cached => data = n /\ cache'[Kind(n)] # Nothing,
         NEW c \in registry, SendOk(c, Message(Kind(n), data)) \/ SendRaises(c),
         view.cast.sent = (IF Casting(n) THEN task[n].cast.sent ELSE {}) \cup {c},
         view.cast.must = (IF Casting(n) THEN task[n].cast.must ELSE registry),
         Casting(n) \/ Kind(n) \notin Cached => cache' = cache,
         UNCHANGED cut
  PROVE  LiveInv'
<1>0. TasksInv /\ ResultsInv /\ ReachInv
  BY DEF RegistryInv, LiveInv
<1>1. /\ task'[n] = view /\ \A m \in Tasks : m # n => task'[m] = task[m]
      /\ \A m \in Tasks : task'[m].at \in Nat
      /\ IsFiniteSet({m \in Tasks : task'[m].at > 0})
      /\ MoreDone /\ Genuine(cache', cache', task')
      /\ \A t \in Tabs : ViewOk(tab[t], cache', task')
  BY <1>0, MovedOk
<1>2. /\ Kind(n) \in Cached \cup {"scan_start", "scan_done", "change_detected"}
      /\ Kind(n) \in Cached => n \in Started(Kind(n), task')
      /\ n \in Tests => Kind(n) = "speedtest"
  BY <1>0, <1>1, KindSent DEF MoreDone
<1>3. c \in Conns
  BY DEF RegistryInv, LinksInv, Made
<1>4. /\ DOMAIN tab' = Tabs
      /\ \A t \in Tabs : ViewOk(tab'[t], cache', task') /\ Better(tab[t], tab'[t])
      /\ c \in up /\ Kind(n) \in Cached => tab'[c[1]].shown[Kind(n)] # Nothing
  <2>1. DOMAIN tab = Tabs
    BY <1>0 DEF ResultsInv
  <2>2. Kind(n) \in Cached => data \in Started(Kind(n), task') /\ cache'[Kind(n)] # Nothing
    BY <1>2
  <2> DEFINE had == cache'
             tasks == task'
  <2>3. \A t \in Tabs : ViewOk(tab[t], had, tasks)
    BY <1>1
  <2>4. Kind(n) \in Cached => data \in Started(Kind(n), tasks) /\ had[Kind(n)] # Nothing
    BY <2>2
  <2>5. SendOk(c, Message(Kind(n), data)) \/ SendRaises(c)
    OBVIOUS
  <2> HIDE DEF had, tasks
  <2>6. /\ DOMAIN tab' = Tabs
        /\ \A t \in Tabs : ViewOk(tab'[t], had, tasks) /\ Better(tab[t], tab'[t])
        /\ c \in up /\ Kind(n) \in Cached => tab'[c[1]].shown[Kind(n)] # Nothing
    BY <1>2, <1>3, <2>1, <2>3, <2>4, <2>5, SentOk
  <2> QED BY <2>6 DEF had, tasks
<1>5. /\ Casting(n)' /\ Kind(n)' = Kind(n)
  BY <1>1 DEF Casting, Running, Kind, Steps
<1>6. CarriesOwn(n)'
  <2>1. Message(Kind(n), data).data = data
    BY DEF Message
  <2> QED BY <1>1, <1>5, <2>1 DEF CarriesOwn
<1>7. ASSUME NEW m \in Tasks, Casting(m)' PROVE CarriesOwn(m)'
  BY <1>0, <1>1, <1>6, <1>7, OthersOk
<1>8. ASSUME NEW m \in Tests, Casting(m)' \/ (task'[m].at > 1 /\ task'[m].phase # "failed")
      PROVE  cache'["speedtest"] # Nothing
  <2>1. CASE m = n
    BY <1>2, <2>1 DEF Cached
  <2>2. CASE m # n
    BY <1>0, <1>1, <1>8, <2>2, OthersOk DEF Tasks
  <2> QED BY <2>1, <2>2
<1>9. ResultsInv'
  BY <1>0, <1>1, <1>4, <1>7, <1>8 DEF ResultsInv
<1>10. ASSUME NEW t \in Tabs, NEW kind \in Cached, ~ cut', Served(t), cache'[kind] # Nothing,
              cache[kind] # Nothing => Covered(t, kind)
       PROVE  Covered(t, kind)'
  <2>1. Current(t) \in registry /\ Current(t) \in up
    BY <1>10 DEF RegistryInv, LinksInv, RegisteredIsServed, Served, Made
  <2>2. Current(t)' = Current(t) /\ Current(t)[1] = t
    BY DEF Moved, links, Current
  <2>3. ASSUME tab[t].shown[kind] # Nothing PROVE Covered(t, kind)'
    BY <1>4, <2>3 DEF Better, Covered
  <2>4. ASSUME NEW m \in Tasks, m # n, Pending(m, Current(t), kind) PROVE Covered(t, kind)'
    <3>1. \A x, k : Pending(m, x, k)' <=> Pending(m, x, k)
      BY <1>0, <1>1, <2>4, OthersOk
    <3> QED BY <2>2, <2>4, <3>1 DEF Covered, Pending
  <2>5. ASSUME kind = Kind(n), Current(t) \in view.cast.must,
               Casting(n) => Current(t) \notin task[n].cast.sent
        PROVE  Covered(t, kind)'
    <3>1. CASE Current(t) = c
      BY <1>4, <2>1, <2>2, <2>5, <3>1 DEF Covered
    <3>2. CASE Current(t) # c
      <4>1. Current(t) \notin view.cast.sent
        BY <2>5, <3>2
      <4>2. Pending(n, Current(t), kind)'
        BY <1>1, <1>5, <2>2, <2>5, <4>1 DEF Pending
      <4> QED BY <4>2 DEF Covered
    <3> QED BY <3>1, <3>2
  <2>6. CASE cache[kind] # Nothing /\ (Casting(n) \/ kind # Kind(n))
    <3>1. Covered(t, kind)
      BY <1>10, <2>6
    <3>2. ASSUME Pending(n, Current(t), kind) PROVE Covered(t, kind)'
      BY <2>5, <2>6, <3>2 DEF Pending
    <3> QED BY <2>3, <2>4, <3>1, <3>2 DEF Covered
  <2>7. CASE ~ Casting(n) /\ kind = Kind(n)
    BY <2>1, <2>5, <2>7
  <2>8. cache'[kind] = cache[kind] \/ (~ Casting(n) /\ kind = Kind(n))
    BY <1>0 DEF Moved, ResultsInv, Genuine
  <2> QED BY <1>10, <2>6, <2>7, <2>8
<1>11. ReachInv'
  BY <1>0, <1>10, ReachKept DEF Moved
<1> QED BY <1>9, <1>11 DEF LiveInv

-----------------------------------------------------------------------------
(* The steps of the tasks.                                                 *)

LEMMA AdvancedFields ==
  ASSUME NEW n, NEW view
  PROVE  Advanced(n, view).at = view.at + 1 /\ Advanced(n, view).phase = "work"
BY DEF Advanced, NewTask

LEMMA AdvanceLive ==
  ASSUME RegistryInv, LiveInv, NEW n \in Tasks, Running(n), NEW view, view.at = task[n].at,
         task' = [task EXCEPT ![n] = Advanced(n, view)], UNCHANGED links, UNCHANGED tab,
         \/ cache' = cache
         \/ registry = {} /\ Kind(n) \in Cached /\ cache' = [cache EXCEPT ![Kind(n)] = n],
         n \in Tests => cache'["speedtest"] # Nothing,
         ~ cut' => ~ cut,
         ~ cut' /\ Casting(n) => task[n].cast.must \cap registry \subseteq task[n].cast.sent
  PROVE  LiveInv'
<1> DEFINE new == Advanced(n, view)
<1>1. task[n].at \in Nat /\ task[n].at > 0
  BY KindOf DEF LiveInv, ResultsInv
<1>2. new.at \in Nat /\ new.at > 0 /\ new.phase # "send"
  BY <1>1, AdvancedFields
<1> HIDE DEF new
<1>3. Moved(n, new)
  BY <1>2 DEF Moved, new
<1>4. cache' = cache \/ registry = {}
  OBVIOUS
<1> QED BY <1>2, <1>3, <1>4, EndedLive

LEMMA RaiseLive ==
  ASSUME RegistryInv, LiveInv, NEW n \in Tasks, Running(n), Raise(n), UNCHANGED links,
         UNCHANGED tab, UNCHANGED cache, ~ cut' => ~ cut, ~ cut' => ~ Casting(n)
  PROVE  LiveInv'
<1> DEFINE failed == [NewTask(Len(Steps(n)) + 1) EXCEPT !.phase = "failed"]
<1>1. CASE Kind(n) \in Guarded
  <2>1. n \notin Tests
    BY <1>1, KindSent, Kinds DEF LiveInv, Guarded
  <2>2. task' = [task EXCEPT ![n] = Advanced(n, task[n])]
    BY <1>1 DEF Raise, Advance
  <2> QED BY <2>1, <2>2, AdvanceLive
<1>2. CASE Kind(n) \notin Guarded
  <2>1. Len(Steps(n)) \in Nat
    BY Kinds DEF Steps, TestSteps
  <2>2. failed.at = Len(Steps(n)) + 1 /\ failed.phase = "failed"
    BY DEF NewTask
  <2>3. task' = [task EXCEPT ![n] = failed]
    BY <1>2 DEF Raise
  <2> HIDE DEF failed
  <2>4. Moved(n, failed)
    BY <2>1, <2>2, <2>3 DEF Moved
  <2> QED BY <2>2, <2>4, EndedLive
<1> QED BY <1>1, <1>2

LEMMA BroadcastLive ==
  ASSUME RegistryInv, LiveInv, NEW n \in Tasks, Running(n), ~ Casting(n),
         NEW view, TaskOk(view, Lost), view.at = task[n].at,
         NEW data, Broadcast(n, view, Message(Kind(n), data)), UNCHANGED links, UNCHANGED cut,
         \/ Kind(n) \notin Cached /\ cache' = cache
         \/ Kind(n) \in Cached /\ data = n /\ cache' = [cache EXCEPT ![Kind(n)] = n]
  PROVE  LiveInv'
<1> DEFINE msg == Message(Kind(n), data)
           cast(c, dead) == [msg |-> msg, must |-> registry, sent |-> {c},
                             size |-> Cardinality(registry), dead |-> dead]
           begun(c, dead) == [view EXCEPT !.phase = "send", !.cast = cast(c, dead)]
<1>1. Kind(n) \in Cached => cache'[Kind(n)] # Nothing
  BY TasksAssumption DEF LiveInv, ResultsInv, Genuine, Tasks
<1>2. n \in Tests => Kind(n) = "speedtest" /\ Kind(n) \in Cached
  BY KindSent DEF LiveInv, Cached
<1>3. CASE registry = {}
  <2>1. task' = [task EXCEPT ![n] = Advanced(n, view)] /\ UNCHANGED tab
    BY <1>3 DEF Broadcast
  <2>2. n \in Tests => cache'["speedtest"] # Nothing
    BY <1>1, <1>2
  <2> QED BY <1>3, <2>1, <2>2, AdvanceLive
<1>4. CASE registry # {}
  <2>0. PICK c \in registry : \E dead :
          (SendOk(c, msg) \/ SendRaises(c)) /\ task' = [task EXCEPT ![n] = begun(c, dead)]
    <3>1. \E c \in registry : \/ SendOk(c, msg) /\ task' = [task EXCEPT ![n] = begun(c, {})]
                              \/ SendRaises(c) /\ task' = [task EXCEPT ![n] = begun(c, {c})]
      BY <1>4 DEF Broadcast
    <3> HIDE DEF msg, begun
    <3> QED BY <3>1
  <2>1. PICK dead : (SendOk(c, msg) \/ SendRaises(c)) /\ task' = [task EXCEPT ![n] = begun(c, dead)]
    BY <2>0
  <2> DEFINE new == begun(c, dead)
  <2>2. /\ new.at = view.at /\ new.phase = "send" /\ new.cast.msg = msg
        /\ new.cast.sent = {c} /\ new.cast.must = registry
    BY DEF TaskOk
  <2>3. task[n].at \in Nat /\ task[n].at > 0
    BY KindOf DEF LiveInv, ResultsInv
  <2>4. task' = [task EXCEPT ![n] = new]
    BY <2>1
  <2> HIDE DEF new
  <2>5. Moved(n, new)
    BY <2>2, <2>3, <2>4 DEF Moved
  <2>6. /\ new.cast.sent = (IF Casting(n) THEN task[n].cast.sent ELSE {}) \cup {c}
        /\ new.cast.must = (IF Casting(n) THEN task[n].cast.must ELSE registry)
        /\ new.cast.msg = Message(Kind(n), data)
    BY <2>2
  <2> QED BY <1>1, <2>1, <2>2, <2>5, <2>6, CastingLive
<1> QED BY <1>3, <1>4

LEMMA SendNextLive ==
  ASSUME RegistryInv, LiveInv, NEW n \in Tasks, SendNext(n)
  PROVE  LiveInv'
<1>0. /\ Casting(n) /\ Running(n) /\ task[n].phase = "send"
      /\ UNCHANGED links /\ UNCHANGED cut /\ UNCHANGED cache
  BY DEF SendNext, Casting, server
<1>1. PICK c \in registry :
        /\ SendOk(c, task[n].cast.msg) \/ SendRaises(c)
        /\ \/ task' = [task EXCEPT ![n].cast.sent = @ \cup {c}]
           \/ task' = [task EXCEPT ![n].cast.sent = @ \cup {c}, ![n].cast.dead = @ \cup {c}]
  BY DEF SendNext
<1>2. /\ TaskOk(task[n], Lost) /\ DOMAIN task = Tasks /\ task[n].at \in Nat /\ task[n].at > 0
      /\ CarriesOwn(n)
  BY <1>0, KindOf DEF RegistryInv, TasksInv, LiveInv, ResultsInv
<1> DEFINE told == [task[n] EXCEPT !.cast.sent = @ \cup {c}]
           dead == [task[n] EXCEPT !.cast.sent = @ \cup {c}, !.cast.dead = @ \cup {c}]
           same(new) == /\ new.at = task[n].at /\ new.phase = "send"
                        /\ new.cast.msg = task[n].cast.msg
                        /\ new.cast.sent = task[n].cast.sent \cup {c}
                        /\ new.cast.must = task[n].cast.must
<1>3. same(told)
  BY <1>0, <1>2 DEF TaskOk, CastOk
<1>4. same(dead)
  BY <1>0, <1>2 DEF TaskOk, CastOk
<1>5. \/ task' = [task EXCEPT ![n] = told]
      \/ task' = [task EXCEPT ![n] = dead]
  BY <1>1, <1>2
<1> HIDE DEF told, dead
<1>6. PICK new : task' = [task EXCEPT ![n] = new] /\ same(new)
  BY <1>3, <1>4, <1>5
<1>7. Moved(n, new)
  BY <1>0, <1>2, <1>6 DEF Moved
<1> DEFINE data == task[n].cast.msg.data
<1>8. /\ task[n].cast.msg = Message(Kind(n), data)
      /\ Kind(n) \in Cached => data = n /\ cache'[Kind(n)] # Nothing
  BY <1>0, <1>2 DEF CarriesOwn
<1> HIDE DEF data
<1>9. /\ new.cast.sent = (IF Casting(n) THEN task[n].cast.sent ELSE {}) \cup {c}
      /\ new.cast.must = (IF Casting(n) THEN task[n].cast.must ELSE registry)
      /\ new.cast.msg = Message(Kind(n), data)
      /\ new.at = task[n].at /\ new.phase = "send"
  BY <1>0, <1>6, <1>8
<1>10. SendOk(c, Message(Kind(n), data)) \/ SendRaises(c)
  BY <1>1, <1>8
<1> QED BY <1>0, <1>7, <1>8, <1>9, <1>10, CastingLive

LEMMA LiveTaskSteps ==
  ASSUME RegistryInv, LiveInv, NEW n \in Tasks, TaskStep(n)
  PROVE  LiveInv'
<1>0. Running(n) /\ TaskOk(task[n], Lost) /\ task[n].at \in Nat /\ UNCHANGED links
  BY DEF TaskStep, Announce, Produce, Stumble, SkipPersist, Persist, BroadcastChanges, CutShort,
         SendNext, EndBroadcast, In, Casting, RegistryInv, TasksInv, LiveInv, ResultsInv
<1>1. n \in Tests => Kind(n) = "speedtest"
  BY <1>0, KindOf
<1>2. /\ "speedtest" \in Cached
      /\ {"scan_start", "scan_done", "change_detected"} \cap Cached = {}
  BY Kinds DEF Cached
<1>3. CASE Announce(n)
  <2>1. /\ ~ Casting(n) /\ Kind(n) \notin Cached
        /\ Broadcast(n, task[n], Message(Kind(n), Nothing))
        /\ UNCHANGED cut /\ UNCHANGED cache
    BY <1>2, <1>3 DEF Announce, In, Casting, server
  <2> QED BY <1>0, <2>1, BroadcastLive
<1>4. CASE Produce(n)
  <2>1. PICK found : Broadcast(n, [task[n] EXCEPT !.found = found], Message(Kind(n), n))
    BY <1>4 DEF Produce
  <2> DEFINE view == [task[n] EXCEPT !.found = found]
  <2>2. TaskOk(view, Lost) /\ view.at = task[n].at
    BY <1>0, TaskOkKept DEF TaskOk
  <2>3. /\ ~ Casting(n) /\ Kind(n) \in Cached /\ UNCHANGED cut
        /\ cache' = [cache EXCEPT ![Kind(n)] = n]
    BY <1>4 DEF Produce, In, Casting
  <2> HIDE DEF view
  <2>4. Broadcast(n, view, Message(Kind(n), n))
    BY <2>1 DEF view
  <2> QED BY <1>0, <2>2, <2>3, <2>4, BroadcastLive
<1>5. CASE Stumble(n)
  BY <1>0, <1>5, RaiseLive DEF Stumble, In, Casting, server
<1>6. CASE SkipPersist(n)
  <2>1. /\ Kind(n) = "change_detected" /\ ~ Casting(n) /\ UNCHANGED <<cache, tab, cut>>
        /\ task' = [task EXCEPT ![n] = Advanced(n, task[n])]
    BY <1>6 DEF SkipPersist, In, Casting, server, Advance
  <2>2. n \notin Tests
    BY <1>1, <2>1
  <2> QED BY <1>0, <2>1, <2>2, AdvanceLive
<1>7. CASE Persist(n)
  <2>1. /\ Kind(n) = "change_detected" /\ ~ Casting(n) /\ UNCHANGED cache
        /\ UNCHANGED tab /\ UNCHANGED cut
    BY <1>7 DEF Persist, In, Casting
  <2>2. n \notin Tests
    BY <1>1, <2>1
  <2>3. CASE task' = [task EXCEPT ![n] = Advanced(n, task[n])]
    BY <1>0, <2>1, <2>2, <2>3, AdvanceLive
  <2> DEFINE reading == [task[n] EXCEPT !.phase = "read"]
  <2>4. ASSUME task' = [task EXCEPT ![n] = reading] PROVE LiveInv'
    <3>1. reading.at = task[n].at /\ reading.phase = "read"
      BY <1>0 DEF TaskOk
    <3>2. task[n].at > 0
      BY <1>0, KindOf
    <3> HIDE DEF reading
    <3>3. Moved(n, reading)
      BY <1>0, <2>1, <2>4, <3>1, <3>2 DEF Moved
    <3> QED BY <1>0, <2>1, <2>2, <3>1, <3>3, EndedLive
  <2>5. \/ task' = [task EXCEPT ![n] = Advanced(n, task[n])]
        \/ task' = [task EXCEPT ![n] = reading]
    BY <1>0, <1>7 DEF Persist, Advance, RegistryInv, TasksInv
  <2> QED BY <2>3, <2>4, <2>5
<1>8. CASE BroadcastChanges(n)
  <2>1. /\ ~ Casting(n) /\ Kind(n) = "change_detected"
        /\ Broadcast(n, task[n], Message(Kind(n), report))
        /\ UNCHANGED cut /\ UNCHANGED cache
    BY <1>8 DEF BroadcastChanges, In, Casting, server
  <2> QED BY <1>0, <1>2, <2>1, BroadcastLive
<1>9. CASE CutShort(n)
  <2>1. cut' = TRUE /\ Raise(n) /\ UNCHANGED cache /\ UNCHANGED tab
    BY <1>9 DEF CutShort, server
  <2> QED BY <1>0, <2>1, RaiseLive
<1>10. CASE SendNext(n)
  BY <1>10, SendNextLive
<1>11. CASE EndBroadcast(n)
  <2>1. /\ Casting(n) /\ task[n].cast.must \cap registry \subseteq task[n].cast.sent
        /\ task' = [task EXCEPT ![n] = Advanced(n, task[n])]
        /\ UNCHANGED cache /\ UNCHANGED tab /\ UNCHANGED cut
    BY <1>11 DEF EndBroadcast, Advance
  <2>2. n \in Tests => cache'["speedtest"] # Nothing
    BY <2>1 DEF LiveInv, ResultsInv
  <2> QED BY <1>0, <2>1, <2>2, AdvanceLive
<1> QED BY <1>3, <1>4, <1>5, <1>6, <1>7, <1>8, <1>9, <1>10, <1>11 DEF TaskStep

-----------------------------------------------------------------------------
(* The steps of endpoints and tabs.                                        *)

\* Tasks stay where they are or are started, and a tab that is served shows
\* what it did, and more, or all there is.
LEMMA TabsLive ==
  ASSUME LiveInv, UNCHANGED cache, UNCHANGED cut,
         \A m \in Tasks : \/ task'[m] = task[m]
                          \/ task[m].at = 0 /\ task'[m] = NewTask(1),
         \A kind : Started(kind, task) \subseteq Started(kind, task'),
         IsFiniteSet({m \in Tasks : task'[m].at > 0}),
         DOMAIN tab' = Tabs, \A t \in Tabs : ViewOk(tab'[t], cache, task'),
         \A t \in Tabs : Served(t)' =>
           \/ Served(t) /\ Current(t)' = Current(t) /\ Better(tab[t], tab'[t])
           \/ \A kind \in Cached : cache[kind] # Nothing => tab'[t].shown[kind] # Nothing
  PROVE  LiveInv'
<1>1. ResultsInv /\ ReachInv
  BY DEF LiveInv
<1>2. MoreDone
  BY DEF MoreDone
<1>3. NewTask(1).at = 1 /\ NewTask(1).phase = "work"
  BY DEF NewTask
<1>4. \A m \in Tasks : task'[m].at \in Nat
  BY <1>1, <1>3 DEF ResultsInv
<1>5. Genuine(cache', cache', task')
  BY <1>1, GenuineKept DEF ResultsInv
<1>6. ASSUME NEW m \in Tasks, Casting(m)' PROVE CarriesOwn(m)'
  <2>1. task'[m] = task[m]
    BY <1>3, <1>6 DEF Casting
  <2> QED BY <1>1, <1>2, <1>6, <2>1, OthersOk
<1>7. ASSUME NEW m \in Tests, Casting(m)' \/ (task'[m].at > 1 /\ task'[m].phase # "failed")
      PROVE  cache'["speedtest"] # Nothing
  <2>1. m \in Tasks
    BY DEF Tasks
  <2>2. task'[m] = task[m]
    BY <1>3, <1>7, <2>1 DEF Casting
  <2> QED BY <1>1, <1>2, <1>7, <2>1, <2>2, OthersOk
<1>8. ResultsInv'
  BY <1>4, <1>5, <1>6, <1>7 DEF ResultsInv
<1>9. ASSUME ~ cut', NEW t \in Tabs, NEW kind \in Cached, Served(t)', cache'[kind] # Nothing
      PROVE  Covered(t, kind)'
  <2>1. CASE tab'[t].shown[kind] # Nothing
    BY <2>1 DEF Covered
  <2>2. CASE Served(t) /\ Current(t)' = Current(t) /\ Better(tab[t], tab'[t])
    <3>1. Covered(t, kind)
      BY <1>1, <1>9, <2>2 DEF ReachInv, Covered
    <3>2. ASSUME NEW m \in Tasks, Pending(m, Current(t), kind)
          PROVE  Covered(t, kind)'
      <4>1. task[m].at > 0
        BY <1>1, <3>2, KindOf DEF Pending, Casting, ResultsInv
      <4>2. task'[m] = task[m]
        BY <1>1, <4>1 DEF ResultsInv
      <4>3. \A c, k : Pending(m, c, k)' <=> Pending(m, c, k)
        BY <1>1, <1>2, <4>2, OthersOk
      <4> QED BY <2>2, <3>2, <4>3 DEF Covered, Pending
    <3>3. ASSUME tab[t].shown[kind] # Nothing PROVE Covered(t, kind)'
      BY <2>2, <3>3 DEF Better, Covered
    <3> QED BY <3>1, <3>2, <3>3 DEF Covered
  <2> QED BY <1>9, <2>1, <2>2
<1>10. ReachInv'
  BY <1>9 DEF ReachInv, Covered
<1> QED BY <1>8, <1>10 DEF LiveInv

\* The same, when no task is started.
LEMMA ViewsLive ==
  ASSUME LiveInv, UNCHANGED cache, UNCHANGED cut, UNCHANGED task,
         DOMAIN tab' = Tabs, \A t \in Tabs : ViewOk(tab'[t], cache, task),
         \A t \in Tabs : Served(t)' =>
           \/ Served(t) /\ Current(t)' = Current(t) /\ Better(tab[t], tab'[t])
           \/ \A kind \in Cached : cache[kind] # Nothing => tab'[t].shown[kind] # Nothing
  PROVE  LiveInv'
<1>1. /\ \A m \in Tasks : task'[m] = task[m]
      /\ \A kind : Started(kind, task) \subseteq Started(kind, task')
      /\ IsFiniteSet({m \in Tasks : task'[m].at > 0})
      /\ \A t \in Tabs : ViewOk(tab'[t], cache, task')
  BY DEF LiveInv, ResultsInv
<1> QED BY <1>1, TabsLive

\* The same, when no tab changes either.
LEMMA LinksLive ==
  ASSUME LiveInv, UNCHANGED cache, UNCHANGED cut, UNCHANGED task, UNCHANGED tab,
         \A t \in Tabs : Served(t)' => Served(t) /\ Current(t)' = Current(t)
  PROVE  LiveInv'
<1>1. DOMAIN tab' = Tabs /\ \A t \in Tabs : ViewOk(tab'[t], cache, task) /\ Better(tab[t], tab'[t])
  BY DEF LiveInv, ResultsInv, Better
<1> QED BY <1>1, ViewsLive

LEMMA CurrentConn ==
  ASSUME NEW t \in Tabs, NEW c \in Conns, Current(t) = c PROVE c[1] = t
BY DEF Current

LEMMA LiveEndpointSteps ==
  ASSUME RegistryInv, LiveInv, NEW c \in Conns, EndpointStep(c)
  PROVE  LiveInv'
<1>1. UNCHANGED cache /\ UNCHANGED task /\ UNCHANGED conn /\ UNCHANGED up /\ UNCHANGED cut
  BY DEF EndpointStep, Join, SendCache, PingFails
<1>2. \A t \in Tabs : Current(t)' = Current(t)
  BY <1>1 DEF Current
<1>3. DOMAIN endpoint = Conns
  BY DEF RegistryInv, LinksInv
<1>4. ASSUME NEW e, e # "serving", endpoint' = [endpoint EXCEPT ![c] = e], UNCHANGED tab
      PROVE  LiveInv'
  <2>1. \A t \in Tabs : Served(t)' => Served(t)
    BY <1>1, <1>2, <1>3, <1>4 DEF Served
  <2> QED BY <1>1, <1>2, <1>4, <2>1, LinksLive
<1>5. ASSUME endpoint' = [endpoint EXCEPT ![c] = "serving"],
             IF \E kind \in Cached : cache[kind] # Nothing
             THEN SendOk(c, Message("cache", cache)) ELSE UNCHANGED tab
      PROVE  LiveInv'
  <2> DEFINE new == Handled(tab[c[1]], Message("cache", cache))
  <2>1. DOMAIN tab = Tabs /\ \A t \in Tabs : ViewOk(tab[t], cache, task) /\ Better(tab[t], tab[t])
    BY DEF LiveInv, ResultsInv, Better
  <2>2. c[1] \in Tabs
    BY DEF Conns
  <2>3. /\ ViewOk(new, cache, task) /\ Better(tab[c[1]], new)
        /\ \A kind \in Cached : cache[kind] # Nothing => new.shown[kind] # Nothing
    BY <2>1, <2>2, CacheHandledOk DEF LiveInv, ResultsInv
  <2>4. \/ tab' = tab /\ (c \in up => \A kind \in Cached : cache[kind] = Nothing)
        \/ tab' = [tab EXCEPT ![c[1]] = new]
    BY <1>5 DEF SendOk
  <2> HIDE DEF new
  <2>5. DOMAIN tab' = Tabs /\ \A t \in Tabs : ViewOk(tab'[t], cache, task) /\ Better(tab[t], tab'[t])
    BY <2>1, <2>2, <2>3, <2>4
  <2>6. ASSUME NEW t \in Tabs, Served(t)'
        PROVE  \/ Served(t)
               \/ \A kind \in Cached : cache[kind] # Nothing => tab'[t].shown[kind] # Nothing
    <3>1. CASE Current(t) = c
      <4>1. c \in up /\ c[1] = t
        BY <1>1, <1>2, <2>6, <3>1, CurrentConn DEF Served
      <4> QED BY <2>1, <2>3, <2>4, <4>1
    <3>2. CASE Current(t) # c
      BY <1>1, <1>2, <1>3, <1>5, <2>6, <3>2 DEF Served
    <3> QED BY <3>1, <3>2
  <2> QED BY <1>1, <1>2, <2>5, <2>6, ViewsLive
<1>6. CASE Join(c)
  BY <1>4, <1>6 DEF Join, Discard
<1>7. CASE SendCache(c)
  BY <1>4, <1>5, <1>7 DEF SendCache, SendRaises, Discard
<1>8. CASE PingFails(c)
  BY <1>4, <1>8 DEF PingFails, Discard
<1> QED BY <1>6, <1>7, <1>8 DEF EndpointStep

\* A change of something else leaves what is shown alone.
LEMMA ShownStays ==
  ASSUME NEW view, IsView(view)
  PROVE  \A x : /\ Better(view, [view EXCEPT !.scanning = x])
                /\ Better(view, [view EXCEPT !.asked = x])
                /\ Better(view, [view EXCEPT !.test = x])
                /\ Better(view, [view EXCEPT !.fetch = x])
                /\ Better(view, [view EXCEPT !.reply = x])
                /\ Better(view, [view EXCEPT !.changes = x])
BY DEF IsView, Better

LEMMA BetterTwice ==
  ASSUME NEW a, NEW b, NEW c, Better(a, b), Better(b, c) PROVE Better(a, c)
BY DEF Better

\* A step of a tab that changes what it shows, for the better, or nothing else.
LEMMA ViewLive ==
  ASSUME LiveInv, NEW t \in Tabs, NEW view, tab' = [tab EXCEPT ![t] = view],
         ViewOk(view, cache, task), Better(tab[t], view),
         UNCHANGED cache, UNCHANGED task, UNCHANGED links, UNCHANGED cut
  PROVE  LiveInv'
<1>1. /\ DOMAIN tab' = Tabs
      /\ \A u \in Tabs : ViewOk(tab'[u], cache, task) /\ Better(tab[u], tab'[u])
  BY DEF LiveInv, ResultsInv, Better
<1>2. \A u \in Tabs : Served(u)' => Served(u) /\ Current(u)' = Current(u)
  BY DEF links, Served, Current
<1> QED BY <1>1, <1>2, ViewsLive

\* The same, for a step that starts a task.
LEMMA StartLive ==
  ASSUME RegistryInv, LiveInv, NEW t \in Tabs, NEW view, tab' = [tab EXCEPT ![t] = view],
         ViewOk(view, cache, task), Better(tab[t], view),
         NEW n \in Tasks, task[n].at = 0, task' = [task EXCEPT ![n] = NewTask(1)],
         UNCHANGED cache, UNCHANGED links, UNCHANGED cut
  PROVE  LiveInv'
<1>1. TasksInv /\ ResultsInv
  BY DEF RegistryInv, LiveInv
<1>2. NewTask(1).at \in Nat /\ NewTask(1).at > 0
  BY DEF NewTask
<1>3. /\ task'[n] = NewTask(1) /\ \A m \in Tasks : m # n => task'[m] = task[m]
      /\ \A kind : Started(kind, task) \subseteq Started(kind, task')
      /\ IsFiniteSet({m \in Tasks : task'[m].at > 0})
  BY <1>1, <1>2, StartedOne
<1>4. /\ DOMAIN tab' = Tabs
      /\ \A u \in Tabs : ViewOk(tab'[u], cache, task) /\ Better(tab[u], tab'[u])
  BY <1>1 DEF ResultsInv, Better
<1>5. \A u \in Tabs : ViewOk(tab'[u], cache, task')
  BY <1>3, <1>4, ViewKept
<1>6. \A u \in Tabs : Served(u)' => Served(u) /\ Current(u)' = Current(u)
  BY DEF links, Served, Current
<1>7. \A m \in Tasks : task'[m] = task[m] \/ (task[m].at = 0 /\ task'[m] = NewTask(1))
  BY <1>3
<1> QED BY <1>3, <1>4, <1>5, <1>6, <1>7, TabsLive

\* The browser's requests and what they bring.
LEMMA FetchSteps ==
  ASSUME LiveInv, NEW t \in Tabs, AnswerFetch(t) \/ UseFetch(t) \/ DropFetch(t)
  PROVE  LiveInv'
<1> DEFINE old == tab[t]
<1>1. /\ UNCHANGED cache /\ UNCHANGED task /\ UNCHANGED links /\ UNCHANGED cut
      /\ DOMAIN tab = Tabs /\ ViewOk(old, cache, task) /\ Genuine(cache, cache, task)
  BY DEF AnswerFetch, UseFetch, DropFetch, server, LiveInv, ResultsInv
<1>2. CASE AnswerFetch(t)
  <2> DEFINE new == [old EXCEPT !.fetch = "answered",
                                !.reply = [shown |-> cache, changes |-> report]]
  <2>1. tab' = [tab EXCEPT ![t] = new]
    BY <1>1, <1>2 DEF AnswerFetch
  <2>2. ViewOk(new, cache, task) /\ Better(old, new)
    <3> DEFINE reply == [shown |-> cache, changes |-> report]
               mid == [old EXCEPT !.reply = reply]
    <3>1. new = [mid EXCEPT !.fetch = "answered"]
      OBVIOUS
    <3>2. reply.shown = cache
      OBVIOUS
    <3> HIDE DEF reply
    <3>3. ViewOk(mid, cache, task) /\ Better(old, mid)
      <4>1. Better(old, mid)
        BY <1>1, ShownStays DEF ViewOk
      <4>2. Genuine(reply.shown, cache, task)
        BY <1>1, <3>2
      <4>3. ViewOk(mid, cache, task)
        BY <1>1, <4>2, ViewFields
      <4> QED BY <4>1, <4>3
    <3>4. mid.reply = reply
      BY <1>1 DEF ViewOk, IsView
    <3> HIDE DEF mid, new
    <3>5. IsView(new) /\ new.shown = mid.shown /\ new.reply = mid.reply /\ new.test = mid.test
      BY <3>1, <3>3 DEF ViewOk, IsView
    <3> QED BY <1>1, <3>2, <3>3, <3>4, <3>5 DEF ViewOk, Better
  <2> HIDE DEF new
  <2> QED BY <1>1, <2>1, <2>2, ViewLive
<1>3. CASE DropFetch(t)
  <2> DEFINE new == [old EXCEPT !.fetch = "over", !.reply = Nothing]
  <2>1. tab' = [tab EXCEPT ![t] = new]
    BY <1>1, <1>3 DEF DropFetch
  <2>2. ViewOk(new, cache, task) /\ Better(old, new)
    <3> DEFINE mid == [old EXCEPT !.fetch = "over"]
    <3>1. ViewOk(mid, cache, task) /\ Better(old, mid)
      BY <1>1, ViewFields, ShownStays DEF ViewOk
    <3>2. new = [mid EXCEPT !.reply = Nothing]
      OBVIOUS
    <3>3. mid.fetch # "answered"
      BY <1>1 DEF ViewOk, IsView
    <3> HIDE DEF mid, new
    <3>4. ViewOk([mid EXCEPT !.reply = Nothing], cache, task)
      BY <3>1, <3>3, ViewFields
    <3>5. Better(mid, [mid EXCEPT !.reply = Nothing])
      BY <3>1, ShownStays DEF ViewOk
    <3> QED BY <3>1, <3>2, <3>4, <3>5, BetterTwice
  <2> HIDE DEF new
  <2> QED BY <1>1, <2>1, <2>2, ViewLive
<1>4. CASE UseFetch(t)
  <2> DEFINE shown == Overlay(old.shown, old.reply.shown)
  <2>1. PICK changes : tab' = [tab EXCEPT ![t] = [old EXCEPT !.fetch = "over",
                          !.reply = Nothing, !.shown = shown, !.changes = changes]]
    <3> DEFINE changed == IF old.reply.changes # Nothing THEN old.reply.changes ELSE old.changes
    <3>1. tab' = [tab EXCEPT ![t] = [old EXCEPT !.fetch = "over", !.reply = Nothing,
                    !.shown = shown, !.changes = changed]]
      BY <1>1, <1>4, Zenon DEF UseFetch
    <3> QED BY <3>1, Zenon
  <2>2. /\ Genuine(shown, cache, task)
        /\ \A k \in Cached : old.shown[k] # Nothing => shown[k] # Nothing
    <3>1. Genuine(old.shown, cache, task) /\ Genuine(old.reply.shown, cache, task)
      BY <1>1, <1>4 DEF UseFetch, ViewOk
    <3> QED BY <3>1, GenuineOverlay
  <2> HIDE DEF shown
  <2> DEFINE new == [old EXCEPT !.fetch = "over", !.reply = Nothing, !.shown = shown,
                                !.changes = changes]
  <2>3. ViewOk(new, cache, task) /\ Better(old, new)
    <3> DEFINE a == [old EXCEPT !.fetch = "over"]
               b == [a EXCEPT !.reply = Nothing]
               d == [b EXCEPT !.shown = shown]
    <3>1. new = [d EXCEPT !.changes = changes]
      OBVIOUS
    <3>2. ViewOk(a, cache, task)
      BY <1>1, ViewFields
    <3>3. a.fetch # "answered"
      BY <1>1 DEF ViewOk, IsView
    <3> HIDE DEF a
    <3>4. ViewOk(b, cache, task)
      BY <3>2, <3>3, ViewFields
    <3> HIDE DEF b
    <3>5. ViewOk(d, cache, task)
      BY <2>2, <3>4, ViewFields
    <3>6. d.shown = shown
      BY <3>4 DEF ViewOk, IsView
    <3> HIDE DEF d, new
    <3>7. ViewOk(new, cache, task)
      BY <3>1, <3>5, ViewFields
    <3>8. new.shown = shown
      BY <3>1, <3>5, <3>6 DEF ViewOk, IsView
    <3> QED BY <2>2, <3>7, <3>8 DEF Better
  <2>4. tab' = [tab EXCEPT ![t] = new]
    BY <2>1
  <2> HIDE DEF new
  <2> QED BY <1>1, <2>3, <2>4, ViewLive
<1> QED BY <1>2, <1>3, <1>4

LEMMA LiveTabSteps ==
  ASSUME RegistryInv, LiveInv, NEW t \in Tabs, TabStep(t)
  PROVE  LiveInv'
<1> DEFINE old == tab[t]
<1>0. /\ DOMAIN tab = Tabs /\ ViewOk(old, cache, task)
      /\ \A n \in Tests : task[n].at > 1 /\ task[n].phase # "failed" => cache["speedtest"] # Nothing
      /\ \A n \in Tasks : task[n].at \in Nat
  BY DEF LiveInv, ResultsInv
<1>1. CASE Connect(t)
  <2> DEFINE c == <<t, conn[t] + 1>>
  <2>1. /\ UNCHANGED cache /\ UNCHANGED task /\ UNCHANGED cut
        /\ conn' = [conn EXCEPT ![t] = conn[t] + 1] /\ up' = up \cup {c}
        /\ endpoint' = [endpoint EXCEPT ![c] = "accepted"]
        /\ tab' = tab \/ tab' = [tab EXCEPT ![t] = [old EXCEPT !.fetch = "sent"]]
        /\ conn[t] \in Nat /\ DOMAIN conn = Tabs /\ DOMAIN endpoint = Conns /\ c \in Conns
    BY <1>0, <1>1, BoundsAssumption
    DEF Connect, server, RegistryInv, LinksInv, Conns
  <2>2. ASSUME NEW u \in Tabs, Served(u)' PROVE Served(u) /\ Current(u)' = Current(u)
    <3>1. CASE u = t
      <4>1. Current(u)' = c
        BY <2>1, <3>1 DEF Current
      <4> HIDE DEF c
      <4>2. endpoint'[c] = "accepted"
        BY <2>1
      <4> QED BY <2>2, <4>1, <4>2 DEF Served
    <3>2. CASE u # t
      <4>1. Current(u)' = Current(u) /\ Current(u) # c
        BY <2>1, <3>2 DEF Current
      <4> HIDE DEF c
      <4>2. Current(u) \in Conns
        BY <2>1, <2>2, <4>1 DEF Served, RegistryInv, LinksInv, Made
      <4> QED BY <2>1, <2>2, <4>1, <4>2 DEF Served
    <3> QED BY <3>1, <3>2
  <2> HIDE DEF c
  <2>3. /\ DOMAIN tab' = Tabs
        /\ \A u \in Tabs : ViewOk(tab'[u], cache, task) /\ Better(tab[u], tab'[u])
    <3> DEFINE new == [old EXCEPT !.fetch = "sent"]
    <3>1. ViewOk(new, cache, task) /\ Better(old, new)
      BY <1>0, ViewFields, ShownStays DEF ViewOk
    <3> HIDE DEF new
    <3>2. tab' = tab \/ tab' = [tab EXCEPT ![t] = new]
      BY <2>1 DEF new
    <3> QED BY <3>1, <3>2 DEF LiveInv, ResultsInv, Better
  <2> QED BY <2>1, <2>2, <2>3, ViewsLive
<1>2. CASE Lose(t)
  <2>1. /\ UNCHANGED cache /\ UNCHANGED task /\ UNCHANGED cut /\ UNCHANGED tab
        /\ UNCHANGED <<endpoint, conn>> /\ up' \subseteq up
    BY <1>2 DEF Lose, server
  <2>2. \A u \in Tabs : Served(u)' => Served(u) /\ Current(u)' = Current(u)
    BY <2>1 DEF Served, Current
  <2> QED BY <2>1, <2>2, LinksLive
<1>3. CASE AnswerFetch(t) \/ UseFetch(t) \/ DropFetch(t)
  BY <1>3, FetchSteps
<1>4. CASE Rescan(t)
  <2> DEFINE new == [old EXCEPT !.scanning = TRUE, !.asked = TRUE]
  <2>1. tab' = [tab EXCEPT ![t] = new]
    BY <1>0, <1>4 DEF Rescan
  <2>2. ViewOk(new, cache, task) /\ Better(old, new)
    <3> DEFINE mid == [old EXCEPT !.scanning = TRUE]
    <3>1. ViewOk(mid, cache, task) /\ Better(old, mid)
      BY <1>0, ViewFields, ShownStays DEF ViewOk
    <3>2. new = [mid EXCEPT !.asked = TRUE]
      OBVIOUS
    <3> HIDE DEF mid, new
    <3>4. ViewOk([mid EXCEPT !.asked = TRUE], cache, task)
      BY <3>1, ViewFields
    <3>5. Better(mid, [mid EXCEPT !.asked = TRUE])
      BY <3>1, ShownStays DEF ViewOk
    <3> QED BY <3>1, <3>2, <3>4, <3>5, BetterTwice
  <2> HIDE DEF new
  <2> QED BY <1>4, <2>1, <2>2, ViewLive DEF Rescan, server
<1>5. CASE TriggerFails(t)
  <2> DEFINE new == [old EXCEPT !.asked = FALSE, !.scanning = FALSE]
  <2>1. tab' = [tab EXCEPT ![t] = new]
    BY <1>0, <1>5 DEF TriggerFails
  <2>2. ViewOk(new, cache, task) /\ Better(old, new)
    <3> DEFINE mid == [old EXCEPT !.asked = FALSE]
    <3>1. ViewOk(mid, cache, task) /\ Better(old, mid)
      BY <1>0, ViewFields, ShownStays DEF ViewOk
    <3>2. new = [mid EXCEPT !.scanning = FALSE]
      OBVIOUS
    <3> HIDE DEF mid, new
    <3>4. ViewOk([mid EXCEPT !.scanning = FALSE], cache, task)
      BY <3>1, ViewFields
    <3>5. Better(mid, [mid EXCEPT !.scanning = FALSE])
      BY <3>1, ShownStays DEF ViewOk
    <3> QED BY <3>1, <3>2, <3>4, <3>5, BetterTwice
  <2> HIDE DEF new
  <2> QED BY <1>5, <2>1, <2>2, ViewLive DEF TriggerFails, server
<1>6. CASE TriggerScan(t)
  <2>1. PICK n \in Scans : task[n].at = 0 /\ task' = [task EXCEPT ![n] = NewTask(1)]
    BY <1>6 DEF TriggerScan
  <2> DEFINE new == [old EXCEPT !.asked = FALSE]
  <2>2. tab' = [tab EXCEPT ![t] = new]
    BY <1>0, <1>6 DEF TriggerScan
  <2>3. ViewOk(new, cache, task) /\ Better(old, new)
    BY <1>0, ViewFields, ShownStays DEF ViewOk
  <2> HIDE DEF new
  <2>4. n \in Tasks
    BY DEF Tasks
  <2> QED BY <1>6, <2>1, <2>2, <2>3, <2>4, StartLive DEF TriggerScan, server
<1>7. CASE RunSpeedtest(t)
  <2>1. PICK n \in Tests : /\ task[n].at = 0 /\ task' = [task EXCEPT ![n] = NewTask(1)]
                           /\ tab' = [tab EXCEPT ![t].test = n]
    BY <1>7 DEF RunSpeedtest
  <2> DEFINE new == [old EXCEPT !.test = n]
  <2>2. tab' = [tab EXCEPT ![t] = new]
    BY <1>0, <2>1
  <2>3. ViewOk(new, cache, task) /\ Better(old, new)
    BY <1>0 DEF ViewOk, IsView, Better
  <2> HIDE DEF new
  <2>4. n \in Tasks
    BY DEF Tasks
  <2> QED BY <1>7, <2>1, <2>2, <2>3, <2>4, StartLive DEF RunSpeedtest, server
<1>8. CASE SpeedtestAnswered(t)
  <2> DEFINE n == old.test
             heard == [old EXCEPT !.test = Nothing, !.shown["speedtest"] = n]
             unheard == [old EXCEPT !.test = Nothing]
  <2>1. /\ n \in Tests /\ task[n].at > 1
        /\ \/ task[n].phase # "failed" /\ tab' = [tab EXCEPT ![t] = heard]
           \/ tab' = [tab EXCEPT ![t] = unheard]
    BY <1>0, <1>8 DEF SpeedtestAnswered, TestSteps, ViewOk
  <2>2. ViewOk(unheard, cache, task) /\ Better(old, unheard)
    BY <1>0 DEF ViewOk, IsView, Better
  <2>3. ASSUME task[n].phase # "failed" PROVE ViewOk(heard, cache, task) /\ Better(old, heard)
    <3> DEFINE shown == [old.shown EXCEPT !["speedtest"] = n]
    <3>1. "speedtest" \in Cached /\ n \in Started("speedtest", task) /\ cache["speedtest"] # Nothing
      BY <1>0, <2>1, <2>3 DEF Cached, Started, Class, Tasks
    <3>2. /\ Genuine(shown, cache, task)
          /\ \A k \in Cached : old.shown[k] # Nothing => shown[k] # Nothing
      BY <1>0, <3>1, GenuineUpdate DEF ViewOk
    <3>3. heard = [unheard EXCEPT !.shown = shown] /\ heard.shown = shown
      BY <1>0 DEF ViewOk, IsView
    <3> HIDE DEF shown, heard, unheard
    <3> QED BY <2>2, <3>2, <3>3, ViewFields DEF Better
  <2> HIDE DEF heard, unheard
  <2> QED BY <1>8, <2>1, <2>2, <2>3, ViewLive DEF SpeedtestAnswered, server
<1> QED BY <1>1, <1>2, <1>3, <1>4, <1>5, <1>6, <1>7, <1>8 DEF TabStep

-----------------------------------------------------------------------------

LEMMA LiveInit == Init => LiveInv
<1> SUFFICES ASSUME Init PROVE LiveInv
  OBVIOUS
<1> DEFINE empty == [kind \in Cached |-> Nothing]
<1>1. \A n \in Tasks : task[n].at = (IF n = Startup THEN 1 ELSE 0) /\ task[n].phase = "work"
  BY DEF Init, NewTask
<1>2. Genuine(empty, cache, task) /\ cache = empty
  BY DEF Init, Genuine
<1>3. ViewOk(NewTab, cache, task)
  <2>1. NewTab.shown = empty /\ NewTab.fetch = "none" /\ NewTab.test = Nothing /\ IsView(NewTab)
    BY DEF NewTab, IsView
  <2> HIDE DEF empty
  <2> QED BY <1>2, <2>1 DEF ViewOk
<1>4. {n \in Tasks : task[n].at > 0} = {Startup}
  BY <1>1, StartupAssumption DEF Tasks
<1>5. IsFiniteSet({n \in Tasks : task[n].at > 0})
  BY <1>4, FS_Singleton
<1>6. DOMAIN tab = Tabs /\ \A t \in Tabs : ViewOk(tab[t], cache, task)
  BY <1>3 DEF Init
<1>7. \A n \in Tasks : task[n].at \in Nat /\ ~ Casting(n)
  BY <1>1 DEF Casting
<1>8. \A n \in Tests : task[n].at = 0 /\ ~ Casting(n)
  BY <1>1, <1>7, StartupAssumption, TasksAssumption DEF Tasks
<1>9. ResultsInv
  BY <1>2, <1>5, <1>6, <1>7, <1>8 DEF ResultsInv
<1>10. ReachInv
  BY DEF Init, ReachInv
<1> QED BY <1>9, <1>10 DEF LiveInv

LEMMA LiveNext == RegistryInv /\ LiveInv /\ [Next]_vars => LiveInv'
<1> SUFFICES ASSUME RegistryInv, LiveInv, [Next]_vars PROVE LiveInv'
  OBVIOUS
<1>1. CASE Next
  BY <1>1, LiveTaskSteps, LiveEndpointSteps, LiveTabSteps DEF Next
<1>2. CASE UNCHANGED vars
  <2>1. /\ UNCHANGED cache /\ UNCHANGED cut /\ UNCHANGED task /\ UNCHANGED tab
        /\ UNCHANGED <<endpoint, conn, up>>
    BY <1>2 DEF vars, server, links
  <2>2. \A t \in Tabs : Served(t)' => Served(t) /\ Current(t)' = Current(t)
    BY <2>1 DEF Served, Current
  <2> QED BY <2>1, <2>2, LinksLive
<1> QED BY <1>1, <1>2

\* Of two results of a kind one task alone produced, each is the other.
LEMMA Uncontended ==
  ASSUME ResultsInv, NEW kind \in Cached, ~ Contended(kind),
         NEW a \in Started(kind, task), NEW b \in Started(kind, task)
  PROVE  a = b
<1> DEFINE S == Started(kind, task)
           all == {n \in Tasks : task[n].at > 0}
<1>1. S = {n \in IF kind = "speedtest" THEN Tests ELSE Scans : task[n].at > 0}
  BY DEF Started, Class
<1>2. S \subseteq all /\ IsFiniteSet(all)
  BY DEF Started, Class, Tasks, ResultsInv
<1>3. ~ (Cardinality(S) > 1)
  BY <1>1 DEF Contended
<1> HIDE DEF S, all
<1>4. IsFiniteSet(S)
  BY <1>2, FS_Subset
<1>5. {a, b} \subseteq S
  BY DEF S
<1>6. Cardinality({a, b}) <= Cardinality(S) /\ Cardinality(S) \in Nat
  BY <1>4, <1>5, FS_Subset, FS_CardinalityType
<1>7. ASSUME a # b PROVE Cardinality({a, b}) = 2
  <2>1. IsFiniteSet({a}) /\ Cardinality({a}) = 1
    BY FS_Singleton
  <2>2. Cardinality({a} \cup {b}) = Cardinality({a}) + 1
    BY <1>7, <2>1, FS_AddElement
  <2>3. {a, b} = {a} \cup {b}
    OBVIOUS
  <2> QED BY <2>1, <2>2, <2>3
<1> QED BY <1>3, <1>6, <1>7

LEMMA LiveShows == RegistryInv /\ LiveInv => LiveUnlessCut
<1> SUFFICES ASSUME LiveInv, Quiet, ~ cut, NEW t \in Tabs, Live(t),
                    NEW kind \in Cached, ~ Contended(kind)
             PROVE  tab[t].shown[kind] = cache[kind]
  BY DEF LiveUnlessCut
<1>1. Genuine(cache, cache, task) /\ Genuine(tab[t].shown, cache, task)
  BY DEF LiveInv, ResultsInv, ViewOk
<1>2. CASE cache[kind] = Nothing
  BY <1>1, <1>2 DEF Genuine
<1>3. CASE cache[kind] # Nothing
  <2>1. Served(t)
    BY DEF Quiet, Live, Served
  <2>2. \A n \in Tasks : ~ Pending(n, Current(t), kind)
    BY DEF Quiet, Pending, Casting
  <2>3. tab[t].shown[kind] # Nothing
    BY <1>3, <2>1, <2>2 DEF LiveInv, ReachInv
  <2>4. tab[t].shown[kind] \in Started(kind, task) /\ cache[kind] \in Started(kind, task)
    BY <1>1, <1>3, <2>3 DEF Genuine
  <2> QED BY <2>4, Uncontended DEF LiveInv
<1> QED BY <1>2, <1>3

\* However a tab joined, lost and made connections, whichever tasks ran and
\* whatever they raised: with nothing under way and no broadcast cut short,
\* a live tab shows what the server has of every kind one task produced.
THEOREM LiveUnlessCutHolds == Spec => []LiveUnlessCut
<1>1. Init => RegistryInv /\ LiveInv
  BY RegistryInit, LiveInit
<1>2. (RegistryInv /\ LiveInv) /\ [Next]_vars => (RegistryInv /\ LiveInv)'
  BY RegistryNext, LiveNext
<1> QED BY <1>1, <1>2, LiveShows, PTL DEF Spec

-----------------------------------------------------------------------------
(* Types.  A tab that has an answer holds it until it is used, a broadcast *)
(* has a message, and the size of the registry is a number because the     *)
(* registry is finite.                                                     *)

Phases == {"work", "read", "send", "failed"}

Answers == [shown : Cache, changes : Scans \cup {Nothing}]

\* What is broadcast: changes are those of a scan.
Messages == {m \in [type : Types, data : Results] :
               m.type = "change_detected" => m.data \in Scans \cup {Nothing}}

CastTyped(cast) ==
  /\ cast.msg \in Messages \cup {Nothing}
  /\ cast.must \subseteq Conns /\ cast.sent \subseteq Conns /\ cast.dead \subseteq Conns
  /\ cast.size \in Nat

TaskTyped(n, view) ==
  /\ view.at \in 0..(Len(Steps(n)) + 1)
  /\ view.found \in BOOLEAN /\ view.phase \in Phases
  /\ view.phase = "send" => view.cast.msg \in Messages
  /\ CastTyped(view.cast)

ViewTyped(view) ==
  /\ IsView(view)
  /\ view.changes \in Scans \cup {Nothing}
  /\ view.scanning \in BOOLEAN /\ view.asked \in BOOLEAN
  /\ view.fetch \in {"none", "sent", "answered", "over"}
  /\ view.reply \in Answers \cup {Nothing}
  /\ view.fetch = "answered" => view.reply \in Answers

TasksTyped == task = [n \in Tasks |-> task[n]] /\ \A n \in Tasks : TaskTyped(n, task[n])
TabsTyped  == tab = [t \in Tabs |-> tab[t]] /\ \A t \in Tabs : ViewTyped(tab[t])

RestTyped ==
  /\ IsFiniteSet(registry) /\ report \in Scans \cup {Nothing}
  /\ (\A t \in Tabs : conn[t] <= MaxConns) /\ cut \in BOOLEAN

TypesInv == TasksTyped /\ TabsTyped /\ RestTyped

\* A view in which one field changes.
LEMMA ViewEdited ==
  ASSUME NEW view, ViewTyped(view)
  PROVE  /\ \A x \in BOOLEAN : ViewTyped([view EXCEPT !.scanning = x])
         /\ \A x \in BOOLEAN : ViewTyped([view EXCEPT !.asked = x])
         /\ \A x \in Scans \cup {Nothing} : ViewTyped([view EXCEPT !.changes = x])
         /\ \A x : ViewTyped([view EXCEPT !.shown = x])
         /\ \A x : ViewTyped([view EXCEPT !.test = x])
         /\ \A x \in Answers : ViewTyped([view EXCEPT !.reply = x])
         /\ \A x \in {"sent", "over"} : ViewTyped([view EXCEPT !.fetch = x])
         /\ view.reply \in Answers => ViewTyped([view EXCEPT !.fetch = "answered"])
         /\ view.fetch # "answered" => ViewTyped([view EXCEPT !.reply = Nothing])
BY DEF ViewTyped, IsView

LEMMA HandledTyped ==
  ASSUME NEW view, ViewTyped(view), NEW msg, msg \in Messages \/ msg.type = "cache"
  PROVE  ViewTyped(Handled(view, msg))
<1>1. Cached \subseteq {"hosts", "services", "diagnostics", "speedtest"}
  BY Kinds DEF Cached
<1>2. CASE msg.type = "cache"
  <2> DEFINE shown == Overlay(view.shown, msg.data)
  <2>1. Handled(view, msg) = [view EXCEPT !.shown = shown]
    BY <1>1, <1>2 DEF Handled, ViewTyped, IsView
  <2> HIDE DEF shown
  <2>2. ViewTyped([view EXCEPT !.shown = shown])
    BY ViewEdited
  <2> QED BY <2>1, <2>2, Zenon
<1>3. CASE msg \in Messages /\ msg.type \in Cached
  <2> DEFINE shown == [view.shown EXCEPT ![msg.type] = msg.data]
  <2>1. Handled(view, msg) = [view EXCEPT !.shown = shown]
    BY <1>1, <1>3 DEF Handled, ViewTyped, IsView
  <2> HIDE DEF shown
  <2>2. ViewTyped([view EXCEPT !.shown = shown])
    BY ViewEdited
  <2> QED BY <2>1, <2>2, Zenon
<1>4. CASE msg \in Messages /\ msg.type \notin Cached
  <2>1. \/ Handled(view, msg) = [view EXCEPT !.scanning = TRUE]
        \/ Handled(view, msg) = [view EXCEPT !.scanning = FALSE]
        \/ /\ Handled(view, msg) = [view EXCEPT !.changes = msg.data]
           /\ msg.data \in Scans \cup {Nothing}
    BY <1>1, <1>4 DEF Handled, Messages, Types
  <2>2. /\ ViewTyped([view EXCEPT !.scanning = TRUE]) /\ ViewTyped([view EXCEPT !.scanning = FALSE])
        /\ msg.data \in Scans \cup {Nothing} => ViewTyped([view EXCEPT !.changes = msg.data])
    BY ViewEdited, Zenon
  <2> QED BY <2>1, <2>2, Zenon
<1> QED BY <1>2, <1>3, <1>4

LEMMA SendTyped ==
  ASSUME ResultsInv, TabsTyped, NEW c \in Conns, NEW msg, msg \in Messages \/ msg.type = "cache",
         SendOk(c, msg) \/ UNCHANGED tab
  PROVE  TabsTyped'
<1>1. DOMAIN tab = Tabs
  BY DEF ResultsInv
<1>2. \A t \in Tabs : tab'[t] = tab[t] \/ tab'[t] = Handled(tab[t], msg)
  BY <1>1 DEF SendOk
<1>3. \A t \in Tabs : ViewTyped(tab'[t])
  BY <1>2, HandledTyped DEF TabsTyped
<1>4. tab' = [t \in Tabs |-> tab'[t]]
  <2>1. ASSUME NEW view, tab' = [tab EXCEPT ![c[1]] = view] PROVE tab' = [t \in Tabs |-> tab'[t]]
    BY <1>1, <2>1
  <2>2. UNCHANGED tab \/ tab' = [tab EXCEPT ![c[1]] = Handled(tab[c[1]], msg)]
    BY DEF SendOk
  <2> QED BY <2>1, <2>2 DEF TabsTyped
<1> QED BY <1>3, <1>4 DEF TabsTyped, ViewTyped, IsView

\* A step that changes one tab, or one task.
LEMMA OneTab ==
  ASSUME ResultsInv, TabsTyped, NEW t \in Tabs, NEW view, ViewTyped(view),
         tab' = [tab EXCEPT ![t] = view]
  PROVE  TabsTyped'
<1>1. \A u \in Tabs : ViewTyped(tab'[u])
  BY DEF ResultsInv, TabsTyped
<1> QED BY <1>1 DEF TabsTyped, ViewTyped, IsView

LEMMA OneTask ==
  ASSUME TasksInv, TasksTyped, NEW n \in Tasks, NEW view, TaskTyped(n, view),
         task' = [task EXCEPT ![n] = view]
  PROVE  TasksTyped'
<1>1. \A m \in Tasks : TaskTyped(m, task'[m])
  BY DEF TasksInv, TasksTyped
<1> QED BY <1>1 DEF TasksTyped, TaskTyped, CastTyped, Steps

LEMMA NewTaskTyped ==
  ASSUME NEW n, NEW at \in 0..(Len(Steps(n)) + 1)
  PROVE  /\ TaskTyped(n, NewTask(at))
         /\ \A found \in BOOLEAN : TaskTyped(n, [NewTask(at) EXCEPT !.found = found])
         /\ TaskTyped(n, [NewTask(at) EXCEPT !.phase = "failed"])
BY DEF NewTask, NoBroadcast, TaskTyped, CastTyped, Phases

LEMMA Lengths ==
  ASSUME NEW n
  PROVE  /\ Len(Steps(n)) \in Nat /\ Len(Steps(n)) > 0
         /\ DOMAIN Steps(n) = 1..Len(Steps(n)) /\ Len(Steps(n)) <= Len(ScanSteps)
<1>1. /\ Len(ScanSteps) \in Nat /\ Len(ScanSteps) > 1
      /\ DOMAIN ScanSteps = 1..Len(ScanSteps)
  BY Kinds
<1>2. Len(TestSteps) = 1 /\ DOMAIN TestSteps = 1..1
  BY DEF TestSteps
<1> QED BY <1>1, <1>2 DEF Steps

LEMMA AdvancedTyped ==
  ASSUME NEW n, Running(n), NEW view, view.at = task[n].at, view.found \in BOOLEAN
  PROVE  TaskTyped(n, Advanced(n, view))
<1> DEFINE at == view.at + 1
           f == view.found /\ view.at < Len(Steps(n))
<1>1. at \in 0..(Len(Steps(n)) + 1)
  BY Lengths DEF Running
<1>2. f \in BOOLEAN
  OBVIOUS
<1>3. Advanced(n, view) = [NewTask(at) EXCEPT !.found = f]
  BY DEF Advanced
<1> HIDE DEF at, f
<1>4. TaskTyped(n, [NewTask(at) EXCEPT !.found = f])
  BY <1>1, <1>2, NewTaskTyped, Zenon
<1> QED BY <1>3, <1>4, Zenon

LEMMA AdvanceTyped ==
  ASSUME TasksInv, TasksTyped, NEW n \in Tasks, Running(n), Advance(n)
  PROVE  TasksTyped'
<1>1. task' = [task EXCEPT ![n] = Advanced(n, task[n])]
  BY DEF Advance
<1>2. TaskTyped(n, Advanced(n, task[n]))
  BY AdvancedTyped DEF TasksTyped, TaskTyped
<1> QED BY <1>1, <1>2, OneTask

LEMMA RaiseTyped ==
  ASSUME TasksInv, TasksTyped, NEW n \in Tasks, Running(n), Raise(n)
  PROVE  TasksTyped'
<1> DEFINE failed == [NewTask(Len(Steps(n)) + 1) EXCEPT !.phase = "failed"]
<1>1. TaskTyped(n, failed)
  <2>1. Len(Steps(n)) + 1 \in 0..(Len(Steps(n)) + 1)
    BY Lengths
  <2> QED BY <2>1, NewTaskTyped, Zenon
<1>2. Advance(n) \/ task' = [task EXCEPT ![n] = failed]
  BY DEF Raise
<1> HIDE DEF failed
<1> QED BY <1>1, <1>2, AdvanceTyped, OneTask

LEMMA BroadcastTyped ==
  ASSUME RegistryInv, ResultsInv, TypesInv, NEW n \in Tasks, Running(n),
         NEW view, TaskOk(view, Lost), TaskTyped(n, view), view.at = task[n].at,
         NEW msg \in Messages, Broadcast(n, view, msg)
  PROVE  TasksTyped' /\ TabsTyped'
<1>1. TasksInv /\ TasksTyped /\ TabsTyped /\ registry \subseteq Conns /\ IsFiniteSet(registry)
  BY DEF RegistryInv, LinksInv, Made, TypesInv, RestTyped
<1>2. CASE registry = {}
  <2>1. task' = [task EXCEPT ![n] = Advanced(n, view)] /\ UNCHANGED tab
    BY <1>2 DEF Broadcast
  <2>2. TaskTyped(n, Advanced(n, view))
    BY AdvancedTyped DEF TaskTyped
  <2> QED BY <1>1, <2>1, <2>2, OneTask DEF TabsTyped, ViewTyped, IsView
<1>3. CASE registry # {}
  <2> DEFINE cast(c, dead) == [msg |-> msg, must |-> registry, sent |-> {c},
                               size |-> Cardinality(registry), dead |-> dead]
             begun(c, dead) == [view EXCEPT !.phase = "send", !.cast = cast(c, dead)]
  <2>1. PICK c \in registry : \E dead \in SUBSET {c} :
          (SendOk(c, msg) \/ SendRaises(c)) /\ task' = [task EXCEPT ![n] = begun(c, dead)]
    <3>1. \E c \in registry : \/ SendOk(c, msg) /\ task' = [task EXCEPT ![n] = begun(c, {})]
                              \/ SendRaises(c) /\ task' = [task EXCEPT ![n] = begun(c, {c})]
      BY <1>3 DEF Broadcast
    <3> HIDE DEF begun
    <3> QED BY <3>1
  <2>2. PICK dead \in SUBSET {c} :
          (SendOk(c, msg) \/ SendRaises(c)) /\ task' = [task EXCEPT ![n] = begun(c, dead)]
    BY <2>1, Zenon
  <2> DEFINE made == cast(c, dead)
             sending == [view EXCEPT !.phase = "send"]
             new == [sending EXCEPT !.cast = made]
  <2>3. begun(c, dead) = new
    BY Zenon
  <2>4. CastTyped(made) /\ made.msg \in Messages
    <3>1. Cardinality(registry) \in Nat
      BY <1>1, FS_CardinalityType
    <3> QED BY <1>1, <3>1 DEF CastTyped
  <2>5. /\ sending = [at |-> view.at, phase |-> "send", found |-> view.found, cast |-> view.cast]
    BY DEF TaskOk
  <2> HIDE DEF made, sending
  <2>6. /\ new.at = view.at /\ new.found = view.found /\ new.phase = "send" /\ new.cast = made
    BY <2>5
  <2> HIDE DEF new, begun
  <2>7. TaskTyped(n, new)
    BY <2>4, <2>6 DEF TaskTyped, Phases
  <2>8. task' = [task EXCEPT ![n] = new]
    BY <2>2, <2>3
  <2>9. TasksTyped'
    BY <1>1, <2>7, <2>8, OneTask
  <2>10. SendOk(c, msg) \/ UNCHANGED tab
    BY <2>2 DEF SendRaises
  <2>11. TabsTyped'
    BY <1>1, <2>10, SendTyped
  <2> QED BY <2>9, <2>11
<1> QED BY <1>2, <1>3

LEMMA SendNextTyped ==
  ASSUME RegistryInv, ResultsInv, TypesInv, NEW n \in Tasks, SendNext(n)
  PROVE  TasksTyped' /\ TabsTyped'
<1>1. /\ TasksInv /\ TasksTyped /\ TabsTyped /\ registry \subseteq Conns
      /\ TaskOk(task[n], Lost) /\ TaskTyped(n, task[n]) /\ task[n].phase = "send"
  BY DEF RegistryInv, TasksInv, LinksInv, Made, TypesInv, TasksTyped, SendNext, Casting
<1>2. PICK c \in registry :
        /\ SendOk(c, task[n].cast.msg) \/ SendRaises(c)
        /\ \/ task' = [task EXCEPT ![n].cast.sent = @ \cup {c}]
           \/ task' = [task EXCEPT ![n].cast.sent = @ \cup {c}, ![n].cast.dead = @ \cup {c}]
  BY DEF SendNext
<1> DEFINE told == [task[n] EXCEPT !.cast.sent = @ \cup {c}]
           dead == [task[n] EXCEPT !.cast.sent = @ \cup {c}, !.cast.dead = @ \cup {c}]
           same(new) == /\ new.at = task[n].at /\ new.phase = "send" /\ new.found = task[n].found
                        /\ new.cast.msg = task[n].cast.msg /\ new.cast.must = task[n].cast.must
                        /\ new.cast.size = task[n].cast.size
                        /\ new.cast.sent = task[n].cast.sent \cup {c}
                        /\ new.cast.dead \in {task[n].cast.dead, task[n].cast.dead \cup {c}}
<1>3. same(told)
  BY <1>1 DEF TaskOk, CastOk
<1>4. same(dead)
  BY <1>1 DEF TaskOk, CastOk
<1>5. task' = [task EXCEPT ![n] = told] \/ task' = [task EXCEPT ![n] = dead]
  BY <1>1, <1>2 DEF TasksInv
<1> HIDE DEF told, dead
<1>6. PICK new : task' = [task EXCEPT ![n] = new] /\ same(new)
  BY <1>3, <1>4, <1>5
<1>7. c \in Conns
  BY <1>1
<1>8. CastTyped(new.cast)
  BY <1>1, <1>6, <1>7 DEF TaskTyped, CastTyped
<1>9. TaskTyped(n, new)
  BY <1>1, <1>6, <1>8 DEF TaskTyped
<1>10. TasksTyped'
  BY <1>1, <1>6, <1>9, OneTask
<1>11. task[n].cast.msg \in Messages /\ (SendOk(c, task[n].cast.msg) \/ UNCHANGED tab)
  BY <1>1, <1>2 DEF TaskTyped, SendRaises
<1>12. TabsTyped'
  BY <1>1, <1>7, <1>11, SendTyped
<1> QED BY <1>10, <1>12

LEMMA SameTabs == ASSUME TabsTyped, UNCHANGED tab PROVE TabsTyped'
BY DEF TabsTyped, ViewTyped, IsView

LEMMA SameTasks == ASSUME TasksTyped, UNCHANGED task PROVE TasksTyped'
BY DEF TasksTyped, TaskTyped, CastTyped, Steps

LEMMA TypedTaskSteps ==
  ASSUME RegistryInv, ResultsInv, TypesInv, NEW n \in Tasks, TaskStep(n)
  PROVE  TypesInv'
<1>0. /\ Running(n) /\ TaskOk(task[n], Lost) /\ task[n].at \in Nat
      /\ TasksInv /\ TasksTyped /\ TabsTyped /\ RestTyped /\ TaskTyped(n, task[n])
  BY DEF TaskStep, Announce, Produce, Stumble, SkipPersist, Persist, BroadcastChanges, CutShort,
         SendNext, EndBroadcast, In, Casting, RegistryInv, TasksInv, ResultsInv, TypesInv, TasksTyped
<1>1. n \in Tests => Kind(n) = "speedtest"
  BY <1>0, KindOf
<1>2. Kind(n) = "change_detected" => n \in Scans
  BY <1>1 DEF Tasks
<1>3. RestTyped'
  <2>1. IsFiniteSet(registry)'
    <3>1. registry' \subseteq registry
      BY DEF TaskStep, Announce, Produce, Stumble, SkipPersist, Persist, BroadcastChanges,
             CutShort, SendNext, EndBroadcast, server
    <3> QED BY <1>0, <3>1, FS_Subset DEF RestTyped
  <2>2. report' \in {report, Nothing, n} /\ (report' = n => n \in Scans \/ report' = report)
    BY <1>2 DEF TaskStep, Announce, Produce, Stumble, SkipPersist, Persist, BroadcastChanges,
             CutShort, SendNext, EndBroadcast, server, In
  <2>3. UNCHANGED conn /\ cut' \in {cut, TRUE}
    BY DEF TaskStep, Announce, Produce, Stumble, SkipPersist, Persist, BroadcastChanges,
             CutShort, SendNext, EndBroadcast, links
  <2> QED BY <1>0, <2>1, <2>2, <2>3 DEF RestTyped
<1>4. ASSUME NEW data \in Results, Kind(n) = "change_detected" => data \in Scans \cup {Nothing},
             Kind(n) \in Types
      PROVE  Message(Kind(n), data) \in Messages
  BY <1>4 DEF Message, Messages
<1>5. CASE Announce(n)
  <2>1. Broadcast(n, task[n], Message(Kind(n), Nothing)) /\ Kind(n) \in Types
    BY <1>5 DEF Announce, In, Types
  <2>2. Message(Kind(n), Nothing) \in Messages
    BY <1>4, <2>1 DEF Results
  <2> QED BY <1>0, <1>3, <2>1, <2>2, BroadcastTyped DEF TypesInv
<1>6. CASE Produce(n)
  <2> DEFINE found == task[n].found \/ Kind(n) = "hosts"
             view == [task[n] EXCEPT !.found = found]
  <2>1. Broadcast(n, view, Message(Kind(n), n)) /\ Kind(n) \in Types
    BY <1>6 DEF Produce, In, Types
  <2>2. Message(Kind(n), n) \in Messages
    BY <1>2, <1>4, <2>1 DEF Results
  <2>3. found \in BOOLEAN
    OBVIOUS
  <2> HIDE DEF found
  <2>4. TaskOk(view, Lost) /\ view.at = task[n].at /\ TaskTyped(n, view)
    <3>1. /\ view.at = task[n].at /\ view.found = found /\ view.phase = task[n].phase
          /\ view.cast = task[n].cast
      BY <1>0 DEF TaskOk
    <3>2. TaskOk(view, Lost)
      BY <1>0, TaskOkKept
    <3> HIDE DEF view
    <3> QED BY <1>0, <2>3, <3>1, <3>2 DEF TaskTyped
  <2> HIDE DEF view
  <2> QED BY <1>0, <1>3, <2>1, <2>2, <2>4, BroadcastTyped DEF TypesInv
<1>7. CASE Stumble(n) \/ CutShort(n)
  BY <1>0, <1>3, <1>7, RaiseTyped, SameTabs DEF Stumble, CutShort, TypesInv
<1>8. CASE SkipPersist(n) \/ EndBroadcast(n)
  BY <1>0, <1>3, <1>8, AdvanceTyped, SameTabs DEF SkipPersist, EndBroadcast, TypesInv
<1>9. CASE Persist(n)
  <2> DEFINE reading == [task[n] EXCEPT !.phase = "read"]
  <2>1. Advance(n) \/ task' = [task EXCEPT ![n] = reading]
    BY <1>0, <1>9 DEF Persist, TasksInv
  <2>2. /\ reading.at = task[n].at /\ reading.found = task[n].found /\ reading.phase = "read"
        /\ reading.cast = task[n].cast
    BY <1>0 DEF TaskOk
  <2> HIDE DEF reading
  <2>3. TaskTyped(n, reading)
    BY <1>0, <2>2 DEF TaskTyped, Phases
  <2>4. TasksTyped'
    BY <1>0, <2>1, <2>3, AdvanceTyped, OneTask
  <2> QED BY <1>0, <1>3, <1>9, <2>4, SameTabs DEF Persist, TypesInv
<1>10. CASE BroadcastChanges(n)
  <2>1. /\ Broadcast(n, task[n], Message(Kind(n), report)) /\ Kind(n) = "change_detected"
    BY <1>10 DEF BroadcastChanges, In
  <2>2. Message(Kind(n), report) \in Messages
    BY <1>0, <1>4, <2>1 DEF Results, RestTyped, Tasks, Types
  <2> QED BY <1>0, <1>3, <2>1, <2>2, BroadcastTyped DEF TypesInv
<1>11. CASE SendNext(n)
  BY <1>3, <1>11, SendNextTyped DEF TypesInv
<1> QED BY <1>5, <1>6, <1>7, <1>8, <1>9, <1>10, <1>11 DEF TaskStep

LEMMA TypedEndpointSteps ==
  ASSUME RegistryInv, ResultsInv, TypesInv, NEW c \in Conns, EndpointStep(c)
  PROVE  TypesInv'
<1>1. /\ UNCHANGED task /\ UNCHANGED <<report, conn, cut>>
      /\ registry' = registry \cup {c} \/ registry' \subseteq registry
      /\ SendOk(c, Message("cache", cache)) \/ UNCHANGED tab
  BY DEF EndpointStep, Join, SendCache, PingFails, Discard, SendRaises
<1>2. IsFiniteSet(registry) /\ TasksTyped /\ TabsTyped
  BY DEF TypesInv, RestTyped
<1>3. IsFiniteSet(registry')
  BY <1>1, <1>2, FS_Subset, FS_AddElement
<1>4. RestTyped'
  BY <1>1, <1>3 DEF TypesInv, RestTyped
<1>5. Message("cache", cache).type = "cache"
  BY DEF Message
<1>6. TabsTyped'
  BY <1>1, <1>2, <1>5, SendTyped
<1> QED BY <1>1, <1>2, <1>4, <1>6, SameTasks DEF TypesInv

LEMMA TypedTabSteps ==
  ASSUME RegistryInv, ResultsInv, TypesInv, NEW t \in Tabs, TabStep(t)
  PROVE  TypesInv'
<1> DEFINE old == tab[t]
<1>0. /\ TasksInv /\ TasksTyped /\ TabsTyped /\ RestTyped /\ DOMAIN tab = Tabs /\ ViewTyped(old)
      /\ cache \in Cache
  BY DEF RegistryInv, ResultsInv, TypesInv, TabsTyped, Genuine, Cache, Results
<1>1. RestTyped'
  <2>1. UNCHANGED <<registry, report, cut>>
    BY DEF TabStep, Connect, Lose, AnswerFetch, UseFetch, DropFetch, Rescan, TriggerScan,
           TriggerFails, RunSpeedtest, SpeedtestAnswered, server
  <2>2. \A u \in Tabs : conn'[u] = conn[u] \/ (conn'[u] = conn[u] + 1 /\ conn[u] < MaxConns)
    BY DEF RegistryInv, LinksInv, TabStep, Connect, Lose, AnswerFetch, UseFetch, DropFetch,
           Rescan, TriggerScan, TriggerFails, RunSpeedtest, SpeedtestAnswered, links
  <2>3. \A u \in Tabs : conn[u] \in Nat
    BY DEF RegistryInv, LinksInv
  <2> QED BY <1>0, <2>1, <2>2, <2>3, BoundsAssumption DEF RestTyped
<1>2. TasksTyped'
  <2>1. \/ UNCHANGED task
        \/ \E n \in Scans \cup Tests : task' = [task EXCEPT ![n] = NewTask(1)]
    BY DEF TabStep, Connect, Lose, AnswerFetch, UseFetch, DropFetch, Rescan, TriggerScan,
           TriggerFails, RunSpeedtest, SpeedtestAnswered
  <2>2. ASSUME NEW n PROVE TaskTyped(n, NewTask(1))
    <3>1. 1 \in 0..(Len(Steps(n)) + 1)
      BY Lengths
    <3> QED BY <3>1, NewTaskTyped
  <2> QED BY <1>0, <2>1, <2>2, SameTasks, OneTask DEF Tasks
<1>3. CASE Lose(t)
  BY <1>0, <1>1, <1>2, <1>3, SameTabs DEF Lose, TypesInv
<1>4. ASSUME NEW new, ViewTyped(new), tab' = [tab EXCEPT ![t] = new] PROVE TypesInv'
  BY <1>0, <1>1, <1>2, <1>4, OneTab DEF TypesInv
<1>5. CASE Connect(t)
  <2> DEFINE new == [old EXCEPT !.fetch = "sent"]
  <2>1. tab' = tab \/ tab' = [tab EXCEPT ![t] = new]
    BY <1>0, <1>5 DEF Connect
  <2>2. ViewTyped(new)
    BY <1>0, ViewEdited
  <2> HIDE DEF new
  <2> QED BY <1>0, <1>1, <1>2, <1>4, <2>1, <2>2, SameTabs DEF TypesInv
<1>6. CASE AnswerFetch(t)
  <2> DEFINE reply == [shown |-> cache, changes |-> report]
             mid == [old EXCEPT !.reply = reply]
             new == [mid EXCEPT !.fetch = "answered"]
  <2>1. tab' = [tab EXCEPT ![t] = new]
    <3>1. tab' = [tab EXCEPT ![t] = [old EXCEPT !.fetch = "answered", !.reply = reply]]
      BY <1>0, <1>6 DEF AnswerFetch
    <3>2. new = [old EXCEPT !.fetch = "answered", !.reply = reply]
      OBVIOUS
    <3> QED BY <3>1, <3>2
  <2>2. reply \in Answers
    BY <1>0 DEF Answers, RestTyped
  <2> HIDE DEF reply
  <2>3. ViewTyped(mid) /\ mid.reply = reply
    <3>1. ViewTyped(mid)
      BY <1>0, <2>2, ViewEdited
    <3>2. mid.reply = reply
      BY <1>0 DEF ViewTyped, IsView
    <3> QED BY <3>1, <3>2
  <2> HIDE DEF mid
  <2>4. ViewTyped(new)
    BY <2>2, <2>3, ViewEdited
  <2> HIDE DEF new
  <2> QED BY <1>4, <2>1, <2>4
<1>7. CASE DropFetch(t)
  <2> DEFINE mid == [old EXCEPT !.fetch = "over"]
             new == [mid EXCEPT !.reply = Nothing]
  <2>1. tab' = [tab EXCEPT ![t] = new]
    BY <1>0, <1>7 DEF DropFetch
  <2>2. ViewTyped(mid) /\ mid.fetch # "answered"
    BY <1>0, ViewEdited DEF ViewTyped, IsView
  <2> HIDE DEF mid
  <2>3. ViewTyped(new)
    BY <2>2, ViewEdited
  <2> HIDE DEF new
  <2> QED BY <1>4, <2>1, <2>3
<1>8. CASE UseFetch(t)
  <2> DEFINE shown == Overlay(old.shown, old.reply.shown)
             changes == IF old.reply.changes # Nothing THEN old.reply.changes ELSE old.changes
  <2>1. tab' = [tab EXCEPT ![t] = [old EXCEPT !.fetch = "over", !.reply = Nothing,
                  !.shown = shown, !.changes = changes]]
    BY <1>0, <1>8, Zenon DEF UseFetch
  <2>2. changes \in Scans \cup {Nothing}
    BY <1>0, <1>8 DEF UseFetch, ViewTyped, Answers
  <2> HIDE DEF shown, changes
  <2> DEFINE a == [old EXCEPT !.fetch = "over"]
             b == [a EXCEPT !.reply = Nothing]
             d == [b EXCEPT !.shown = shown]
             new == [d EXCEPT !.changes = changes]
  <2>3. new = [old EXCEPT !.fetch = "over", !.reply = Nothing, !.shown = shown,
                          !.changes = changes]
    OBVIOUS
  <2>4. ViewTyped(a) /\ a.fetch # "answered"
    BY <1>0, ViewEdited DEF ViewTyped, IsView
  <2> HIDE DEF a
  <2>5. ViewTyped(b)
    BY <2>4, ViewEdited
  <2> HIDE DEF b
  <2>6. ViewTyped(d)
    BY <2>5, ViewEdited
  <2> HIDE DEF d
  <2>7. ViewTyped(new)
    BY <2>2, <2>6, ViewEdited
  <2> HIDE DEF new
  <2> QED BY <1>4, <2>1, <2>3, <2>7
<1>9. CASE Rescan(t) \/ TriggerFails(t)
  <2>1. PICK asked, scanning \in BOOLEAN :
          tab' = [tab EXCEPT ![t] = [old EXCEPT !.asked = asked, !.scanning = scanning]]
    <3>1. \/ tab' = [tab EXCEPT ![t] = [old EXCEPT !.asked = TRUE, !.scanning = TRUE]]
          \/ tab' = [tab EXCEPT ![t] = [old EXCEPT !.asked = FALSE, !.scanning = FALSE]]
      BY <1>0, <1>9 DEF Rescan, TriggerFails, ViewTyped, IsView
    <3> QED BY <3>1
  <2> DEFINE mid == [old EXCEPT !.asked = asked]
             new == [mid EXCEPT !.scanning = scanning]
  <2>2. tab' = [tab EXCEPT ![t] = new]
    BY <2>1
  <2>3. ViewTyped(mid)
    BY <1>0, ViewEdited
  <2> HIDE DEF mid
  <2>4. ViewTyped(new)
    BY <2>3, ViewEdited
  <2> HIDE DEF new
  <2> QED BY <1>4, <2>2, <2>4
<1>10. CASE TriggerScan(t)
  <2> DEFINE new == [old EXCEPT !.asked = FALSE]
  <2>1. tab' = [tab EXCEPT ![t] = new]
    BY <1>0, <1>10 DEF TriggerScan
  <2>2. ViewTyped(new)
    BY <1>0, ViewEdited
  <2> HIDE DEF new
  <2> QED BY <1>4, <2>1, <2>2
<1>11. CASE RunSpeedtest(t)
  <2>1. PICK n : tab' = [tab EXCEPT ![t].test = n]
    BY <1>11 DEF RunSpeedtest
  <2> DEFINE new == [old EXCEPT !.test = n]
  <2>2. tab' = [tab EXCEPT ![t] = new]
    BY <1>0, <2>1
  <2>3. ViewTyped(new)
    BY <1>0, ViewEdited
  <2> HIDE DEF new
  <2> QED BY <1>4, <2>2, <2>3
<1>12. CASE SpeedtestAnswered(t)
  <2> DEFINE shown == [old.shown EXCEPT !["speedtest"] = old.test]
             mid == [old EXCEPT !.test = Nothing]
             new == [mid EXCEPT !.shown = shown]
  <2>1. tab' = [tab EXCEPT ![t] = mid] \/ tab' = [tab EXCEPT ![t] = new]
    <3>1. \/ tab' = [tab EXCEPT ![t] = mid]
          \/ tab' = [tab EXCEPT ![t] = [old EXCEPT !.test = Nothing, !.shown["speedtest"] = old.test]]
      BY <1>0, <1>12 DEF SpeedtestAnswered
    <3>2. [old EXCEPT !.test = Nothing, !.shown["speedtest"] = old.test] = new
      BY <1>0 DEF ViewTyped, IsView
    <3> QED BY <3>1, <3>2
  <2>2. ViewTyped(mid)
    BY <1>0, ViewEdited
  <2> HIDE DEF mid, shown
  <2>3. ViewTyped(new)
    BY <2>2, ViewEdited
  <2> HIDE DEF new
  <2> QED BY <1>4, <2>1, <2>2, <2>3
<1> QED BY <1>3, <1>5, <1>6, <1>7, <1>8, <1>9, <1>10, <1>11, <1>12 DEF TabStep

LEMMA TypesInit == Init => TypesInv
<1> SUFFICES ASSUME Init PROVE TypesInv
  OBVIOUS
<1>1. TasksTyped
  <2>1. ASSUME NEW n \in Tasks, NEW at \in {0, 1} PROVE TaskTyped(n, NewTask(at))
    <3>1. at \in 0..(Len(Steps(n)) + 1)
      BY Lengths
    <3> QED BY <3>1, NewTaskTyped
  <2>2. \A n \in Tasks : task[n] = NewTask(0) \/ task[n] = NewTask(1)
    BY DEF Init
  <2>3. task = [n \in Tasks |-> task[n]]
    BY DEF Init
  <2> QED BY <2>1, <2>2, <2>3 DEF TasksTyped
<1>2. TabsTyped
  <2>1. ViewTyped(NewTab)
    BY DEF ViewTyped, IsView, NewTab
  <2>2. tab = [t \in Tabs |-> NewTab]
    BY DEF Init
  <2> QED BY <2>1, <2>2 DEF TabsTyped
<1>3. RestTyped
  <2>1. registry = {} /\ report = Nothing /\ cut = FALSE /\ \A t \in Tabs : conn[t] = 0
    BY DEF Init
  <2>2. IsFiniteSet(registry)
    BY <2>1, FS_EmptySet
  <2>3. \A t \in Tabs : conn[t] <= MaxConns
    BY <2>1, BoundsAssumption
  <2> QED BY <2>1, <2>2, <2>3 DEF RestTyped
<1> QED BY <1>1, <1>2, <1>3 DEF TypesInv

LEMMA TypesNext == RegistryInv /\ LiveInv /\ TypesInv /\ [Next]_vars => TypesInv'
<1> SUFFICES ASSUME RegistryInv, LiveInv, TypesInv, [Next]_vars PROVE TypesInv'
  OBVIOUS
<1>1. ResultsInv
  BY DEF LiveInv
<1>2. CASE Next
  BY <1>1, <1>2, TypedTaskSteps, TypedEndpointSteps, TypedTabSteps DEF Next
<1>3. CASE UNCHANGED vars
  BY <1>3, SameTabs, SameTasks DEF TypesInv, RestTyped, vars, server, links
<1> QED BY <1>2, <1>3

LEMMA TypesShow == RegistryInv /\ LiveInv /\ TypesInv => TypeOK
<1> SUFFICES ASSUME RegistryInv, LiveInv, TypesInv PROVE TypeOK
  OBVIOUS
<1>1. ASSUME NEW n \in Tasks
      PROVE  /\ task[n] \in [at : 0..(Len(ScanSteps) + 1), found : BOOLEAN,
                             phase : {"work", "read", "send", "failed"}, cast : Cast]
             /\ task[n].at <= Len(Steps(n)) + 1
  <2>1. TaskOk(task[n], Lost) /\ TaskTyped(n, task[n])
    BY DEF RegistryInv, TasksInv, TypesInv, TasksTyped
  <2>2. task[n].cast \in Cast
    BY <2>1 DEF TaskOk, CastOk, TaskTyped, CastTyped, Cast, Messages
  <2>3. task[n].at \in 0..(Len(ScanSteps) + 1) /\ task[n].at <= Len(Steps(n)) + 1
    BY <2>1, Lengths, Kinds DEF TaskTyped
  <2> QED BY <2>1, <2>2, <2>3 DEF TaskOk, TaskTyped, Phases
<1>2. ASSUME NEW t \in Tabs PROVE tab[t] \in View
  <2>1. ViewTyped(tab[t]) /\ ViewOk(tab[t], cache, task)
    BY DEF TypesInv, TabsTyped, LiveInv, ResultsInv
  <2>2. tab[t].shown \in Cache
    BY <2>1 DEF ViewOk, Genuine, Cache, Results
  <2> QED BY <2>1, <2>2 DEF ViewTyped, IsView, ViewOk, View, Answers
<1>3. task \in [Tasks -> [at : 0..(Len(ScanSteps) + 1), found : BOOLEAN,
                          phase : {"work", "read", "send", "failed"}, cast : Cast]]
  <2>1. task = [n \in Tasks |-> task[n]]
    BY DEF TypesInv, TasksTyped
  <2> QED BY <1>1, <2>1
<1>4. tab \in [Tabs -> View]
  <2>1. tab = [t \in Tabs |-> tab[t]]
    BY DEF TypesInv, TabsTyped
  <2> QED BY <1>2, <2>1
<1>5. conn \in [Tabs -> 0..MaxConns]
  BY BoundsAssumption DEF RegistryInv, LinksInv, TypesInv, RestTyped
<1>6. cache \in Cache
  BY DEF LiveInv, ResultsInv, Genuine, Cache, Results
<1>7. registry \subseteq Conns /\ up \subseteq Conns
  BY DEF RegistryInv, LinksInv, Made
<1> QED BY <1>1, <1>3, <1>4, <1>5, <1>6, <1>7 DEF TypeOK, TypesInv, RestTyped, RegistryInv, LinksInv

\* The variables have their types, for every number of tabs, connections,
\* scans and tests: nothing of another kind is cached, broadcast or shown.
THEOREM TypesHold == Spec => []TypeOK
<1>1. Init => RegistryInv /\ LiveInv /\ TypesInv
  BY RegistryInit, LiveInit, TypesInit
<1>2. (RegistryInv /\ LiveInv /\ TypesInv) /\ [Next]_vars => (RegistryInv /\ LiveInv /\ TypesInv)'
  BY RegistryNext, LiveNext, TypesNext
<1> QED BY <1>1, <1>2, TypesShow, PTL DEF Spec

-----------------------------------------------------------------------------
(* Every step of a task leads further, whoever joins or leaves meanwhile.  *)

\* At a later stage; in a later phase of it; or in the same broadcast with
\* one more connection told.
Further(old, new) ==
  \/ new.at > old.at
  \/ /\ new.at = old.at
     /\ \/ old.phase = "work" /\ new.phase \in {"read", "send"}
        \/ old.phase = "read" /\ new.phase = "send"
        \/ /\ old.phase = "send" /\ new.phase = "send"
           /\ old.cast.sent \subseteq new.cast.sent /\ old.cast.sent # new.cast.sent
           /\ new.cast.sent \subseteq Conns

\* A task moves on with every step it takes, the others never set it back, and
\* what has ended is not taken up again.
TasksMoveOn == \A n \in Tasks :
  /\ TaskStep(n) => Further(task[n], task'[n])
  /\ Running(n) => task'[n] = task[n] \/ Further(task[n], task'[n])
  /\ task[n].at > Len(Steps(n)) => task'[n] = task[n]

\* Broadcasts, exceptions and the ends of stages.
LEMMA AdvanceFurther ==
  ASSUME TasksInv, NEW n \in Tasks, task[n].at \in Nat,
         NEW view, view.at = task[n].at, task' = [task EXCEPT ![n] = Advanced(n, view)]
  PROVE  Further(task[n], task'[n])
<1>1. task'[n] = Advanced(n, view)
  BY DEF TasksInv
<1>2. Advanced(n, view).at = task[n].at + 1
  BY DEF Advanced, NewTask
<1> QED BY <1>1, <1>2 DEF Further

LEMMA RaiseFurther ==
  ASSUME TasksInv, NEW n \in Tasks, Running(n), Raise(n)
  PROVE  Further(task[n], task'[n])
<1>0. task[n].at \in Nat /\ task[n].at < Len(Steps(n)) + 1
  BY Lengths DEF Running
<1>1. CASE Advance(n)
  BY <1>0, <1>1, AdvanceFurther DEF Advance
<1>2. CASE task' = [task EXCEPT ![n] = [NewTask(Len(Steps(n)) + 1) EXCEPT !.phase = "failed"]]
  <2>1. task'[n].at = Len(Steps(n)) + 1
    BY <1>2 DEF TasksInv, NewTask
  <2> QED BY <1>0, <2>1, Lengths DEF Further
<1> QED BY <1>1, <1>2 DEF Raise

LEMMA BroadcastFurther ==
  ASSUME TasksInv, NEW n \in Tasks, Running(n), task[n].phase \in {"work", "read"},
         NEW view, TaskOk(view, Lost), view.at = task[n].at,
         NEW msg, Broadcast(n, view, msg)
  PROVE  Further(task[n], task'[n])
<1>0. task[n].at \in Nat
  BY Lengths DEF Running
<1>1. CASE registry = {}
  BY <1>0, <1>1, AdvanceFurther DEF Broadcast
<1>2. CASE registry # {}
  <2> DEFINE begun(c, dead) == [view EXCEPT !.phase = "send",
               !.cast = [msg |-> msg, must |-> registry, sent |-> {c},
                         size |-> Cardinality(registry), dead |-> dead]]
  <2>1. PICK c, dead : task' = [task EXCEPT ![n] = begun(c, dead)]
    BY <1>2 DEF Broadcast
  <2>2. task'[n] = begun(c, dead)
    BY <2>1 DEF TasksInv
  <2>3. begun(c, dead).at = view.at /\ begun(c, dead).phase = "send"
    BY DEF TaskOk
  <2> QED BY <1>0, <2>2, <2>3 DEF Further
<1> QED BY <1>1, <1>2

LEMMA SendNextFurther ==
  ASSUME RegistryInv, TypesInv, NEW n \in Tasks, SendNext(n)
  PROVE  Further(task[n], task'[n])
<1>1. /\ TasksInv /\ registry \subseteq Conns
      /\ TaskOk(task[n], Lost) /\ TaskTyped(n, task[n]) /\ task[n].phase = "send"
  BY DEF RegistryInv, TasksInv, LinksInv, Made, TypesInv, TasksTyped, SendNext, Casting
<1>2. PICK c \in registry \ task[n].cast.sent :
        \/ task' = [task EXCEPT ![n].cast.sent = @ \cup {c}]
        \/ task' = [task EXCEPT ![n].cast.sent = @ \cup {c}, ![n].cast.dead = @ \cup {c}]
  BY DEF SendNext
<1>3. /\ task'[n].at = task[n].at /\ task'[n].phase = "send"
      /\ task'[n].cast.sent = task[n].cast.sent \cup {c}
  <2>1. CASE task' = [task EXCEPT ![n].cast.sent = @ \cup {c}]
    BY <1>1, <2>1 DEF TaskOk, CastOk, TasksInv
  <2>2. CASE task' = [task EXCEPT ![n].cast.sent = @ \cup {c}, ![n].cast.dead = @ \cup {c}]
    BY <1>1, <2>2 DEF TaskOk, CastOk, TasksInv
  <2> QED BY <1>2, <2>1, <2>2
<1>4. task[n].cast.sent \subseteq Conns /\ c \in Conns
  BY <1>1, <1>2 DEF TaskTyped, CastTyped
<1> QED BY <1>1, <1>2, <1>3, <1>4 DEF Further

LEMMA TaskStepFurther ==
  ASSUME RegistryInv, TypesInv, NEW n \in Tasks, TaskStep(n)
  PROVE  Running(n) /\ Further(task[n], task'[n])
<1>0. /\ Running(n) /\ TasksInv /\ TaskOk(task[n], Lost) /\ task[n].at \in Nat
  BY Lengths DEF TaskStep, Announce, Produce, Stumble, SkipPersist, Persist, BroadcastChanges, CutShort,
         SendNext, EndBroadcast, In, Casting, RegistryInv, TasksInv, Running
<1>1. CASE Announce(n)
  <2>1. Broadcast(n, task[n], Message(Kind(n), Nothing)) /\ task[n].phase = "work"
    BY <1>1 DEF Announce, In
  <2> QED BY <1>0, <2>1, BroadcastFurther
<1>2. CASE Produce(n)
  <2> DEFINE found == task[n].found \/ Kind(n) = "hosts"
             view == [task[n] EXCEPT !.found = found]
  <2>1. Broadcast(n, view, Message(Kind(n), n)) /\ task[n].phase = "work"
    BY <1>2 DEF Produce, In
  <2> HIDE DEF found
  <2>2. TaskOk(view, Lost) /\ view.at = task[n].at
    BY <1>0, TaskOkKept DEF TaskOk
  <2> HIDE DEF view
  <2> QED BY <1>0, <2>1, <2>2, BroadcastFurther
<1>3. CASE Stumble(n) \/ CutShort(n)
  BY <1>0, <1>3, RaiseFurther DEF Stumble, CutShort
<1>4. CASE SkipPersist(n) \/ EndBroadcast(n)
  BY <1>0, <1>4, AdvanceFurther DEF SkipPersist, EndBroadcast, Advance
<1>5. CASE Persist(n)
  <2>1. CASE Advance(n)
    BY <1>0, <2>1, AdvanceFurther DEF Advance
  <2>2. CASE task' = [task EXCEPT ![n].phase = "read"]
    <3>1. task'[n].at = task[n].at /\ task'[n].phase = "read" /\ task[n].phase = "work"
      BY <1>0, <1>5, <2>2 DEF TasksInv, TaskOk, Persist, In
    <3> QED BY <1>0, <3>1 DEF Further
  <2> QED BY <1>5, <2>1, <2>2 DEF Persist
<1>6. CASE BroadcastChanges(n)
  <2>1. Broadcast(n, task[n], Message("change_detected", report)) /\ task[n].phase = "read"
    BY <1>6 DEF BroadcastChanges, In
  <2> QED BY <1>0, <2>1, BroadcastFurther
<1>7. CASE SendNext(n)
  BY <1>0, <1>7, SendNextFurther
<1> QED BY <1>0, <1>1, <1>2, <1>3, <1>4, <1>5, <1>6, <1>7 DEF TaskStep

\* A step of a task is one of this task only.
LEMMA TaskStepsAlone ==
  ASSUME TasksInv, NEW n \in Tasks, TaskStep(n), NEW m \in Tasks, m # n
  PROVE  task'[m] = task[m]
<1>1. \/ Advance(n) \/ Raise(n) \/ UNCHANGED task
      \/ \E view, msg : Broadcast(n, view, msg)
      \/ \E view : task' = [task EXCEPT ![n] = view]
  <2>1. CASE Announce(n) \/ Produce(n) \/ BroadcastChanges(n)
    BY <2>1 DEF Announce, Produce, BroadcastChanges
  <2>2. CASE Stumble(n) \/ SkipPersist(n) \/ CutShort(n) \/ EndBroadcast(n)
    BY <2>2 DEF Stumble, SkipPersist, CutShort, EndBroadcast
  <2>3. CASE Persist(n)
    BY <2>3 DEF Persist, TasksInv
  <2>4. CASE SendNext(n)
    BY <2>4 DEF SendNext, TasksInv
  <2> QED BY <2>1, <2>2, <2>3, <2>4 DEF TaskStep
<1>2. ASSUME NEW view, NEW msg, Broadcast(n, view, msg) PROVE \E new : task' = [task EXCEPT ![n] = new]
  BY <1>2 DEF Broadcast
<1>3. UNCHANGED task \/ \E new : task' = [task EXCEPT ![n] = new]
  BY <1>1, <1>2 DEF Advance, Raise
<1> QED BY <1>3 DEF TasksInv

LEMMA TabStepsTasks ==
  ASSUME TasksInv, NEW t \in Tabs, TabStep(t), NEW m \in Tasks
  PROVE  task'[m] = task[m] \/ task[m].at = 0
<1>1. UNCHANGED task \/ \E n \in Tasks : task[n].at = 0 /\ task' = [task EXCEPT ![n] = NewTask(1)]
  BY DEF TabStep, Connect, Lose, AnswerFetch, UseFetch, DropFetch, Rescan, TriggerScan, TriggerFails,
         RunSpeedtest, SpeedtestAnswered, Tasks
<1> QED BY <1>1 DEF TasksInv

LEMMA MoveOnStep ==
  ASSUME RegistryInv, TypesInv, Next
  PROVE  TasksMoveOn
<1> SUFFICES ASSUME NEW n \in Tasks
             PROVE  /\ TaskStep(n) => Further(task[n], task'[n])
                    /\ Running(n) => task'[n] = task[n] \/ Further(task[n], task'[n])
                    /\ task[n].at > Len(Steps(n)) => task'[n] = task[n]
  BY DEF TasksMoveOn
<1>1. /\ TasksInv
      /\ Running(n) => task[n].at # 0 /\ task[n].at <= Len(Steps(n))
      /\ task[n].at > Len(Steps(n)) => task[n].at # 0
      /\ ~ (task[n].at > Len(Steps(n)) /\ Running(n))
  BY Lengths DEF RegistryInv, Running
<1>2. TaskStep(n) => Running(n) /\ Further(task[n], task'[n])
  BY TaskStepFurther
<1>3. ASSUME NEW x \in Tasks, TaskStep(x), x # n PROVE task'[n] = task[n]
  BY <1>1, <1>3, TaskStepsAlone
<1>4. ASSUME NEW c \in Conns, EndpointStep(c) PROVE task'[n] = task[n]
  BY <1>4 DEF EndpointStep, Join, SendCache, PingFails
<1>5. ASSUME NEW t \in Tabs, TabStep(t) PROVE task'[n] = task[n] \/ task[n].at = 0
  BY <1>1, <1>5, TabStepsTasks
<1>6. TaskStep(n) \/ task'[n] = task[n] \/ task[n].at = 0
  BY <1>3, <1>4, <1>5 DEF Next
<1> QED BY <1>1, <1>2, <1>6

\* The stages of a task and the connections of a broadcast are numbered, so
\* that with a fair event loop, which TLC's run assumes, every task ends.
THEOREM TasksOnlyMoveOn == Spec => [][TasksMoveOn]_vars
<1>1. Init => RegistryInv /\ LiveInv /\ TypesInv
  BY RegistryInit, LiveInit, TypesInit
<1>2. (RegistryInv /\ LiveInv /\ TypesInv) /\ [Next]_vars => (RegistryInv /\ LiveInv /\ TypesInv)'
  BY RegistryNext, LiveNext, TypesNext
<1>3. RegistryInv /\ TypesInv /\ [Next]_vars => [TasksMoveOn]_vars
  BY MoveOnStep
<1> QED BY <1>1, <1>2, <1>3, PTL DEF Spec

=============================================================================
