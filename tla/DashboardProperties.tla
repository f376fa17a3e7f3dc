------------------------- MODULE DashboardProperties -------------------------
(***************************************************************************)
(* What the dashboard promises to the tabs that look at it.                *)
(***************************************************************************)
EXTENDS Dashboard

Results == Tasks \cup {Nothing}
Cache   == [Cached -> Results]
Types   == Cached \cup {"scan_start", "scan_done", "change_detected"}

Cast == [msg : [type : Types, data : Results] \cup {Nothing}, must : SUBSET Conns,
         sent : SUBSET Conns, size : Nat, dead : SUBSET Conns]

View == [shown : Cache, changes : Scans \cup {Nothing}, scanning : BOOLEAN, asked : BOOLEAN,
         test : Tests \cup {Nothing}, fetch : {"none", "sent", "answered", "over"},
         reply : [shown : Cache, changes : Scans \cup {Nothing}] \cup {Nothing}]

\* The types of the variables.
TypeOK ==
  /\ registry \subseteq Conns
  /\ cache \in Cache
  /\ report \in Scans \cup {Nothing}
  /\ task \in [Tasks -> [at : 0..(Len(ScanSteps) + 1), found : BOOLEAN,
                         phase : {"work", "read", "send", "failed"}, cast : Cast]]
  /\ \A n \in Tasks : task[n].at <= Len(Steps(n)) + 1
  /\ endpoint \in [Conns -> {"none", "accepted", "joined", "serving", "closed"}]
  /\ conn \in [Tabs -> 0..MaxConns]
  /\ up \subseteq Conns
  /\ tab \in [Tabs -> View]
  /\ cut \in BOOLEAN

-----------------------------------------------------------------------------
(* Safety. *)

\* Whatever is registered has an endpoint that will take it out again, and
\* whatever is served and up is registered: broadcasts and endpoints discard
\* connections independently of each other.
RegisteredIsServed == \A c \in Conns :
  /\ c \in registry => endpoint[c] \in {"joined", "serving"}
  /\ endpoint[c] \in {"joined", "serving"} /\ c \in up => c \in registry

\* Nothing is under way, at the server or on the wire.
Quiet ==
  /\ \A n \in Tasks : ~ Running(n)
  /\ \A c \in up : endpoint[c] = "serving"
  /\ \A t \in Tabs : tab[t].fetch \in {"none", "over"} /\ ~ tab[t].asked /\ tab[t].test = Nothing

\* More than one task has been started that produces results of this kind.
Contended(kind) ==
  Cardinality({n \in IF kind = "speedtest" THEN Tests ELSE Scans : task[n].at > 0}) > 1

\* A tab that is live shows what the server has, however it joined, lost and
\* made connections, as long as no broadcast was cut short and one task alone
\* produced the result: what a tab misses before it is registered comes with
\* the cache (server.py:179-180), and no answer of fetchInitial undoes it.
LiveUnlessCut == Quiet /\ ~ cut =>
  \A t \in Tabs : Live(t) =>
    \A kind \in Cached : ~ Contended(kind) => tab[t].shown[kind] = cache[kind]

-----------------------------------------------------------------------------
(* Liveness. *)

\* A lost connection leaves the registry, although broadcasts that meet it
\* may be cut short.
LostIsForgotten == \A c \in Conns : c \in registry /\ c \notin up ~> c \notin registry

\* Every scan and every test that was started comes to an end, whichever
\* stages fail and whoever joins or leaves meanwhile.
TasksEnd == \A n \in Tasks : Running(n) ~> ~ Running(n)

-----------------------------------------------------------------------------
(* What the user interface says, and the code does otherwise. *)

\* index.html:64: the button says 'Scanning' while there is a scan, and can
\* be used again after it.
ScanningMeansScan == Quiet => \A t \in Tabs : Live(t) => ~ tab[t].scanning

=============================================================================
