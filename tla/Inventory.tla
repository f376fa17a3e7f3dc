------------------------------ MODULE Inventory ------------------------------
(***************************************************************************)
(* The inventory service (netscanx/inventory/service.py): scans persisted  *)
(* as runs, baselines pinned, changes reported, by several sessions on one *)
(* SQLite file: command lines, requests and background scans of the        *)
(* dashboard.                                                              *)
(*                                                                         *)
(* db is what is committed, and what every SELECT outside a transaction    *)
(* reads.  The first INSERT or UPDATE of a transaction takes the write     *)
(* lock; until it commits, its holder works on tx.  A session's statements *)
(* are separate steps, so any other session may act between two of them.   *)
(*                                                                         *)
(* Time is counted in days, the unit of the identity grace period.         *)
(***************************************************************************)
EXTENDS InventoryDb

CONSTANTS
  Sessions,     \* database sessions: processes and tasks that use the service
  NoSession,    \* nobody holds the write lock
  Hosts,        \* host records a scan may report
  Services,     \* service records a scan may report
  Scans,        \* the results a scan may bring: [hosts, services]
  Errands,      \* what the sessions are asked to do, a subset of AllErrands
  MaxRuns,      \* bound: scan runs persisted or being persisted
  MaxDay        \* bound: days that pass

\* persist: discover --persist.  baseline: the baseline command, which scans
\* and then pins its own run.  background: the dashboard's scan, which
\* broadcasts what changed.  pin: POST /api/baseline.  last, since: the two
\* reports of GET /api/changes and the changes command.
AllErrands == {"persist", "baseline", "background", "pin", "last", "since"}

ASSUME ErrandsAssumption == Errands \subseteq AllErrands
ASSUME SessionAssumption == NoSession \notin Sessions
ASSUME BoundAssumption == MaxRuns \in Nat /\ MaxDay \in Nat

\* A discover result is keyed by address: no address is listed twice.
ASSUME ScansAssumption ==
  /\ Scans \subseteq [hosts : Seq(Hosts), services : Seq(Services)]
  /\ \A scan \in Scans : \A i, j \in DOMAIN scan.hosts :
       scan.hosts[i].ip = scan.hosts[j].ip => i = j

VARIABLES
  db,       \* the committed database
  tx,       \* the database as the holder of the write lock sees it
  lock,     \* the holder of the write lock, or NoSession
  pc,       \* where each session is
  job,      \* each session's local variables
  current,  \* each session's dictionary of what its scan saw, by device id
  today     \* the clock, in days

vars == <<db, tx, lock, pc, job, current, today>>

Persisting == {"begin", "hosts", "commit_run"}
Writing    == {"hosts", "commit_run", "set_baseline", "commit_pin"}

NoJob == [errand |-> None, scan |-> None, now |-> 0, run |-> 0, next |-> 0,
          reads |-> <<>>, changes |-> {}, known |-> {}]

Init ==
  /\ db = EmptyDb
  /\ tx = EmptyDb
  /\ lock = NoSession
  /\ pc = [s \in Sessions |-> "idle"]
  /\ job = [s \in Sessions |-> NoJob]
  /\ current = [s \in Sessions |-> <<>>]
  /\ today = 0

Goto(s, label) == pc' = [pc EXCEPT ![s] = label]

\* The job is over: the locals of the call are gone.
Return(s) ==
  /\ Goto(s, "idle")
  /\ job' = [job EXCEPT ![s] = NoJob]
  /\ current' = [current EXCEPT ![s] = <<>>]

\* Slip: the transaction begins without the write lock.
SlipNoLock(s) == lock' = s

AcquireLock(s) == lock = NoSession /\ lock' = s

-----------------------------------------------------------------------------
(* Persisting a scan: persist_results. *)

RunsUnderWay == {s \in Sessions : pc[s] \in Persisting}

\* The timestamp of the run is read before the transaction begins.
RequestPersist(s) ==
  /\ pc[s] = "idle"
  /\ Len(db.runs) + Cardinality(RunsUnderWay) < MaxRuns
  /\ \E errand \in Errands \cap {"persist", "baseline", "background"}, scan \in Scans :
       job' = [job EXCEPT ![s] = [@ EXCEPT !.errand = errand, !.scan = scan, !.now = today]]
  /\ Goto(s, "begin")
  /\ UNCHANGED <<db, tx, lock, current, today>>

\* Slip: the run is committed as soon as it is inserted.
SlipBeginCommits(s) ==
  /\ pc[s] = "begin"
  /\ AcquireLock(s)
  /\ tx' = CreateScanRun(db, job[s].now)
  /\ db' = tx'
  /\ job' = [job EXCEPT ![s].run = Len(db.runs) + 1, ![s].next = 1]
  /\ Goto(s, "hosts")
  /\ UNCHANGED <<current, today>>

BeginRun(s) ==
  /\ pc[s] = "begin"
  /\ AcquireLock(s)
  /\ tx' = CreateScanRun(db, job[s].now)
  /\ job' = [job EXCEPT ![s].run = Len(db.runs) + 1, ![s].next = 1]
  /\ Goto(s, "hosts")
  /\ UNCHANGED <<db, current, today>>

\* Slip: the randomisation test is inverted where the MAC is looked up.
SlipLooksUpRandomized(host) == host.mac # None /\ IsMacRandomized(host.mac)

\* A MAC address that may serve as identity.
HasStableMac(host)     == host.mac # None /\ ~ IsMacRandomized(host.mac)
HasRandomizedMac(host) == host.mac # None /\ IsMacRandomized(host.mac)

\* scalar_one_or_none raises when two devices share the address.
Ambiguous(d, host) == HasStableMac(host) /\ Cardinality(FindByMac(d, host.mac)) > 1

\* Slip: the address is tried before the MAC.
SlipAddressFirst(d, host, day) ==
  LET byIp == FindByIpRecent(d, host.ip, host.hostname, day)
  IN  IF byIp # {} \/ ~ HasStableMac(host) THEN byIp ELSE FindByMac(d, host.mac)

\* The devices a host may be, in the order of _resolve_device: by a stable
\* MAC, then by address and name within the grace period.
Matches(d, host, day) ==
  LET byMac == IF HasStableMac(host) THEN FindByMac(d, host.mac) ELSE {}
  IN  IF byMac # {} THEN byMac ELSE FindByIpRecent(d, host.ip, host.hostname, day)

\* The database after the lookup, which creates the device if there is none.
Resolved(d, host, now, day) ==
  IF Matches(d, host, day) # {} THEN d
  ELSE CreateDevice(d, IF HasRandomizedMac(host) THEN None ELSE host.mac,
                    HasRandomizedMac(host), now)

ResolvedDevice(d, host, day) ==
  IF Matches(d, host, day) # {} THEN Least(Matches(d, host, day)) ELSE Len(d.devices) + 1

Upsert(f, key, value) == [k \in DOMAIN f \cup {key} |-> IF k = key THEN value ELSE f[k]]

\* Slip: every host is committed on its own.
SlipHostCommits(s) ==
  LET j      == job[s]
      host   == j.scan.hosts[j.next]
      device == ResolvedDevice(tx, host, today)
      fields == ObservedFields(host, j.scan.services)
  IN  /\ pc[s] = "hosts"
      /\ j.next <= Len(j.scan.hosts)
      /\ tx' = AddSnapshot(Resolved(tx, host, j.now, today), j.run, device, fields, j.now)
      /\ db' = tx'
      /\ job' = [job EXCEPT ![s].next = @ + 1]
      /\ current' = [current EXCEPT ![s] = Upsert(@, device, fields)]
      /\ UNCHANGED <<lock, pc, today>>

\* One turn of the loop over the hosts.  The grace period is measured from
\* the clock, not from the run's timestamp.
PersistHost(s) ==
  LET j      == job[s]
      host   == j.scan.hosts[j.next]
      device == ResolvedDevice(tx, host, today)
      fields == ObservedFields(host, j.scan.services)
  IN  /\ pc[s] = "hosts"
      /\ j.next <= Len(j.scan.hosts)
      /\ ~ Ambiguous(tx, host)
      /\ tx' = AddSnapshot(Resolved(tx, host, j.now, today), j.run, device, fields, j.now)
      /\ job' = [job EXCEPT ![s].next = @ + 1]
      /\ current' = [current EXCEPT ![s] = Upsert(@, device, fields)]
      /\ UNCHANGED <<db, lock, pc, today>>

FinishRun(s) ==
  LET j        == job[s]
      previous == LatestSnapshotPerDevice(tx, j.run)
  IN  /\ pc[s] = "hosts"
      /\ j.next > Len(j.scan.hosts)
      /\ tx' = AddChanges(FinishScanRun(tx, j.run, Len(j.scan.hosts)),
                          j.run, DiffDevices(previous, current[s]))
      /\ Goto(s, "commit_run")
      /\ UNCHANGED <<db, lock, job, current, today>>

BroadcastOrder == <<"devices", "run", "changes">>   \* list_assets, get_changes
ReportOrder == <<"run", "changes", "devices">>      \* get_changes, list_assets

\* What the caller does next: the baseline command pins the run, the
\* dashboard reads the changes back if there were any.
CommitRun(s) ==
  LET news == ChangesOfRun(tx, job[s].run) # {} IN
  /\ pc[s] = "commit_run"
  /\ db' = tx
  /\ lock' = NoSession
  /\ CASE job[s].errand = "baseline" ->
            Goto(s, "clear_baseline") /\ UNCHANGED <<job, current>>
       [] job[s].errand = "background" /\ news ->
            /\ Goto(s, "read")
            /\ job' = [job EXCEPT ![s].reads = BroadcastOrder]
            /\ UNCHANGED current
       [] OTHER -> Return(s)
  /\ UNCHANGED <<tx, today>>

-----------------------------------------------------------------------------
(* Pinning a baseline: pin_baseline and mark_baseline. *)

RequestPin(s) ==
  /\ pc[s] = "idle"
  /\ "pin" \in Errands
  /\ job' = [job EXCEPT ![s].errand = "pin"]
  /\ Goto(s, "latest")
  /\ UNCHANGED <<db, tx, lock, current, today>>

\* The latest run is read before the transaction begins; without any run the
\* request is refused.
ReadLatestRun(s) ==
  /\ pc[s] = "latest"
  /\ IF db.runs = <<>> THEN Return(s)
     ELSE /\ job' = [job EXCEPT ![s].run = Len(db.runs)]
          /\ Goto(s, "clear_baseline")
          /\ UNCHANGED current
  /\ UNCHANGED <<db, tx, lock, today>>

\* Slip: the first UPDATE is committed on its own.
SlipClearCommits(s) ==
  /\ pc[s] = "clear_baseline"
  /\ AcquireLock(s)
  /\ tx' = ClearBaseline(db)
  /\ db' = tx'
  /\ Goto(s, "set_baseline")
  /\ UNCHANGED <<job, current, today>>

ClearBaselines(s) ==
  /\ pc[s] = "clear_baseline"
  /\ AcquireLock(s)
  /\ tx' = ClearBaseline(db)
  /\ Goto(s, "set_baseline")
  /\ UNCHANGED <<db, job, current, today>>

MarkBaseline(s) ==
  /\ pc[s] = "set_baseline"
  /\ tx' = SetBaseline(tx, job[s].run)
  /\ Goto(s, "commit_pin")
  /\ UNCHANGED <<db, lock, job, current, today>>

CommitPin(s) ==
  /\ pc[s] = "commit_pin"
  /\ db' = tx
  /\ lock' = NoSession
  /\ Return(s)
  /\ UNCHANGED <<tx, today>>

-----------------------------------------------------------------------------
(* Reporting changes: get_changes and list_assets, one SELECT per step. *)

RequestChanges(s) ==
  /\ pc[s] = "idle"
  /\ \E errand \in Errands \cap {"last", "since"} :
       job' = [job EXCEPT ![s] = [@ EXCEPT !.errand = errand, !.reads = ReportOrder]]
  /\ Goto(s, "read")
  /\ UNCHANGED <<db, tx, lock, current, today>>

ReadNext(s, what) ==
  /\ pc[s] = "read"
  /\ job[s].reads # <<>>
  /\ Head(job[s].reads) = what
  /\ UNCHANGED <<db, tx, lock, pc, current, today>>

\* The run the report is about: 0 when there is none, and the report is empty.
ReadRun(s) ==
  LET run == IF job[s].errand # "since" THEN Len(db.runs)
             ELSE IF BaselineRuns(db) = {} THEN 0 ELSE Least(BaselineRuns(db))
  IN  /\ ReadNext(s, "run")
      /\ job' = [job EXCEPT ![s].run = run, ![s].reads = Tail(@)]

ReadChanges(s) ==
  LET j == job[s]
      found == IF j.run = 0 THEN {}
               ELSE IF j.errand = "since" THEN ChangesSince(db, j.run)
               ELSE ChangesOfRun(db, j.run)
  IN  /\ ReadNext(s, "changes")
      /\ job' = [job EXCEPT ![s].changes = found, ![s].reads = Tail(@)]

ReadDevices(s) ==
  /\ ReadNext(s, "devices")
  /\ job' = [job EXCEPT ![s].known = DOMAIN db.devices, ![s].reads = Tail(@)]

\* The rows are built from what was read, and sent.
Reporting(s) == pc[s] = "read" /\ job[s].reads = <<>>

Report(s) ==
  /\ Reporting(s)
  /\ Return(s)
  /\ UNCHANGED <<db, tx, lock, today>>

-----------------------------------------------------------------------------
(* What goes wrong. *)

\* Slip: an infinite busy timeout.
SlipWaitForever(s) == FALSE

\* SQLite's busy timeout runs out while another session holds the lock.
LockTimeout(s) ==
  /\ pc[s] \in {"begin", "clear_baseline"}
  /\ lock # NoSession
  /\ Return(s)
  /\ UNCHANGED <<db, tx, lock, today>>

\* Slip: what was written so far is committed when the session is closed.
SlipFailKeeps(s) ==
  /\ pc[s] # "idle"
  /\ Return(s)
  /\ IF lock = s THEN lock' = NoSession /\ db' = tx ELSE UNCHANGED <<lock, db>>
  /\ UNCHANGED <<tx, today>>

\* An exception, an interrupt or the death of the process: the session is
\* closed and an open transaction rolled back.
Fail(s) ==
  /\ pc[s] # "idle"
  /\ Return(s)
  /\ IF lock = s THEN lock' = NoSession /\ tx' = db ELSE UNCHANGED <<lock, tx>>
  /\ UNCHANGED <<db, today>>

Tick ==
  /\ today < MaxDay
  /\ today' = today + 1
  /\ UNCHANGED <<db, tx, lock, pc, job, current>>

-----------------------------------------------------------------------------

Request(s) == RequestPersist(s) \/ RequestPin(s) \/ RequestChanges(s)

\* The statements of a job under way.
Work(s) ==
  \/ BeginRun(s) \/ PersistHost(s) \/ FinishRun(s) \/ CommitRun(s)
  \/ ReadLatestRun(s) \/ ClearBaselines(s) \/ MarkBaseline(s) \/ CommitPin(s)
  \/ ReadRun(s) \/ ReadChanges(s) \/ ReadDevices(s) \/ Report(s)
  \/ LockTimeout(s)

Next == Tick \/ \E s \in Sessions : Request(s) \/ Work(s) \/ Fail(s)

Spec == Init /\ [][Next]_vars

\* A session that is under way is scheduled, and the busy timeout ends a wait
\* for the lock.  Nothing obliges anyone to ask, to fail, or time to pass.
FairSpec == Spec /\ \A s \in Sessions : WF_vars(Work(s))

=============================================================================
