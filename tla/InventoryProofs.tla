--------------------------- MODULE InventoryProofs ---------------------------
(***************************************************************************)
(* Proofs about the inventory for any number of sessions, any scans and    *)
(* any bounds.                                                             *)
(***************************************************************************)
EXTENDS InventoryProperties, FiniteSetTheorems, SequenceTheorems, TLAPS

-----------------------------------------------------------------------------
(* Least and greatest row ids. *)

\* Every non-empty set of naturals has a least member.  The order of the
\* intervals 0..x under inclusion is the order of their ends.
LEMMA LeastExists ==
  ASSUME NEW S \in SUBSET Nat, S # {}
  PROVE  \E x \in S : \A y \in S : x <= y
  <1> DEFINE T == {0..x : x \in S}
  <1> DEFINE R == StrictSubsetOrdering(Nat)
  <1>1. T \subseteq FiniteSubsetsOf(Nat) /\ T # {}
    <2>1. \A x \in S : 0..x \in SUBSET Nat /\ IsFiniteSet(0..x)
      BY FS_Interval
    <2> QED
      BY <2>1 DEF FiniteSubsetsOf
  <1>2. PICK t \in T : \A u \in T : ~ (<<u, t>> \in R)
    <2>1. IsWellFoundedOn(R, FiniteSubsetsOf(Nat))
      BY FS_StrictSubsetOrderingWellFounded
    <2> HIDE DEF T, R
    <2> QED
      BY <1>1, <2>1, WFMin
  <1>3. PICK x \in S : t = 0..x
    BY DEF T
  <1>4. \A y \in S : x <= y
    <2> SUFFICES ASSUME NEW y \in S, y < x PROVE FALSE
      OBVIOUS
    <2>1. 0..y \in T /\ <<0..y, t>> \notin R
      BY <1>2
    <2>2. 0..y \subseteq 0..x /\ x \in 0..x /\ x \notin 0..y
      OBVIOUS
    <2>3. 0..y \in SUBSET Nat /\ 0..x \in SUBSET Nat
      OBVIOUS
    <2> QED
      BY <1>3, <2>1, <2>2, <2>3 DEF StrictSubsetOrdering
  <1> QED
    BY <1>4

\* What Least computes: the member that is below all others.
LEMMA LeastProperties ==
  ASSUME NEW S \in SUBSET Nat, S # {}
  PROVE  Least(S) \in S /\ \A y \in S : Least(S) <= y
  BY LeastExists DEF Least

\* What Greatest computes of the ids of a table with n rows.
LEMMA GreatestProperties ==
  ASSUME NEW n \in Nat, NEW S \in SUBSET (1..n), S # {}
  PROVE  Greatest(S) \in S /\ \A y \in S : Greatest(S) >= y
  <1> DEFINE T == {n - x : x \in S}
  <1>1. T \in SUBSET Nat /\ T # {}
    <2>1. \A x \in S : n - x \in Nat
      OBVIOUS
    <2> QED
      BY <2>1
  <1>2. PICK t \in T : \A y \in T : t <= y
    BY <1>1, LeastExists
  <1>3. PICK x \in S : t = n - x
    OBVIOUS
  <1>4. \A y \in S : x >= y
    <2> TAKE y \in S
    <2>1. n - y \in T
      OBVIOUS
    <2>2. t <= n - y
      BY <1>2, <2>1
    <2> QED
      BY <1>3, <2>2
  <1> QED
    BY <1>3, <1>4 DEF Greatest

-----------------------------------------------------------------------------
(* The operations of the repository keep the types of the tables. *)

\* Replacing one row keeps the type of a table, and its length.
LEMMA RowUpdate ==
  ASSUME NEW S, NEW table \in Seq(S), NEW i, NEW row, i \in DOMAIN table => row \in S
  PROVE  LET new == [table EXCEPT ![i] = row]
         IN  new \in Seq(S) /\ Len(new) = Len(table) /\ DOMAIN new = DOMAIN table
  <1>1. CASE i \in DOMAIN table
    BY <1>1, ExceptSeq, LenProperties
  <1>2. CASE i \notin DOMAIN table
    <2>1. [table EXCEPT ![i] = row] = table
      BY <1>2, LenProperties
    <2> QED
      BY <2>1
  <1> QED
    BY <1>1, <1>2

\* A database with one table exchanged for another of its type.
LEMMA TableUpdate ==
  ASSUME NEW d, IsDb(d)
  PROVE  /\ \A t \in Seq(DeviceRow) : IsDb([d EXCEPT !.devices = t])
         /\ \A t \in Seq(RunRow) : IsDb([d EXCEPT !.runs = t])
         /\ \A t \in Seq(SnapRow) : IsDb([d EXCEPT !.snaps = t])
         /\ \A t \in SUBSET EventRow : IsDb([d EXCEPT !.changes = t])
  BY DEF IsDb

\* The types of the tables, one by one.
LEMMA TableTypes ==
  ASSUME NEW d, IsDb(d)
  PROVE  /\ d.devices \in Seq(DeviceRow) /\ d.runs \in Seq(RunRow)
         /\ d.snaps \in Seq(SnapRow) /\ d.changes \in SUBSET EventRow
  BY DEF IsDb

\* The empty database is one.
LEMMA EmptyDbType == IsDb(EmptyDb)
  BY DEF IsDb, EmptyDb

\* Inserting a scan run.
LEMMA CreateScanRunType ==
  ASSUME NEW d, IsDb(d), NEW now \in Nat
  PROVE  IsDb(CreateScanRun(d, now))
  <1>1. [started_at |-> now, host_count |-> 0, is_baseline |-> FALSE] \in RunRow
    BY DEF RunRow
  <1> QED
    BY <1>1, TableTypes, TableUpdate, AppendProperties DEF CreateScanRun

\* Inserting a device.
LEMMA CreateDeviceType ==
  ASSUME NEW d, IsDb(d), NEW mac \in Values("mac"), NEW randomized \in BOOLEAN, NEW now \in Nat
  PROVE  IsDb(CreateDevice(d, mac, randomized, now))
  <1> DEFINE row == [primary_mac |-> mac, is_mac_randomized |-> randomized,
                     first_seen |-> now, last_seen |-> now, last_ip |-> None,
                     last_hostname |-> None, last_vendor |-> None,
                     last_os_guess |-> None, last_device_type |-> None]
  <1>1. row \in DeviceRow
    BY DEF DeviceRow, Values
  <1>2. CreateDevice(d, mac, randomized, now) = [d EXCEPT !.devices = Append(@, row)]
    BY DEF CreateDevice
  <1> HIDE DEF row
  <1>3. Append(d.devices, row) \in Seq(DeviceRow)
    BY <1>1, TableTypes, AppendProperties
  <1> QED
    BY <1>2, <1>3, TableUpdate

\* Inserting a snapshot and updating its device.
LEMMA AddSnapshotType ==
  ASSUME NEW d, IsDb(d), NEW run \in Nat, NEW device \in Nat,
         NEW fields \in Observations, NEW now \in Nat
  PROVE  IsDb(AddSnapshot(d, run, device, fields, now))
  <1> DEFINE snap == [scan_run_id |-> run, device_id |-> device,
                      fields |-> fields, created_at |-> now]
             snaps == Append(d.snaps, snap)
             devices == [d.devices EXCEPT ![device] = Observed(@, fields, now)]
  <1>1. snaps \in Seq(SnapRow)
    <2>1. snap \in SnapRow
      BY DEF SnapRow
    <2> QED
      BY <2>1, TableTypes, AppendProperties
  <1>2. devices \in Seq(DeviceRow)
    <2>1. \A row \in DeviceRow : Observed(row, fields, now) \in DeviceRow
      BY DEF DeviceRow, Observed, Values
    <2>2. device \in DOMAIN d.devices => Observed(d.devices[device], fields, now) \in DeviceRow
      BY <2>1, TableTypes, LenProperties
    <2> QED
      BY <2>2, TableTypes, RowUpdate
  <1>3. AddSnapshot(d, run, device, fields, now) =
          [[d EXCEPT !.snaps = snaps] EXCEPT !.devices = devices]
    BY DEF AddSnapshot, IsDb
  <1> HIDE DEF snaps, devices
  <1>4. IsDb([d EXCEPT !.snaps = snaps])
    BY <1>1, TableUpdate
  <1> QED
    BY <1>2, <1>3, <1>4, TableUpdate

\* Finishing a run.
LEMMA FinishScanRunType ==
  ASSUME NEW d, IsDb(d), NEW run \in Nat, NEW count \in Nat
  PROVE  IsDb(FinishScanRun(d, run, count))
  <1> DEFINE runs == [d.runs EXCEPT ![run] = [@ EXCEPT !.host_count = count]]
  <1>1. run \in DOMAIN d.runs => [d.runs[run] EXCEPT !.host_count = count] \in RunRow
    <2>1. \A row \in RunRow : [row EXCEPT !.host_count = count] \in RunRow
      BY DEF RunRow
    <2> QED
      BY <2>1, TableTypes, LenProperties
  <1>2. runs \in Seq(RunRow)
    BY <1>1, TableTypes, RowUpdate
  <1>3. FinishScanRun(d, run, count) = [d EXCEPT !.runs = runs]
    BY DEF FinishScanRun
  <1> HIDE DEF runs
  <1> QED
    BY <1>2, <1>3, TableUpdate

\* Clearing the baseline marks, and setting one.
LEMMA BaselineTypes ==
  ASSUME NEW d, IsDb(d), NEW run \in Nat
  PROVE  IsDb(ClearBaseline(d)) /\ IsDb(SetBaseline(d, run))
  <1> DEFINE cleared == [r \in DOMAIN d.runs |-> [d.runs[r] EXCEPT !.is_baseline = FALSE]]
             marked  == [d.runs EXCEPT ![run] = [@ EXCEPT !.is_baseline = TRUE]]
  <1>0. \A row \in RunRow, b \in BOOLEAN : [row EXCEPT !.is_baseline = b] \in RunRow
    BY DEF RunRow
  <1>1. cleared \in Seq(RunRow)
    <2>1. \A r \in DOMAIN d.runs : [d.runs[r] EXCEPT !.is_baseline = FALSE] \in RunRow
      BY <1>0, TableTypes, LenProperties
    <2>2. Len(d.runs) \in Nat /\ DOMAIN d.runs = 1..Len(d.runs)
      BY TableTypes, LenProperties
    <2> QED
      BY <2>1, <2>2
  <1>2. marked \in Seq(RunRow)
    <2>1. run \in DOMAIN d.runs => [d.runs[run] EXCEPT !.is_baseline = TRUE] \in RunRow
      BY <1>0, TableTypes, LenProperties
    <2> QED
      BY <2>1, TableTypes, RowUpdate
  <1>3. ClearBaseline(d) = [d EXCEPT !.runs = cleared] /\ SetBaseline(d, run) = [d EXCEPT !.runs = marked]
    BY DEF ClearBaseline, SetBaseline
  <1> HIDE DEF cleared, marked
  <1> QED
    BY <1>1, <1>2, <1>3, TableUpdate

\* The fields read back from the snapshots are observations.
LEMMA LatestSnapshotType ==
  ASSUME NEW d, IsDb(d), NEW run
  PROVE  LET latest == LatestSnapshotPerDevice(d, run)
         IN  /\ DOMAIN latest \subseteq Nat
             /\ \A e \in DOMAIN latest : latest[e] \in Observations
  <1> DEFINE Ids(e) == {i \in SnapIds(d, e) : d.snaps[i].scan_run_id # run}
  <1>1. LatestSnapshotPerDevice(d, run) =
          [e \in {x \in DOMAIN d.devices : Ids(x) # {}} |-> d.snaps[Greatest(Ids(e))].fields]
    BY DEF LatestSnapshotPerDevice
  <1>2. ASSUME NEW e, Ids(e) # {} PROVE d.snaps[Greatest(Ids(e))].fields \in Observations
    <2>1. Ids(e) \in SUBSET (1..Len(d.snaps)) /\ Len(d.snaps) \in Nat
      BY DEF SnapIds, IsDb
    <2> HIDE DEF Ids
    <2>2. Greatest(Ids(e)) \in 1..Len(d.snaps)
      BY <1>2, <2>1, GreatestProperties
    <2>3. d.snaps[Greatest(Ids(e))] \in SnapRow
      BY <2>2, TableTypes, ElementOfSeq
    <2> QED
      BY <2>3 DEF SnapRow
  <1>3. DOMAIN d.devices \subseteq Nat
    BY DEF IsDb
  <1> QED
    BY <1>1, <1>2, <1>3

\* The records of a diff between observations are change records.
LEMMA DiffDevicesType ==
  ASSUME NEW old, NEW new, DOMAIN old \subseteq Nat, DOMAIN new \subseteq Nat,
         \A d \in DOMAIN old : old[d] \in Observations,
         \A d \in DOMAIN new : new[d] \in Observations
  PROVE  DiffDevices(old, new) \subseteq [device_id : Nat, change : ChangeRecords]
  <1> DEFINE Old(d) == IF d \in DOMAIN old THEN old[d] ELSE None
  <1>1. ASSUME NEW d \in DOMAIN new PROVE DiffSnapshots(Old(d), new[d]) \subseteq ChangeRecords
    BY DEF ChangeRecords
  <1>2. DeviceGone \in ChangeRecords
    BY DEF ChangeRecords
  <1> QED
    BY <1>1, <1>2 DEF DiffDevices

\* Recording the events of a run.
LEMMA AddChangesType ==
  ASSUME NEW d, IsDb(d), NEW run \in Nat,
         NEW records \in SUBSET [device_id : Nat, change : ChangeRecords]
  PROVE  IsDb(AddChanges(d, run, records))
  <1>1. {[scan_run_id |-> run, device_id |-> c.device_id, change |-> c.change] : c \in records}
          \subseteq EventRow
    BY DEF EventRow
  <1> QED
    BY <1>1, TableTypes, TableUpdate DEF AddChanges

-----------------------------------------------------------------------------
(* Type correctness.  A session persists a scan it was given, from its     *)
(* first host on.                                                          *)

Supplied == \A s \in Sessions :
  /\ pc[s] \in Persisting => job[s].scan \in Scans
  /\ pc[s] = "hosts" => job[s].next # 0

TypeInv == TypeOK /\ Supplied

\* The host a session is about to persist, and what it observes of it.
LEMMA HostAtHand ==
  ASSUME TypeInv, NEW s \in Sessions, pc[s] = "hosts", job[s].next <= Len(job[s].scan.hosts)
  PROVE  LET host == job[s].scan.hosts[job[s].next] IN
         /\ ObservedFields(host, job[s].scan.services) \in Observations
         /\ host.mac \in Values("mac")
         /\ host \in Hosts
  <1> DEFINE scan == job[s].scan
             next == job[s].next
  <1>1. scan \in Scans
    BY DEF TypeInv, Supplied, Persisting
  <1>2. scan.hosts \in Seq(Hosts)
    BY <1>1, ScansAssumption
  <1>3. job[s] \in Job
    BY DEF TypeInv, TypeOK
  <1>4. next \in 1..Len(scan.hosts) /\ next \in DOMAIN scan.hosts
    <2>1. next \in Nat /\ next # 0
      BY <1>3 DEF Job, TypeInv, Supplied
    <2> QED
      BY <1>2, <2>1, LenProperties
  <1> HIDE DEF scan, next
  <1>5. scan.hosts[next] \in Hosts
    BY <1>2, <1>4, ElementOfSeq
  <1>6. ObservedFields(scan.hosts[next], scan.services) \in Observations
    BY <1>1, <1>4 DEF Observations
  <1>7. ObservedFields(scan.hosts[next], scan.services).mac = scan.hosts[next].mac
    BY DEF ObservedFields
  <1>8. scan.hosts[next].mac \in Values("mac")
    BY <1>6, <1>7 DEF Values
  <1> QED
    BY <1>5, <1>6, <1>8 DEF scan, next

\* The lookup of a host's device keeps the types.
LEMMA ResolvedType ==
  ASSUME NEW d, IsDb(d), NEW host, host.mac \in Values("mac"), NEW now \in Nat, NEW day \in Nat
  PROVE  /\ IsDb(Resolved(d, host, now, day))
         /\ ResolvedDevice(d, host, day) \in Nat
  <1>1. IsDb(Resolved(d, host, now, day))
    <2>1. (IF HasRandomizedMac(host) THEN None ELSE host.mac) \in Values("mac")
      BY DEF Values
    <2>2. HasRandomizedMac(host) \in BOOLEAN
      BY DEF HasRandomizedMac
    <2> QED
      BY <2>1, <2>2, CreateDeviceType DEF Resolved
  <1>2. ResolvedDevice(d, host, day) \in Nat
    <2>1. Len(d.devices) \in Nat /\ DOMAIN d.devices = 1..Len(d.devices)
      BY TableTypes, LenProperties
    <2>2. Matches(d, host, day) \subseteq 1..Len(d.devices)
      BY <2>1 DEF Matches, FindByMac, FindByIpRecent
    <2>3. Matches(d, host, day) \in SUBSET Nat
      BY <2>1, <2>2
    <2> QED
      BY <2>1, <2>3, LeastProperties DEF ResolvedDevice
  <1> QED
    BY <1>1, <1>2

\* A job with one local changed to another of its type.
LEMMA JobUpdate ==
  ASSUME NEW j \in Job
  PROVE  /\ \A v \in AllErrands : [j EXCEPT !.errand = v] \in Job
         /\ \A v \in Scans : [j EXCEPT !.scan = v] \in Job
         /\ \A v \in Nat : /\ [j EXCEPT !.now = v] \in Job
                           /\ [j EXCEPT !.run = v] \in Job
                           /\ [j EXCEPT !.next = v] \in Job
         /\ \A v \in Seq({"run", "changes", "devices"}) : [j EXCEPT !.reads = v] \in Job
         /\ \A v \in SUBSET EventRow : [j EXCEPT !.changes = v] \in Job
         /\ \A v \in SUBSET Nat : [j EXCEPT !.known = v] \in Job
  BY DEF Job

\* The orders in which the statements of a report are made.
LEMMA OrderTypes == /\ ReportOrder \in Seq({"run", "changes", "devices"})
                    /\ BroadcastOrder \in Seq({"run", "changes", "devices"})
  BY DEF ReportOrder, BroadcastOrder

\* A job that ends leaves nothing behind.
LEMMA ReturnType ==
  ASSUME TypeInv, NEW s \in Sessions, Return(s)
  PROVE  /\ pc' \in [Sessions -> Labels] /\ job' \in [Sessions -> Job]
         /\ DOMAIN current' = Sessions /\ \A x \in Sessions : IsDict(current'[x])
         /\ Supplied'
  <1>1. NoJob \in Job
    BY DEF NoJob, Job, EventRow
  <1>2. IsDict(<<>>)
    BY DEF IsDict
  <1>3. pc' \in [Sessions -> Labels] /\ job' \in [Sessions -> Job]
    BY <1>1 DEF TypeInv, TypeOK, Return, Goto, Labels
  <1>4. DOMAIN current' = Sessions /\ \A x \in Sessions : IsDict(current'[x])
    BY <1>2 DEF TypeInv, TypeOK, Return
  <1>5. Supplied'
    BY DEF TypeInv, TypeOK, Supplied, Return, Goto, Persisting
  <1> QED
    BY <1>3, <1>4, <1>5

\* The service starts with its types.
THEOREM TypeInvInit == Init => TypeInv
  <1> SUFFICES ASSUME Init PROVE TypeInv
    OBVIOUS
  <1>1. NoJob \in Job
    BY DEF NoJob, Job, EventRow
  <1>2. TypeOK
    BY <1>1, EmptyDbType, BoundAssumption DEF Init, TypeOK, Labels, IsDict
  <1>3. Supplied
    BY DEF Init, Supplied, Persisting
  <1> QED
    BY <1>2, <1>3 DEF TypeInv

\* Every step of every session keeps the types.
THEOREM TypeInvStep == TypeInv /\ [Next]_vars => TypeInv'
  <1> SUFFICES ASSUME TypeInv, [Next]_vars PROVE TypeInv'
    OBVIOUS
  <1> USE DEF TypeInv
  <1>0. /\ IsDb(db) /\ IsDb(tx)
        /\ Len(db.runs) \in Nat /\ DOMAIN db.runs = 1..Len(db.runs)
        /\ DOMAIN db.devices \subseteq Nat
        /\ today \in Nat
    BY TableTypes, LenProperties, BoundAssumption DEF TypeOK
  <1>a. \A s \in Sessions : job[s] \in Job
    BY DEF TypeOK
  <1>1. ASSUME NEW s \in Sessions, RequestPersist(s) PROVE TypeInv'
    <2>1. PICK errand \in Errands \cap {"persist", "baseline", "background"}, scan \in Scans :
            job' = [job EXCEPT ![s] = [@ EXCEPT !.errand = errand, !.scan = scan, !.now = today]]
      BY <1>1 DEF RequestPersist
    <2>2. [job[s] EXCEPT !.errand = errand, !.scan = scan, !.now = today] \in Job
      BY <1>0, <2>1, ErrandsAssumption DEF TypeOK, Job
    <2>3. TypeOK'
      BY <1>1, <2>1, <2>2 DEF RequestPersist, Goto, TypeOK, Labels
    <2>4. Supplied'
      BY <1>1, <2>1, <2>2 DEF RequestPersist, Goto, TypeOK, Supplied, Persisting, Job
    <2> QED
      BY <2>3, <2>4
  <1>2. ASSUME NEW s \in Sessions, BeginRun(s) PROVE TypeInv'
    <2>1. job[s].now \in Nat
      BY DEF TypeOK, Job
    <2>2. IsDb(tx')
      BY <1>0, <1>2, <2>1, CreateScanRunType DEF BeginRun
    <2>3. [job[s] EXCEPT !.run = Len(db.runs) + 1, !.next = 1] \in Job
      <3>1. Len(db.runs) + 1 \in Nat
        BY <1>0
      <3>2. [job[s] EXCEPT !.run = Len(db.runs) + 1] \in Job
        BY <1>a, <3>1, JobUpdate
      <3> QED
        BY <3>2, JobUpdate
    <2>4. job' = [job EXCEPT ![s] = [job[s] EXCEPT !.run = Len(db.runs) + 1, !.next = 1]]
      BY <1>2 DEF BeginRun, TypeOK, Job
    <2>5. TypeOK'
      BY <1>2, <2>2, <2>3, <2>4 DEF BeginRun, AcquireLock, Goto, TypeOK, Labels
    <2>6. Supplied'
      BY <1>2, <2>3, <2>4 DEF BeginRun, Goto, TypeOK, Supplied, Persisting, Job
    <2> QED
      BY <2>5, <2>6
  <1>3. ASSUME NEW s \in Sessions, PersistHost(s) PROVE TypeInv'
    <2> DEFINE j      == job[s]
               host   == j.scan.hosts[j.next]
               device == ResolvedDevice(tx, host, today)
               fields == ObservedFields(host, j.scan.services)
    <2>1. fields \in Observations /\ host.mac \in Values("mac")
      BY <1>3, HostAtHand DEF PersistHost
    <2>2. j \in Job /\ j.now \in Nat /\ j.run \in Nat /\ j.next \in Nat
      BY DEF TypeOK, Job
    <2>3. IsDb(Resolved(tx, host, j.now, today)) /\ device \in Nat
      BY <1>0, <2>1, <2>2, ResolvedType
    <2>4. /\ tx' = AddSnapshot(Resolved(tx, host, j.now, today), j.run, device, fields, j.now)
          /\ job' = [job EXCEPT ![s].next = @ + 1]
          /\ current' = [current EXCEPT ![s] = Upsert(@, device, fields)]
          /\ UNCHANGED <<db, lock, pc, today>>
      BY <1>3 DEF PersistHost
    <2> HIDE DEF j, host, device, fields
    <2>5. IsDb(tx')
      BY <2>1, <2>2, <2>3, <2>4, AddSnapshotType
    <2>6. IsDict(Upsert(current[s], device, fields))
      BY <2>1, <2>3 DEF TypeOK, IsDict, Upsert
    <2>7. [job[s] EXCEPT !.next = @ + 1] \in Job
      <3>1. job[s].next + 1 \in Nat
        BY <2>2 DEF j
      <3> QED
        BY <1>a, <3>1, JobUpdate
    <2>8. TypeOK'
      BY <2>4, <2>5, <2>6, <2>7 DEF TypeOK
    <2>9. Supplied'
      BY <2>4, <2>7 DEF TypeOK, Supplied, Job
    <2> QED
      BY <2>8, <2>9
  <1>4. ASSUME NEW s \in Sessions, FinishRun(s) PROVE TypeInv'
    <2> DEFINE j        == job[s]
               records  == DiffDevices(LatestSnapshotPerDevice(tx, j.run), current[s])
               finished == FinishScanRun(tx, j.run, Len(j.scan.hosts))
    <2>1. j.run \in Nat /\ Len(j.scan.hosts) \in Nat
      <3>1. j.scan \in Scans
        BY <1>4 DEF FinishRun, Supplied, Persisting
      <3>2. j.scan.hosts \in Seq(Hosts)
        BY <3>1, ScansAssumption
      <3>3. j \in Job
        BY DEF TypeOK
      <3> QED
        BY <3>2, <3>3, LenProperties DEF Job
    <2>2. records \in SUBSET [device_id : Nat, change : ChangeRecords]
      BY <1>0, LatestSnapshotType, DiffDevicesType DEF TypeOK, IsDict
    <2>3. IsDb(finished)
      BY <1>0, <2>1, FinishScanRunType
    <2>4. tx' = AddChanges(finished, j.run, records)
      BY <1>4 DEF FinishRun
    <2> HIDE DEF records, finished
    <2>5. IsDb(tx')
      BY <2>1, <2>2, <2>3, <2>4, AddChangesType
    <2>6. TypeOK'
      BY <1>4, <2>5 DEF FinishRun, Goto, TypeOK, Labels
    <2>7. Supplied'
      BY <1>4 DEF FinishRun, Goto, TypeOK, Supplied, Persisting
    <2> QED
      BY <2>6, <2>7
  <1>5. ASSUME NEW s \in Sessions, CommitRun(s) PROVE TypeInv'
    <2>1. db' = tx /\ tx' = tx /\ lock' = NoSession /\ today' = today
      BY <1>5 DEF CommitRun
    <2>2. CASE Return(s)
      BY <1>0, <2>1, <2>2, ReturnType DEF TypeOK
    <2>3. CASE Goto(s, "clear_baseline") /\ UNCHANGED <<job, current>>
      BY <1>0, <2>1, <2>3 DEF Goto, TypeOK, Labels, Supplied, Persisting
    <2>4. CASE /\ Goto(s, "read")
               /\ job' = [job EXCEPT ![s].reads = BroadcastOrder]
               /\ UNCHANGED current
      <3>1. [job[s] EXCEPT !.reads = BroadcastOrder] \in Job
        BY <1>a, JobUpdate, OrderTypes
      <3> QED
        BY <1>0, <2>1, <2>4, <3>1 DEF Goto, TypeOK, Labels, Supplied, Persisting, Job
    <2> QED
      BY <1>5, <2>2, <2>3, <2>4 DEF CommitRun
  <1>6. ASSUME NEW s \in Sessions, RequestPin(s) PROVE TypeInv'
    <2>1. [job[s] EXCEPT !.errand = "pin"] \in Job
      BY DEF TypeOK, Job, AllErrands
    <2> QED
      BY <1>6, <2>1 DEF RequestPin, Goto, TypeOK, Labels, Supplied, Persisting, Job
  <1>7. ASSUME NEW s \in Sessions, ReadLatestRun(s) PROVE TypeInv'
    <2>1. CASE Return(s)
      BY <1>0, <1>7, <2>1, ReturnType DEF ReadLatestRun, TypeOK
    <2>2. CASE ~ Return(s)
      <3>1. [job[s] EXCEPT !.run = Len(db.runs)] \in Job
        BY <1>0, <1>a, JobUpdate
      <3>2. /\ job' = [job EXCEPT ![s].run = Len(db.runs)]
            /\ Goto(s, "clear_baseline")
            /\ UNCHANGED <<db, tx, lock, current, today>>
        BY <1>7, <2>2 DEF ReadLatestRun
      <3>3. TypeOK'
        BY <3>1, <3>2 DEF Goto, TypeOK, Labels
      <3>4. Supplied'
        BY <3>1, <3>2 DEF Goto, TypeOK, Labels, Supplied, Persisting
      <3> QED
        BY <3>3, <3>4
    <2> QED
      BY <2>1, <2>2
  <1>8. ASSUME NEW s \in Sessions, ClearBaselines(s) PROVE TypeInv'
    <2>1. IsDb(tx')
      BY <1>0, <1>8, BaselineTypes DEF ClearBaselines
    <2> QED
      BY <1>8, <2>1 DEF ClearBaselines, AcquireLock, Goto, TypeOK, Labels, Supplied, Persisting
  <1>9. ASSUME NEW s \in Sessions, MarkBaseline(s) PROVE TypeInv'
    <2>1. job[s].run \in Nat
      BY DEF TypeOK, Job
    <2>2. IsDb(tx')
      BY <1>0, <1>9, <2>1, BaselineTypes DEF MarkBaseline
    <2> QED
      BY <1>9, <2>2 DEF MarkBaseline, Goto, TypeOK, Labels, Supplied, Persisting
  <1>10. ASSUME NEW s \in Sessions, CommitPin(s) PROVE TypeInv'
    BY <1>10, ReturnType DEF CommitPin, TypeOK
  <1>11. ASSUME NEW s \in Sessions, RequestChanges(s) PROVE TypeInv'
    <2>1. PICK errand \in Errands \cap {"last", "since"} :
            job' = [job EXCEPT ![s] = [@ EXCEPT !.errand = errand, !.reads = ReportOrder]]
      BY <1>11 DEF RequestChanges
    <2>2. [job[s] EXCEPT !.errand = errand, !.reads = ReportOrder] \in Job
      <3>1. [job[s] EXCEPT !.errand = errand] \in Job
        BY <1>a, JobUpdate, ErrandsAssumption
      <3> QED
        BY <3>1, JobUpdate, OrderTypes
    <2> QED
      BY <1>11, <2>1, <2>2 DEF RequestChanges, Goto, TypeOK, Labels, Supplied, Persisting, Job
  <1>12. ASSUME NEW s \in Sessions, ReadRun(s) \/ ReadChanges(s) \/ ReadDevices(s)
         PROVE  TypeInv'
    <2>1. job[s] \in Job
      BY DEF TypeOK
    <2>2. Tail(job[s].reads) \in Seq({"run", "changes", "devices"})
      <3>1. job[s].reads \in Seq({"run", "changes", "devices"}) /\ job[s].reads # <<>>
        BY <1>12, <2>1 DEF Job, ReadRun, ReadChanges, ReadDevices, ReadNext
      <3> QED
        BY <3>1, HeadTailProperties
    <2>3. /\ UNCHANGED <<db, tx, lock, pc, current, today>>
          /\ pc[s] = "read"
      BY <1>12 DEF ReadRun, ReadChanges, ReadDevices, ReadNext
    <2>4. CASE ReadRun(s)
      <3> DEFINE run == IF job[s].errand # "since" THEN Len(db.runs)
                        ELSE IF BaselineRuns(db) = {} THEN 0 ELSE Least(BaselineRuns(db))
      <3>1. run \in Nat
        <4>1. BaselineRuns(db) \in SUBSET Nat
          BY <1>0 DEF BaselineRuns
        <4> QED
          BY <1>0, <4>1, LeastProperties
      <3>2. job' = [job EXCEPT ![s] = [job[s] EXCEPT !.run = run, !.reads = Tail(job[s].reads)]]
        BY <2>1, <2>4 DEF ReadRun, TypeOK, Job
      <3> HIDE DEF run
      <3>3. [job[s] EXCEPT !.run = run, !.reads = Tail(job[s].reads)] \in Job
        <4>1. [job[s] EXCEPT !.run = run] \in Job
          BY <2>1, <3>1, JobUpdate
        <4> QED
          BY <2>2, <4>1, JobUpdate
      <3> QED
        BY <2>3, <3>2, <3>3 DEF TypeOK, Supplied, Persisting
    <2>5. CASE ReadChanges(s)
      <3> DEFINE found == IF job[s].run = 0 THEN {}
                          ELSE IF job[s].errand = "since" THEN ChangesSince(db, job[s].run)
                          ELSE ChangesOfRun(db, job[s].run)
      <3>1. found \in SUBSET EventRow
        BY <1>0, TableTypes DEF ChangesSince, ChangesOfRun
      <3>2. job' = [job EXCEPT ![s] = [job[s] EXCEPT !.changes = found, !.reads = Tail(job[s].reads)]]
        BY <2>1, <2>5 DEF ReadChanges, TypeOK, Job
      <3> HIDE DEF found
      <3>3. [job[s] EXCEPT !.changes = found, !.reads = Tail(job[s].reads)] \in Job
        <4>1. [job[s] EXCEPT !.changes = found] \in Job
          BY <2>1, <3>1, JobUpdate
        <4> QED
          BY <2>2, <4>1, JobUpdate
      <3> QED
        BY <2>3, <3>2, <3>3 DEF TypeOK, Supplied, Persisting
    <2>6. CASE ReadDevices(s)
      <3>1. job' = [job EXCEPT ![s] = [job[s] EXCEPT !.known = DOMAIN db.devices, !.reads = Tail(job[s].reads)]]
        BY <2>1, <2>6 DEF ReadDevices, TypeOK, Job
      <3>2. [job[s] EXCEPT !.known = DOMAIN db.devices, !.reads = Tail(job[s].reads)] \in Job
        <4>1. [job[s] EXCEPT !.known = DOMAIN db.devices] \in Job
          BY <1>0, <2>1, JobUpdate
        <4> QED
          BY <2>2, <4>1, JobUpdate
      <3> QED
        BY <2>3, <3>1, <3>2 DEF TypeOK, Supplied, Persisting
    <2> QED
      BY <1>12, <2>4, <2>5, <2>6
  <1>13. ASSUME NEW s \in Sessions, Report(s) \/ LockTimeout(s) PROVE TypeInv'
    BY <1>13, ReturnType DEF Report, LockTimeout, TypeOK
  <1>14. ASSUME NEW s \in Sessions, Fail(s) PROVE TypeInv'
    BY <1>14, ReturnType DEF Fail, TypeOK
  <1>15. ASSUME Tick PROVE TypeInv'
    <2>1. today' \in 0..MaxDay
      BY <1>0, <1>15, BoundAssumption DEF Tick
    <2>2. UNCHANGED <<db, tx, lock, pc, job, current>>
      BY <1>15 DEF Tick
    <2>3. TypeOK'
      BY <2>1, <2>2 DEF TypeOK
    <2>4. Supplied'
      BY <2>2 DEF Supplied
    <2> QED
      BY <2>3, <2>4
  <1>16. ASSUME UNCHANGED vars PROVE TypeInv'
    BY <1>16 DEF vars, TypeOK, Supplied
  <1> QED
    BY <1>1, <1>2, <1>3, <1>4, <1>5, <1>6, <1>7, <1>8, <1>9, <1>10, <1>11, <1>12,
       <1>13, <1>14, <1>15, <1>16 DEF Next, Request, Work

\* The variables have their types, whatever the sessions do.
THEOREM TypeCorrect == Spec => []TypeOK
  <1>1. TypeInv => TypeOK
    BY DEF TypeInv
  <1> QED
    BY <1>1, TypeInvInit, TypeInvStep, PTL DEF Spec

=============================================================================
