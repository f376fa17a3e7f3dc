------------------------- MODULE InventoryProperties -------------------------
(***************************************************************************)
(* What the inventory promises: of the committed database, of the steps    *)
(* that change it, and of the reports made from it.                        *)
(***************************************************************************)
EXTENDS Inventory

-----------------------------------------------------------------------------
(* Types. *)

\* Every observation the scans can bring, and every change they can cause.
Observations == UNION {{ObservedFields(scan.hosts[i], scan.services) :
                          i \in DOMAIN scan.hosts} : scan \in Scans}

ChangeRecords ==
  (UNION {DiffSnapshots(old, new) : old \in Observations \cup {None}, new \in Observations})
  \cup {DeviceGone}

Values(field) == {o[field] : o \in Observations} \cup {None}

\* None is no observation, no port and no service.
ASSUME NoneAssumption == \A o \in Observations :
  o # None /\ None \notin o.open_ports /\ None \notin o.services

DeviceRow ==
  [primary_mac : Values("mac"), is_mac_randomized : BOOLEAN,
   first_seen : Nat, last_seen : Nat, last_ip : Values("ip"),
   last_hostname : Values("hostname"), last_vendor : Values("vendor"),
   last_os_guess : Values("os_guess"), last_device_type : Values("device_type")]

RunRow  == [started_at : Nat, host_count : Nat, is_baseline : BOOLEAN]
SnapRow == [scan_run_id : Nat, device_id : Nat, fields : Observations, created_at : Nat]
EventRow == [scan_run_id : Nat, device_id : Nat, change : ChangeRecords]

IsDb(d) == d \in [devices : Seq(DeviceRow), runs : Seq(RunRow), snaps : Seq(SnapRow),
                  changes : SUBSET EventRow]

Labels == {"idle", "begin", "hosts", "commit_run", "latest", "clear_baseline",
           "set_baseline", "commit_pin", "read"}

Job == [errand : AllErrands \cup {None}, scan : Scans \cup {None},
        now : Nat, run : Nat, next : Nat, reads : Seq({"run", "changes", "devices"}),
        changes : SUBSET EventRow, known : SUBSET Nat]

IsDict(f) == DOMAIN f \subseteq Nat /\ \A d \in DOMAIN f : f[d] \in Observations

\* The types of the variables.
TypeOK ==
  /\ IsDb(db) /\ IsDb(tx)
  /\ lock \in Sessions \cup {NoSession}
  /\ pc \in [Sessions -> Labels]
  /\ job \in [Sessions -> Job]
  /\ DOMAIN current = Sessions
  /\ \A s \in Sessions : IsDict(current[s])
  /\ today \in 0..MaxDay

-----------------------------------------------------------------------------
(* Safety. *)

OneBaseline(d) == \A q, r \in BaselineRuns(d) : q = r

\* At most one run is the baseline: get_baseline_scan_run raises otherwise,
\* and reports since the baseline are lost for good.
BaselineUnique == OneBaseline(db)

MacsDistinct(d) == \A a, b \in DOMAIN d.devices :
  d.devices[a].primary_mac # None /\ d.devices[a].primary_mac = d.devices[b].primary_mac
    => a = b

\* No MAC address is the identity of two devices, although no constraint of
\* the schema says so and concurrent scans create devices: find_device_by_mac
\* would raise on every later scan that sees the address.
UniquePrimaryMac == MacsDistinct(db)

\* The device row repeats the device's newest snapshot, and every device has
\* one: the address, name and type the asset list shows are those last seen.
DeviceRowsInSync == \A d \in DOMAIN db.devices :
  /\ SnapIds(db, d) # {}
  /\ LET newest == db.snaps[Greatest(SnapIds(db, d))]
     IN  db.devices[d] = Observed(db.devices[d], newest.fields, newest.created_at)

\* A committed run is a complete one: it has a snapshot of every host the
\* scan found, and what it belongs to exists.
RunsComplete ==
  /\ \A r \in DOMAIN db.runs :
       db.runs[r].host_count = Cardinality({i \in DOMAIN db.snaps : db.snaps[i].scan_run_id = r})
  /\ \A i \in DOMAIN db.snaps : /\ db.snaps[i].scan_run_id \in DOMAIN db.runs
                                /\ db.snaps[i].device_id \in DOMAIN db.devices
  /\ \A c \in db.changes : /\ c.scan_run_id \in DOMAIN db.runs
                           /\ c.device_id \in DOMAIN db.devices

\* Once a device is known by a stable MAC, every sighting of that MAC is one
\* of that device, wherever and whenever it shows up.
MacIdentityStable == \A d \in DOMAIN db.devices, i \in DOMAIN db.snaps :
  LET mac == db.snaps[i].fields.mac IN
  /\ mac # None /\ mac = db.devices[d].primary_mac
  /\ \E j \in SnapIds(db, d) : j <= i
  => db.snaps[i].device_id = d

\* A device last seen longer than the grace period ago is not recognised by
\* its address alone: consecutive snapshots of one device that are further
\* apart share its stable MAC.
GraceRespected == \A i, j \in DOMAIN db.snaps :
  LET a == db.snaps[i]  b == db.snaps[j] IN
  /\ i < j /\ a.device_id = b.device_id
  /\ \A k \in SnapIds(db, a.device_id) : k <= i \/ j <= k
  /\ b.created_at > a.created_at + GraceDays
  => b.fields.mac # None /\ b.fields.mac = db.devices[b.device_id].primary_mac

-----------------------------------------------------------------------------
(* The change history explains the snapshots. *)

FieldsIn(d, device, runs) ==
  LET ids == {i \in SnapIds(d, device) : d.snaps[i].scan_run_id \in runs}
  IN  IF ids = {} THEN None ELSE d.snaps[Greatest(ids)].fields

EventsOf(run, device) ==
  {c.change : c \in {e \in ChangesOfRun(db, run) : e.device_id = device}}

\* Applied to the old fields, the events give the new ones: a missing event
\* means an equal value, an event carries both values, and members of the two
\* sets come and go one event each.  A MAC may be missed without an event.
Patches(events, old, new) ==
  LET On(field) == {e \in events : e.field = field} IN
  /\ \A field \in {"ip", "mac", "hostname", "vendor", "os_guess", "snmp_sysdescr"} :
       IF On(field) = {} THEN new[field] \in {old[field]} \cup (IF field = "mac" THEN {None} ELSE {})
       ELSE /\ \A e \in On(field) : e.old_value = old[field] /\ e.new_value = new[field]
            /\ Cardinality(On(field)) = 1
            /\ old[field] # new[field]
  /\ \A field \in {"open_ports", "services"} :
       LET gone == {e.old_value : e \in On(field)} \ {None}
           come == {e.new_value : e \in On(field)} \ {None}
       IN  /\ gone \subseteq old[field] /\ come \cap old[field] = {}
           /\ new[field] = (old[field] \ gone) \cup come

\* For every run and device, the recorded events lead from what was last
\* known of the device to what the run saw, with new_device on the first
\* sighting and device_gone on an absence.
EventsReplay == \A run \in DOMAIN db.runs, device \in DOMAIN db.devices :
  LET old    == FieldsIn(db, device, 1..(run - 1))
      new    == FieldsIn(db, device, {run})
      events == EventsOf(run, device)
  IN  CASE old = None /\ new = None -> events = {}
        [] old = None /\ new # None -> events = {NewDevice}
        [] old # None /\ new = None -> events = {DeviceGone}
        [] OTHER -> Patches(events, old, new)

-----------------------------------------------------------------------------
(* What a step may never do. *)

\* A pinned baseline may move to another run, and is never lost: not by a
\* failure between clearing the old one and setting the new one.
BaselineKept == [][BaselineRuns(db) # {} => BaselineRuns(db') # {}]_vars

\* The history of old is in new: nothing but a baseline mark and the last
\* known state of a device differs in a row, no event joins a run of old.
Extends(old, new) ==
  /\ \A r \in DOMAIN old.runs :
       /\ r \in DOMAIN new.runs
       /\ new.runs[r].started_at = old.runs[r].started_at
       /\ new.runs[r].host_count = old.runs[r].host_count
       /\ ChangesOfRun(new, r) = ChangesOfRun(old, r)
  /\ \A i \in DOMAIN old.snaps : i \in DOMAIN new.snaps /\ new.snaps[i] = old.snaps[i]
  /\ \A d \in DOMAIN old.devices :
       /\ d \in DOMAIN new.devices
       /\ new.devices[d].primary_mac = old.devices[d].primary_mac
       /\ new.devices[d].first_seen = old.devices[d].first_seen

\* What is committed stays: no step of any session takes back a run, a
\* snapshot, an identity, or adds an event to a run that was visible before.
HistoryAppendOnly == [][Extends(db, db')]_vars

\* The committed database is a ledger of scans: each run with what it last
\* saw of every device and the events it recorded, and the baseline.  A run
\* enters it in one step, whatever the sessions do meanwhile.
SeenDevices(run) ==
  {d \in DOMAIN db.devices : \E i \in SnapIds(db, d) : db.snaps[i].scan_run_id = run}

Ledger == INSTANCE InventoryLedger WITH
  ledger <- [run \in DOMAIN db.runs |->
     [seen   |-> [d \in SeenDevices(run) |-> FieldsIn(db, d, {run})],
      events |-> {[device_id |-> c.device_id, change |-> c.change] : c \in ChangesOfRun(db, run)}]],
  baseline <- IF BaselineRuns(db) = {} THEN 0 ELSE Greatest(BaselineRuns(db))

ImplementsLedger == Ledger!LedgerSpec

-----------------------------------------------------------------------------
(* Why these hold: the state of a transaction, an inductive invariant. *)

\* Exactly the sessions inside a transaction hold the lock; outside, there is
\* nothing uncommitted.
LockInv ==
  /\ \A s \in Sessions : lock = s <=> pc[s] \in Writing
  /\ lock = NoSession => tx = db

\* The run being persisted is the first one nobody else sees; the run being
\* pinned exists.
RunInv == \A s \in Sessions :
  /\ pc[s] \in {"hosts", "commit_run"} =>
       job[s].run = Len(db.runs) + 1 /\ Len(tx.runs) = Len(db.runs) + 1
  /\ pc[s] \in {"clear_baseline", "set_baseline"} => job[s].run \in DOMAIN db.runs

\* Between the two updates of mark_baseline there is no baseline; apart from
\* that a transaction has one if there was one.
BaselineInv ==
  /\ OneBaseline(db) /\ OneBaseline(tx)
  /\ \A s \in Sessions : pc[s] = "set_baseline" => BaselineRuns(tx) = {}
  /\ BaselineRuns(db) # {} => BaselineRuns(tx) # {} \/ \E s \in Sessions : pc[s] = "set_baseline"

\* What a transaction holds is ready to be committed at any time, as far as
\* the history and the identities are concerned.
TransactionInv ==
  /\ LockInv /\ RunInv /\ BaselineInv
  /\ Extends(db, tx)
  /\ MacsDistinct(db) /\ MacsDistinct(tx)

-----------------------------------------------------------------------------
(* Reports. *)

\* A report shows the runs it covers whole, although the run and its events
\* are read by separate statements while other sessions commit.
ReportWhole == \A s \in Sessions : Reporting(s) =>
  LET j == job[s] IN
  /\ \A r \in {c.scan_run_id : c \in j.changes} :
       r >= j.run /\ ChangesOfRun(db, r) \subseteq j.changes
  /\ j.run # 0 => ChangesOfRun(db, j.run) \subseteq j.changes
  /\ j.changes \subseteq db.changes

\* Every change in a report asked for names a device the report can show:
\* the devices are read after the events.
ReportResolved == \A s \in Sessions :
  Reporting(s) /\ job[s].errand \in {"last", "since"} =>
    {c.device_id : c \in job[s].changes} \subseteq job[s].known

-----------------------------------------------------------------------------
(* Liveness. *)

\* Whatever a session was asked to do comes to an end, although it may have
\* to wait for the write lock and others keep taking it.
JobsFinish == \A s \in Sessions : pc[s] # "idle" ~> pc[s] = "idle"

-----------------------------------------------------------------------------
(* What the documents and tests say, and the code does otherwise. *)

SeenIn(run) ==
  {db.snaps[i].fields : i \in {k \in DOMAIN db.snaps : db.snaps[k].scan_run_id = run}}

\* tests/test_service_e2e.py:90-109: an unchanged rescan produces no changes.
UnchangedRescanSilent == \A run \in DOMAIN db.runs :
  run > 1 /\ SeenIn(run) = SeenIn(run - 1) => ChangesOfRun(db, run) = {}

\* service.py:156-157: the primary key of a device is a non-randomized MAC, so
\* two hosts of one scan with different ones are two devices.
StableMacsApart == \A i, j \in DOMAIN db.snaps :
  /\ db.snaps[i].scan_run_id = db.snaps[j].scan_run_id
  /\ HasStableMac(db.snaps[i].fields) /\ HasStableMac(db.snaps[j].fields)
  /\ db.snaps[i].fields.mac # db.snaps[j].fields.mac
  => db.snaps[i].device_id # db.snaps[j].device_id

=============================================================================
