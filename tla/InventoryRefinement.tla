-------------------------- MODULE InventoryRefinement --------------------------
(***************************************************************************)
(* Proofs that the tables are a ledger of scans: a run enters the history  *)
(* in one step, with the changes that follow from what was known before,   *)
(* although it is written by dozens of statements among other sessions'.   *)
(***************************************************************************)
EXTENDS InventoryHistory

-----------------------------------------------------------------------------
(* What a database says of a run. *)

IdsOf(d, e, runs) == {i \in SnapIds(d, e) : d.snaps[i].scan_run_id \in runs}

FieldsOf(d, runs) == [e \in {x \in DOMAIN d.devices : IdsOf(d, x, runs) # {}} |->
                        d.snaps[Greatest(IdsOf(d, e, runs))].fields]

\* What a run saw last of every device it saw, what was last known of every
\* device before it, and the events it recorded.
Seen(d, run)   == FieldsOf(d, {run})
Known(d, run)  == FieldsOf(d, 1..(run - 1))
Events(d, run) == {[device_id |-> c.device_id, change |-> c.change] : c \in ChangesOfRun(d, run)}

\* The events of every run follow from what it saw and what was known.
Explained(d) == \A run \in DOMAIN d.runs :
  Events(d, run) = DiffDevices(Known(d, run), Seen(d, run))

\* Snapshots are in the order of their runs.
Ordered(d) == \A i, j \in DOMAIN d.snaps :
  i <= j => d.snaps[i].scan_run_id <= d.snaps[j].scan_run_id

\* No snapshot of new belongs to a run of old but those that old has.
NewOnly(old, new) == \A i \in DOMAIN new.snaps \ DOMAIN old.snaps :
  new.snaps[i].scan_run_id \notin DOMAIN old.runs

-----------------------------------------------------------------------------

\* What was said of runs is said of them in every extension.
LEMMA SameFields ==
  ASSUME NEW old, NEW new, IsDb(old), RefsOk(old), Extends(old, new), NewOnly(old, new),
         NEW runs \in SUBSET DOMAIN old.runs
  PROVE  FieldsOf(new, runs) = FieldsOf(old, runs)
  <1>1. /\ \A i \in DOMAIN old.snaps : i \in DOMAIN new.snaps /\ new.snaps[i] = old.snaps[i]
        /\ DOMAIN old.devices \subseteq DOMAIN new.devices
    BY DEF Extends
  <1>2. \A e : IdsOf(new, e, runs) = IdsOf(old, e, runs)
    BY <1>1 DEF IdsOf, SnapIds, NewOnly
  <1>3. \A e, i : i \in IdsOf(old, e, runs) => e \in DOMAIN old.devices /\ i \in DOMAIN old.snaps
    BY DEF IdsOf, SnapIds, RefsOk
  <1>4. {e \in DOMAIN new.devices : IdsOf(new, e, runs) # {}}
          = {e \in DOMAIN old.devices : IdsOf(old, e, runs) # {}}
    BY <1>1, <1>2, <1>3
  <1>5. ASSUME NEW e \in DOMAIN old.devices, IdsOf(old, e, runs) # {}
        PROVE  new.snaps[Greatest(IdsOf(old, e, runs))] = old.snaps[Greatest(IdsOf(old, e, runs))]
    <2>1. Len(old.snaps) \in Nat /\ DOMAIN old.snaps = 1..Len(old.snaps)
      BY TableTypes, LenProperties
    <2>2. Greatest(IdsOf(old, e, runs)) \in IdsOf(old, e, runs)
      BY <1>3, <1>5, <2>1, GreatestProperties
    <2> QED
      BY <1>1, <1>3, <2>2
  <1> QED
    BY <1>2, <1>4, <1>5 DEF FieldsOf

LEMMA SameHistory ==
  ASSUME NEW old, NEW new, IsDb(old), RefsOk(old), Extends(old, new), NewOnly(old, new),
         NEW run \in DOMAIN old.runs
  PROVE  /\ Seen(new, run) = Seen(old, run) /\ Known(new, run) = Known(old, run)
         /\ Events(new, run) = Events(old, run)
  <1>1. ChangesOfRun(new, run) = ChangesOfRun(old, run)
    BY DEF Extends
  <1>2. {run} \subseteq DOMAIN old.runs /\ 1..(run - 1) \subseteq DOMAIN old.runs
    BY TableTypes, LenProperties
  <1> QED
    BY <1>1, <1>2, SameFields DEF Seen, Known, Events

\* Functions that say the same of the same devices.
Agree(f, g) == DOMAIN f = DOMAIN g /\ \A e \in DOMAIN f : f[e] = g[e]

LEMMA DiffDevicesAgree ==
  ASSUME NEW previous, NEW p, NEW current1, NEW c, Agree(previous, p), Agree(current1, c)
  PROVE  DiffDevices(previous, current1) = DiffDevices(p, c)
  BY DEF Agree, DiffDevices

\* What the newest run is compared with is what was known before it.
LEMMA LatestIsKnown ==
  ASSUME NEW d, IsDb(d), RefsOk(d), NEW run, run = Len(d.runs)
  PROVE  LatestSnapshotPerDevice(d, run) = Known(d, run)
  <1>1. run \in Nat /\ DOMAIN d.runs = 1..run
    BY TableTypes, LenProperties
  <1>2. \A e : {i \in SnapIds(d, e) : d.snaps[i].scan_run_id # run} = IdsOf(d, e, 1..(run - 1))
    BY <1>1 DEF IdsOf, SnapIds, RefsOk
  <1> QED
    BY <1>2 DEF LatestSnapshotPerDevice, Known, FieldsOf

\* Persisting a host adds its device to what the run saw.
LEMMA RecordedSeen ==
  ASSUME NEW d, NEW new, NEW host, NEW run, NEW device, NEW fields, NEW now, NEW day,
         Recorded(d, new, host, run, device, fields, now, day),
         NEW seen, Agree(seen, Seen(d, run))
  PROVE  Agree(Upsert(seen, device, fields), Seen(new, run))
  <1> DEFINE n == Len(d.snaps) + 1
  <1>1. /\ n \in Nat /\ DOMAIN new.snaps = DOMAIN d.snaps \cup {n} /\ n \notin DOMAIN d.snaps
        /\ \A i \in DOMAIN new.snaps : i \in Nat /\ i <= n
        /\ \A i \in DOMAIN d.snaps : new.snaps[i] = d.snaps[i]
        /\ new.snaps[n].device_id = device /\ new.snaps[n].scan_run_id = run
        /\ new.snaps[n].fields = fields
        /\ DOMAIN new.devices = DOMAIN d.devices \cup {device}
        /\ DOMAIN d.snaps = 1..(n - 1) /\ DOMAIN new.snaps = 1..n
    BY RecordedIds DEF Recorded
  <1> HIDE DEF n
  <1>2. /\ \A e : e # device => IdsOf(new, e, {run}) = IdsOf(d, e, {run})
        /\ IdsOf(new, device, {run}) = IdsOf(d, device, {run}) \cup {n}
    BY <1>1 DEF IdsOf, SnapIds
  <1>3. Greatest(IdsOf(new, device, {run})) = n
    <2>1. IdsOf(new, device, {run}) \in SUBSET (1..n) /\ n \in IdsOf(new, device, {run})
      BY <1>1, <1>2 DEF IdsOf, SnapIds
    <2>2. /\ Greatest(IdsOf(new, device, {run})) \in IdsOf(new, device, {run})
          /\ Greatest(IdsOf(new, device, {run})) >= n
      BY <1>1, <2>1, GreatestProperties
    <2>3. Greatest(IdsOf(new, device, {run})) \in 1..n
      BY <2>1, <2>2
    <2> HIDE DEF n
    <2> QED
      BY <1>1, <2>2, <2>3
  <1>4. ASSUME NEW e, e # device, e \in DOMAIN Seen(d, run)
        PROVE  new.snaps[Greatest(IdsOf(d, e, {run}))] = d.snaps[Greatest(IdsOf(d, e, {run}))]
    <2>1. IdsOf(d, e, {run}) \in SUBSET (1..(n - 1)) /\ IdsOf(d, e, {run}) # {} /\ n - 1 \in Nat
      BY <1>1, <1>4 DEF IdsOf, SnapIds, Seen, FieldsOf
    <2> QED
      BY <1>1, <2>1, GreatestProperties
  <1>5. /\ DOMAIN Seen(d, run) = {e \in DOMAIN d.devices : IdsOf(d, e, {run}) # {}}
        /\ DOMAIN Seen(new, run) = {e \in DOMAIN new.devices : IdsOf(new, e, {run}) # {}}
    BY DEF Seen, FieldsOf
  <1>6. DOMAIN Seen(new, run) = DOMAIN Seen(d, run) \cup {device}
    BY <1>1, <1>2, <1>5
  <1>7. \A e \in DOMAIN Seen(d, run) \ {device} : Seen(new, run)[e] = Seen(d, run)[e]
    BY <1>1, <1>2, <1>4, <1>5, <1>6 DEF Seen, FieldsOf
  <1>8. Seen(new, run)[device] = fields
    BY <1>1, <1>3, <1>6 DEF Seen, FieldsOf
  <1> QED
    BY <1>6, <1>7, <1>8 DEF Agree, Upsert

\* The new snapshot is of the newest run: it keeps the order, and leaves the
\* runs that were there alone.
LEMMA RecordedOrdered ==
  ASSUME NEW base, NEW d, NEW new, NEW host, NEW run, NEW device, NEW fields, NEW now, NEW day,
         Recorded(d, new, host, run, device, fields, now, day),
         Ordered(d), NewOnly(base, d), IsDb(d), RefsOk(d), run = Len(d.runs),
         run \notin DOMAIN base.runs
  PROVE  Ordered(new) /\ NewOnly(base, new)
  <1> DEFINE n == Len(d.snaps) + 1
  <1>1. /\ n \in Nat /\ DOMAIN new.snaps = DOMAIN d.snaps \cup {n}
        /\ \A i \in DOMAIN new.snaps : i \in Nat /\ i <= n
        /\ \A i \in DOMAIN d.snaps : new.snaps[i] = d.snaps[i]
        /\ new.snaps[n].scan_run_id = run
    BY RecordedIds DEF Recorded
  <1>2. run \in Nat /\ \A i \in DOMAIN d.snaps : d.snaps[i].scan_run_id \in 1..run /\ i < n
    <2>1. run \in Nat /\ DOMAIN d.runs = 1..run
      BY TableTypes, LenProperties
    <2> QED
      BY <1>1, <2>1, RecordedIds DEF RefsOk
  <1> HIDE DEF n
  <1> QED
    BY <1>1, <1>2 DEF Ordered, NewOnly

\* What finishing a run adds to the tables.
LEMMA FinishTables ==
  ASSUME NEW d, IsDb(d), NEW run \in Nat, NEW count \in Nat, NEW records
  PROVE  LET new == AddChanges(FinishScanRun(d, run, count), run, records)
         IN  /\ new.snaps = d.snaps /\ new.devices = d.devices /\ DOMAIN new.runs = DOMAIN d.runs
             /\ new.changes = d.changes \cup
                  {[scan_run_id |-> run, device_id |-> c.device_id, change |-> c.change] :
                     c \in records}
  <1> DEFINE row == [d.runs[run] EXCEPT !.host_count = count]
             fin == FinishScanRun(d, run, count)
  <1>1. /\ fin.snaps = d.snaps /\ fin.devices = d.devices /\ fin.changes = d.changes /\ IsDb(fin)
        /\ fin.runs = [d.runs EXCEPT ![run] = row]
    BY FinishScanRunType DEF FinishScanRun, IsDb
  <1> QED
    BY <1>1 DEF AddChanges, IsDb

\* Finishing the newest run records what it saw, against what was known.
LEMMA FinishExplains ==
  ASSUME NEW base, NEW d, IsDb(base), IsDb(d), RefsOk(base), RefsOk(d), Extends(base, d),
         NewOnly(base, d), Explained(base), d.changes = base.changes,
         NEW run, run = Len(base.runs) + 1, run = Len(d.runs), NEW count \in Nat,
         NEW seen, Agree(seen, Seen(d, run)),
         NEW records, records = DiffDevices(LatestSnapshotPerDevice(d, run), seen),
         NEW new, new = AddChanges(FinishScanRun(d, run, count), run, records)
  PROVE  Explained(new)
  <1> DEFINE added == {[scan_run_id |-> run, device_id |-> c.device_id, change |-> c.change] :
                         c \in records}
  <1>1. /\ Len(base.runs) \in Nat /\ DOMAIN base.runs = 1..Len(base.runs)
        /\ run \in Nat /\ DOMAIN d.runs = 1..run /\ run \notin DOMAIN base.runs
        /\ DOMAIN d.runs = DOMAIN base.runs \cup {run}
    BY TableTypes, LenProperties
  <1>2. /\ new.snaps = d.snaps /\ new.devices = d.devices /\ DOMAIN new.runs = DOMAIN d.runs
        /\ new.changes = d.changes \cup added
    BY <1>1, FinishTables
  <1>3. Extends(base, new)
    <2>1. Extends(base, AddChanges(FinishScanRun(d, run, count), run, records))
      BY <1>1, FinishEffect
    <2> QED
      BY <2>1
  <1>4. \A c \in records : c = [device_id |-> c.device_id, change |-> c.change]
    BY DEF DiffDevices
  <1>5. Events(new, run) = records
    <2>1. \A c \in d.changes : c.scan_run_id # run
      BY <1>1 DEF RefsOk
    <2>2. \A c \in added : c.scan_run_id = run
      OBVIOUS
    <2>3. ChangesOfRun(new, run) = added
      BY <1>2, <2>1, <2>2 DEF ChangesOfRun
    <2>4. {[device_id |-> c.device_id, change |-> c.change] : c \in added} = records
      <3>1. ASSUME NEW a \in added PROVE [device_id |-> a.device_id, change |-> a.change] \in records
        <4>1. PICK c \in records : a.device_id = c.device_id /\ a.change = c.change
          OBVIOUS
        <4> QED
          BY <1>4, <4>1
      <3>2. ASSUME NEW c \in records
            PROVE  \E a \in added : c = [device_id |-> a.device_id, change |-> a.change]
        <4> DEFINE a == [scan_run_id |-> run, device_id |-> c.device_id, change |-> c.change]
        <4>1. a \in added /\ a.device_id = c.device_id /\ a.change = c.change
          OBVIOUS
        <4> HIDE DEF a, added
        <4> QED
          BY <1>4, <4>1
      <3> HIDE DEF added
      <3> QED
        BY <3>1, <3>2
    <2> QED
      BY <2>3, <2>4 DEF Events
  <1> HIDE DEF added
  <1>6. Seen(new, run) = Seen(d, run) /\ Known(new, run) = Known(d, run)
    BY <1>2 DEF Seen, Known, FieldsOf, IdsOf, SnapIds
  <1>7. records = DiffDevices(Known(new, run), Seen(new, run))
    <2>1. LatestSnapshotPerDevice(d, run) = Known(d, run)
      BY LatestIsKnown
    <2>2. Agree(Known(d, run), Known(d, run))
      BY DEF Agree
    <2> QED
      BY <1>6, <2>1, <2>2, DiffDevicesAgree
  <1>8. NewOnly(base, new)
    BY <1>2 DEF NewOnly
  <1>9. Explained(new)
    <2>1. ASSUME NEW r \in DOMAIN base.runs
          PROVE  Events(new, r) = DiffDevices(Known(new, r), Seen(new, r))
      BY <1>3, <1>8, SameHistory DEF Explained
    <2> QED
      BY <1>1, <1>2, <1>5, <1>7, <2>1 DEF Explained
  <1> QED
    BY <1>9

\* What two databases have in common when only marks of a baseline differ.
SameTables(d, new) ==
  /\ new.snaps = d.snaps /\ new.changes = d.changes /\ new.devices = d.devices
  /\ DOMAIN new.runs = DOMAIN d.runs

LEMMA MarkTables ==
  ASSUME NEW d, IsDb(d), NEW run \in DOMAIN d.runs
  PROVE  /\ SameTables(d, ClearBaseline(d)) /\ SameTables(d, SetBaseline(d, run))
         /\ BaselineRuns(d) = {} => BaselineRuns(SetBaseline(d, run)) # {}
  <1>1. SameTables(d, ClearBaseline(d)) /\ SameTables(d, SetBaseline(d, run))
    BY DEF SameTables, ClearBaseline, SetBaseline, IsDb
  <1> QED
    BY <1>1, SetBaselineEffect

\* They say the same of every run.
LEMMA SameTablesExplained ==
  ASSUME NEW d, NEW new, SameTables(d, new)
  PROVE  /\ Explained(d) => Explained(new)
         /\ \A run : /\ Seen(new, run) = Seen(d, run) /\ Known(new, run) = Known(d, run)
                     /\ Events(new, run) = Events(d, run)
  <1>1. \A run : /\ Seen(new, run) = Seen(d, run) /\ Known(new, run) = Known(d, run)
                 /\ Events(new, run) = Events(d, run)
    BY DEF SameTables, Seen, Known, FieldsOf, IdsOf, SnapIds, Events, ChangesOfRun
  <1> QED
    BY <1>1 DEF SameTables, Explained

-----------------------------------------------------------------------------
(* The invariant: the committed history is explained, and a transaction is *)
(* on the way to an explained one.                                         *)

Tells(label, d, t, j, seen) ==
  /\ label = "hosts" => Agree(seen, Seen(t, j.run)) /\ t.changes = d.changes
  /\ label \in {"hosts", "commit_run"} => BaselineRuns(t) = BaselineRuns(d)
  /\ label = "commit_run" => Explained(t)
  /\ label \in {"set_baseline", "commit_pin"} => SameTables(d, t)
  /\ label = "commit_pin" => BaselineRuns(t) # {}

LedgerInv ==
  /\ Ordered(tx) /\ NewOnly(db, tx) /\ Explained(db)
  /\ \A s \in Sessions : Tells(pc[s], db, tx, job[s], current[s])

LEMMA LedgerInvInit == Init => LedgerInv
  BY DEF Init, LedgerInv, EmptyDb, Ordered, NewOnly, Explained, Tells

\* A step of one session: the others are in no transaction, or nothing
\* happens to the database.
LEMMA OneTeller ==
  ASSUME TypeInv, TransactionInv, LedgerInv, NEW s \in Sessions, NEW label, Goto(s, label),
         \A x \in Sessions \ {s} : job'[x] = job[x] /\ current'[x] = current[x],
         Ordered(tx'), NewOnly(db', tx'), Explained(db'),
         UNCHANGED <<db, tx>> \/ lock \in {s, NoSession},
         Tells(label, db', tx', job'[s], current'[s])
  PROVE  LedgerInv'
  <1>1. pc'[s] = label /\ \A x \in Sessions \ {s} : pc'[x] = pc[x]
    BY AtHand DEF Goto
  <1>2. ASSUME NEW x \in Sessions \ {s} PROVE Tells(pc'[x], db', tx', job'[x], current'[x])
    <2>1. Tells(pc[x], db, tx, job[x], current[x])
      BY DEF LedgerInv
    <2>2. CASE UNCHANGED <<db, tx>>
      BY <1>1, <2>1, <2>2
    <2>3. CASE lock \in {s, NoSession}
      <3>1. pc[x] \notin Writing
        BY <2>3, AtHand, SessionAssumption DEF TransactionInv, LockInv
      <3> QED
        BY <1>1, <3>1 DEF Tells, Writing
    <2> QED
      BY <2>2, <2>3
  <1> QED
    BY <1>1, <1>2 DEF LedgerInv

\* A step of a session that is in no transaction, and starts none.
LEMMA QuietTeller ==
  ASSUME TypeInv, TransactionInv, LedgerInv, NEW s \in Sessions, NEW label, Goto(s, label),
         label \notin Writing, UNCHANGED <<db, tx>>,
         \A x \in Sessions \ {s} : job'[x] = job[x] /\ current'[x] = current[x]
  PROVE  LedgerInv'
  <1>1. Ordered(tx') /\ NewOnly(db', tx') /\ Explained(db')
    BY DEF LedgerInv
  <1>2. Tells(label, db', tx', job'[s], current'[s])
    BY DEF Tells, Writing
  <1> QED
    BY <1>1, <1>2, OneTeller

\* The end of a transaction.
LEMMA LastTeller ==
  ASSUME TypeInv, TransactionInv, LedgerInv, NEW s \in Sessions, NEW label, Goto(s, label),
         label \notin Writing, lock = s, tx' = db', Ordered(db'), Explained(db'),
         \A x \in Sessions \ {s} : job'[x] = job[x] /\ current'[x] = current[x]
  PROVE  LedgerInv'
  <1>1. Ordered(tx') /\ NewOnly(db', tx')
    BY DEF NewOnly
  <1>2. Tells(label, db', tx', job'[s], current'[s])
    BY DEF Tells, Writing
  <1> QED
    BY <1>1, <1>2, OneTeller

LEMMA LedgerInvStep ==
  TypeInv /\ TransactionInv /\ ContentInv /\ LedgerInv /\ [Next]_vars => LedgerInv'
  <1> SUFFICES ASSUME TypeInv, TransactionInv, ContentInv, LedgerInv, [Next]_vars
               PROVE  LedgerInv'
    OBVIOUS
  <1>a. /\ job \in [Sessions -> Job] /\ DOMAIN current = Sessions
        /\ pc \in [Sessions -> Labels] /\ \A s \in Sessions : job[s] \in Job
        /\ IsDb(db) /\ IsDb(tx) /\ today \in Nat
    BY AtHand DEF TypeInv, TypeOK
  <1>b. \A s \in Sessions : lock = s <=> pc[s] \in Writing
    BY DEF TransactionInv, LockInv
  <1>c. /\ Ordered(tx) /\ NewOnly(db, tx) /\ Explained(db) /\ Extends(db, tx) /\ Ordered(db)
        /\ RefsOk(db) /\ RefsOk(tx)
    BY DEF LedgerInv, TransactionInv, ContentInv, Sound, Extends, Ordered
  <1>d. \A s \in Sessions : Tells(pc[s], db, tx, job[s], current[s])
    BY DEF LedgerInv
  <1>1. ASSUME NEW s \in Sessions,
               \/ RequestPersist(s) \/ RequestPin(s) \/ RequestChanges(s) \/ ReadLatestRun(s)
               \/ ReadRun(s) \/ ReadChanges(s) \/ ReadDevices(s) \/ Report(s) \/ LockTimeout(s)
        PROVE  LedgerInv'
    <2>1. UNCHANGED <<db, tx>>
      BY <1>1 DEF RequestPersist, RequestPin, RequestChanges, ReadLatestRun, ReadRun,
             ReadChanges, ReadDevices, ReadNext, Report, LockTimeout
    <2>2. \A x \in Sessions \ {s} : job'[x] = job[x] /\ current'[x] = current[x]
      BY <1>1, <1>a DEF RequestPersist, RequestPin, RequestChanges, ReadLatestRun, ReadRun,
             ReadChanges, ReadDevices, ReadNext, Report, LockTimeout, Return
    <2>3. PICK label : label \notin Writing /\ Goto(s, label)
      <3>1. CASE ReadRun(s) \/ ReadChanges(s) \/ ReadDevices(s)
        BY <1>a, <3>1 DEF ReadRun, ReadChanges, ReadDevices, ReadNext, Goto, Writing
      <3>2. CASE RequestPersist(s) \/ RequestPin(s) \/ RequestChanges(s) \/ ReadLatestRun(s)
                 \/ Report(s) \/ LockTimeout(s)
        BY <3>2 DEF RequestPersist, RequestPin, RequestChanges, ReadLatestRun, Report,
               LockTimeout, Return, Writing
      <3> QED
        BY <1>1, <3>1, <3>2
    <2> QED
      BY <2>1, <2>2, <2>3, QuietTeller
  <1>2. ASSUME NEW s \in Sessions, BeginRun(s) PROVE LedgerInv'
    <2> DEFINE j == [[job[s] EXCEPT !.run = Len(db.runs) + 1] EXCEPT !.next = 1]
    <2>1. /\ pc[s] = "begin" /\ lock = NoSession /\ Goto(s, "hosts")
          /\ tx' = CreateScanRun(db, job[s].now) /\ UNCHANGED <<db, current>>
          /\ job' = [job EXCEPT ![s] = j]
      BY <1>2, <1>a DEF BeginRun, AcquireLock, Job
    <2>2. job[s].now \in Nat /\ j.run = Len(db.runs) + 1
      BY <1>a DEF Job
    <2> HIDE DEF j
    <2>3. /\ tx'.snaps = db.snaps /\ tx'.changes = db.changes /\ tx'.devices = db.devices
          /\ BaselineRuns(tx') = BaselineRuns(db)
      BY <1>a, <2>1, <2>2, CreateScanRunEffect DEF CreateScanRun, IsDb
    <2>4. Ordered(tx') /\ NewOnly(db, tx')
      BY <1>c, <2>3 DEF Ordered, NewOnly
    <2>5. DOMAIN current[s] = {}
      BY <2>1 DEF ContentInv, SessionOk
    <2>6. DOMAIN Seen(tx', j.run) = {}
      <3>1. j.run \notin DOMAIN db.runs
        BY <2>2, AtHand
      <3> QED
        BY <1>c, <2>3, <3>1 DEF Seen, FieldsOf, IdsOf, SnapIds, RefsOk
    <2>7. Tells("hosts", db, tx', j, current[s])
      BY <2>3, <2>5, <2>6 DEF Tells, Agree
    <2>8. job'[s] = j /\ \A x \in Sessions \ {s} : job'[x] = job[x]
      BY <1>a, <2>1
    <2> QED
      BY <1>c, <2>1, <2>4, <2>7, <2>8, OneTeller
  <1>3. ASSUME NEW s \in Sessions, PersistHost(s) PROVE LedgerInv'
    <2> DEFINE j      == job[s]
               host   == j.scan.hosts[j.next]
               device == ResolvedDevice(tx, host, today)
               fields == ObservedFields(host, j.scan.services)
               more   == [j EXCEPT !.next = @ + 1]
    <2>1. fields \in Observations /\ host.mac \in Values("mac")
      BY <1>3, HostAtHand DEF PersistHost
    <2>2. j.now \in Nat /\ j.run \in Nat /\ more.run = j.run
      BY <1>a DEF Job
    <2>3. /\ pc[s] = "hosts" /\ pc' = pc /\ UNCHANGED db
          /\ tx' = AddSnapshot(Resolved(tx, host, j.now, today), j.run, device, fields, j.now)
          /\ job' = [job EXCEPT ![s] = more]
          /\ current' = [current EXCEPT ![s] = Upsert(current[s], device, fields)]
      BY <1>3 DEF PersistHost
    <2>4. j.run = Len(tx.runs) /\ j.run \notin DOMAIN db.runs
      <3>1. j.run = Len(db.runs) + 1 /\ Len(tx.runs) = Len(db.runs) + 1
        BY <2>3 DEF TransactionInv, RunInv
      <3> QED
        BY <3>1, AtHand
    <2>5. /\ Agree(current[s], Seen(tx, j.run)) /\ tx.changes = db.changes
          /\ BaselineRuns(tx) = BaselineRuns(db)
      BY <1>d, <2>3 DEF Tells
    <2> HIDE DEF host, fields, device, more, j
    <2>6. Recorded(tx, tx', host, j.run, device, fields, j.now, today)
      BY <1>a, <2>1, <2>2, <2>3, PersistRecords DEF device
    <2>7. Ordered(tx') /\ NewOnly(db, tx')
      BY <1>a, <1>c, <2>4, <2>6, RecordedOrdered
    <2>8. Agree(Upsert(current[s], device, fields), Seen(tx', j.run))
      BY <2>5, <2>6, RecordedSeen
    <2>9. tx'.changes = db.changes /\ BaselineRuns(tx') = BaselineRuns(db)
      BY <2>5, <2>6 DEF Recorded, BaselineRuns
    <2>10. /\ job'[s] = more /\ current'[s] = Upsert(current[s], device, fields)
           /\ \A x \in Sessions \ {s} : job'[x] = job[x] /\ current'[x] = current[x]
      BY <1>a, <2>3
    <2>11. Tells("hosts", db, tx', job'[s], current'[s])
      BY <2>2, <2>8, <2>9, <2>10 DEF Tells
    <2>12. Goto(s, "hosts") /\ lock = s
      BY <1>a, <1>b, <2>3 DEF Writing, Goto
    <2> QED
      BY <1>c, <2>3, <2>7, <2>10, <2>11, <2>12, OneTeller
  <1>4. ASSUME NEW s \in Sessions, FinishRun(s) PROVE LedgerInv'
    <2> DEFINE j       == job[s]
               count   == Len(j.scan.hosts)
               records == DiffDevices(LatestSnapshotPerDevice(tx, j.run), current[s])
    <2>1. /\ pc[s] = "hosts" /\ Goto(s, "commit_run")
          /\ tx' = AddChanges(FinishScanRun(tx, j.run, count), j.run, records)
          /\ UNCHANGED <<db, job, current>>
      BY <1>4 DEF FinishRun
    <2>2. j.run = Len(db.runs) + 1 /\ j.run = Len(tx.runs)
      BY <2>1 DEF TransactionInv, RunInv
    <2>3. count \in Nat
      <3>1. j.scan \in Scans
        BY <2>1 DEF TypeInv, Supplied, Persisting
      <3> QED
        BY <3>1, ScansAssumption, LenProperties
    <2>4. /\ Agree(current[s], Seen(tx, j.run)) /\ tx.changes = db.changes
          /\ BaselineRuns(tx) = BaselineRuns(db)
      BY <1>d, <2>1 DEF Tells
    <2>5. records = DiffDevices(LatestSnapshotPerDevice(tx, j.run), current[s])
      OBVIOUS
    <2> HIDE DEF count, j, records
    <2>6. tx'.snaps = tx.snaps /\ BaselineRuns(tx') = BaselineRuns(tx)
      <3>1. j.run \in Nat /\ j.run \notin DOMAIN db.runs
        BY <2>2, AtHand
      <3>2. tx'.snaps = tx.snaps
        BY <1>a, <2>1, <2>3, <3>1, FinishTables
      <3>3. Extends(db, tx') /\ BaselineRuns(tx') = BaselineRuns(tx)
        BY <1>a, <1>c, <2>1, <2>3, <3>1, FinishEffect
      <3> QED
        BY <3>2, <3>3
    <2>7. Explained(tx')
      <3>1. /\ tx' = AddChanges(FinishScanRun(tx, j.run, count), j.run, records)
            /\ RefsOk(db) /\ RefsOk(tx) /\ Extends(db, tx) /\ NewOnly(db, tx) /\ Explained(db)
            /\ tx.changes = db.changes /\ Agree(current[s], Seen(tx, j.run))
            /\ IsDb(db) /\ IsDb(tx)
        BY <1>a, <1>c, <2>1, <2>4
      <3> QED
        BY <2>2, <2>3, <2>5, <3>1, FinishExplains, Zenon
    <2>8. Ordered(tx') /\ NewOnly(db, tx')
      BY <1>c, <2>6 DEF Ordered, NewOnly
    <2>9. Tells("commit_run", db, tx', job'[s], current'[s])
      BY <2>4, <2>6, <2>7 DEF Tells
    <2>10. lock = s
      BY <1>b, <2>1 DEF Writing
    <2> QED
      BY <1>c, <2>1, <2>8, <2>9, <2>10, OneTeller
  <1>5. ASSUME NEW s \in Sessions, CommitRun(s) \/ CommitPin(s) PROVE LedgerInv'
    <2>1. lock = s /\ db' = tx /\ tx' = tx
      BY <1>5, <1>b DEF CommitRun, CommitPin, Writing
    <2>2. Explained(tx)
      <3>1. CASE CommitRun(s)
        BY <1>d, <3>1 DEF CommitRun, Tells
      <3>2. CASE CommitPin(s)
        <4>1. SameTables(db, tx)
          BY <1>d, <3>2 DEF CommitPin, Tells
        <4> QED
          BY <1>c, <4>1, SameTablesExplained
      <3> QED
        BY <1>5, <3>1, <3>2
    <2>3. \A x \in Sessions \ {s} : job'[x] = job[x] /\ current'[x] = current[x]
      BY <1>5, <1>a DEF CommitRun, CommitPin, Return
    <2>4. PICK label : label \notin Writing /\ Goto(s, label)
      BY <1>5 DEF CommitRun, CommitPin, Return, Writing
    <2> QED
      BY <1>c, <2>1, <2>2, <2>3, <2>4, LastTeller
  <1>6. ASSUME NEW s \in Sessions, ClearBaselines(s) PROVE LedgerInv'
    <2>1. /\ lock = NoSession /\ Goto(s, "set_baseline") /\ pc[s] = "clear_baseline"
          /\ tx' = ClearBaseline(db) /\ UNCHANGED <<db, job, current>>
      BY <1>6 DEF ClearBaselines, AcquireLock
    <2>2. SameTables(db, tx')
      BY <1>a, <2>1, MarkTables DEF TransactionInv, RunInv
    <2>3. Ordered(tx') /\ NewOnly(db, tx')
      BY <1>c, <2>2 DEF SameTables, Ordered, NewOnly
    <2>4. Tells("set_baseline", db, tx', job'[s], current'[s])
      BY <2>2 DEF Tells
    <2> QED
      BY <1>c, <2>1, <2>3, <2>4, OneTeller
  <1>7. ASSUME NEW s \in Sessions, MarkBaseline(s) PROVE LedgerInv'
    <2>1. /\ pc[s] = "set_baseline" /\ Goto(s, "commit_pin")
          /\ tx' = SetBaseline(tx, job[s].run) /\ UNCHANGED <<db, job, current>>
      BY <1>7 DEF MarkBaseline
    <2>2. job[s].run \in DOMAIN tx.runs /\ BaselineRuns(tx) = {} /\ lock = s
      <3>1. job[s].run \in DOMAIN db.runs
        BY <2>1 DEF TransactionInv, RunInv
      <3> QED
        BY <1>b, <2>1, <3>1, AtHand DEF TransactionInv, BaselineInv, Writing
    <2>3. SameTables(tx, tx') /\ BaselineRuns(tx') # {}
      BY <1>a, <2>1, <2>2, MarkTables
    <2>4. SameTables(db, tx')
      BY <1>d, <2>1, <2>3 DEF Tells, SameTables
    <2>5. Ordered(tx') /\ NewOnly(db, tx')
      BY <1>c, <2>3 DEF SameTables, Ordered, NewOnly
    <2>6. Tells("commit_pin", db, tx', job'[s], current'[s])
      BY <2>3, <2>4 DEF Tells
    <2> QED
      BY <1>c, <2>1, <2>2, <2>5, <2>6, OneTeller
  <1>8. ASSUME NEW s \in Sessions, Fail(s) PROVE LedgerInv'
    <2>1. /\ db' = db /\ Goto(s, "idle") /\ "idle" \notin Writing
          /\ \A x \in Sessions \ {s} : job'[x] = job[x] /\ current'[x] = current[x]
      BY <1>8, <1>a DEF Fail, Return, Writing
    <2>2. CASE lock = s
      <3>1. tx' = db
        BY <1>8, <2>2 DEF Fail
      <3> QED
        BY <1>c, <2>1, <2>2, <3>1, LastTeller
    <2>3. CASE lock # s
      <3>1. tx' = tx
        BY <1>8, <2>3 DEF Fail
      <3> QED
        BY <2>1, <3>1, QuietTeller
    <2> QED
      BY <2>2, <2>3
  <1>9. CASE Tick \/ UNCHANGED vars
    BY <1>9 DEF Tick, vars, LedgerInv
  <1> QED
    BY <1>1, <1>2, <1>3, <1>4, <1>5, <1>6, <1>7, <1>8, <1>9 DEF Next, Request, Work

\* All invariants hold in every reachable state.
LEMMA LedgerHolds == Spec => [](TypeInv /\ TransactionInv /\ ContentInv /\ LedgerInv)
  <1>1. Init => LedgerInv
    BY LedgerInvInit
  <1>2. TypeInv /\ TransactionInv /\ ContentInv /\ LedgerInv /\ [Next]_vars => LedgerInv'
    BY LedgerInvStep
  <1> QED
    BY <1>1, <1>2, ContentHolds, PTL DEF Spec

-----------------------------------------------------------------------------
(* The refinement. *)

\* The ledger of a database.
Entries(d) == [run \in DOMAIN d.runs |-> [seen |-> Seen(d, run), events |-> Events(d, run)]]

\* Both specifications derive changes in the same way.
LEMMA SameDiff == \A p, c : Ledger!DiffDevices(p, c) = DiffDevices(p, c)
  BY DEF Ledger!DiffDevices, DiffDevices, Ledger!DiffSnapshots, DiffSnapshots,
         Ledger!NewDevice, NewDevice, Ledger!DeviceGone, DeviceGone, Ledger!Change, Change,
         Ledger!FieldChange, FieldChange, Ledger!Added, Added, Ledger!Removed, Removed

LEMMA EntriesLength ==
  ASSUME NEW d, IsDb(d)
  PROVE  /\ DOMAIN Entries(d) = DOMAIN d.runs /\ Len(Entries(d)) = Len(d.runs)
         /\ \A run \in DOMAIN d.runs : /\ Entries(d)[run].seen = Seen(d, run)
                                       /\ Entries(d)[run].events = Events(d, run)
  <1> DEFINE S == {Entries(d)[run] : run \in DOMAIN d.runs}
  <1>1. Len(d.runs) \in Nat /\ DOMAIN d.runs = 1..Len(d.runs)
    BY TableTypes, LenProperties
  <1>2. Entries(d) \in [1..Len(d.runs) -> S] /\ DOMAIN Entries(d) = DOMAIN d.runs
    BY <1>1 DEF Entries
  <1> HIDE DEF S
  <1>3. Entries(d) \in Seq(S)
    BY <1>1, <1>2, SeqDef
  <1>4. Len(Entries(d)) = Len(d.runs)
    BY <1>1, <1>2, <1>3, LenProperties
  <1> QED
    BY <1>2, <1>4 DEF Entries

\* The ledger's notion of what is last known of a device: what the newest
\* run that saw it saw of it.
LEMMA LastKnownIs ==
  ASSUME NEW d, IsDb(d), RefsOk(d), Ordered(d)
  PROVE  LET Runs(e) == {i \in DOMAIN Entries(d) : e \in DOMAIN Entries(d)[i].seen}
         IN  [e \in UNION {DOMAIN Entries(d)[i].seen : i \in DOMAIN Entries(d)} |->
                Entries(d)[Greatest(Runs(e))].seen[e]] = FieldsOf(d, 1..Len(d.runs))

  <1> DEFINE count   == Len(d.runs)
             rows    == Len(d.snaps)
             Runs(e) == {i \in DOMAIN Entries(d) : e \in DOMAIN Entries(d)[i].seen}
             Ids(e)  == IdsOf(d, e, 1..count)
             devices == {e \in DOMAIN d.devices : Ids(e) # {}}
  <1>1. /\ count \in Nat /\ DOMAIN d.runs = 1..count /\ rows \in Nat /\ DOMAIN d.snaps = 1..rows
        /\ DOMAIN Entries(d) = 1..count
        /\ \A run \in 1..count : Entries(d)[run].seen = Seen(d, run)
    BY TableTypes, LenProperties, EntriesLength
  <1>2. \A i \in DOMAIN d.snaps : d.snaps[i].scan_run_id \in 1..count
    BY <1>1 DEF RefsOk
  <1> HIDE DEF count, rows
  <1>3. \A e : Runs(e) = {i \in 1..count : e \in DOMAIN d.devices /\ IdsOf(d, e, {i}) # {}}
    <2>1. \A i : DOMAIN Seen(d, i) = {x \in DOMAIN d.devices : IdsOf(d, x, {i}) # {}}
      BY DEF Seen, FieldsOf
    <2>2. \A e : \A i \in 1..count : e \in DOMAIN Entries(d)[i].seen
                                   <=> e \in DOMAIN d.devices /\ IdsOf(d, e, {i}) # {}
      BY <1>1, <2>1
    <2> QED
      BY <1>1, <2>2
  <1>4. UNION {DOMAIN Entries(d)[i].seen : i \in DOMAIN Entries(d)} = devices
    <2>1. \A e, i : i \in IdsOf(d, e, 1..count) => i \in IdsOf(d, e, {d.snaps[i].scan_run_id})
      BY DEF IdsOf
    <2>2. \A e : \A i \in 1..count : IdsOf(d, e, {i}) \subseteq IdsOf(d, e, 1..count)
      BY DEF IdsOf
    <2>3. \A e, i : i \in IdsOf(d, e, 1..count) => d.snaps[i].scan_run_id \in 1..count
      BY DEF IdsOf
    <2>4. \A e : e \in UNION {DOMAIN Entries(d)[i].seen : i \in DOMAIN Entries(d)} <=> Runs(e) # {}
      OBVIOUS
    <2>5. ASSUME NEW e PROVE Runs(e) # {} <=> e \in devices
      <3>1. ASSUME NEW i \in Runs(e) PROVE e \in devices
        <4>1. e \in DOMAIN d.devices /\ IdsOf(d, e, {i}) # {} /\ i \in 1..count
          BY <1>3
        <4> QED
          BY <2>2, <4>1
      <3>2. ASSUME e \in devices PROVE Runs(e) # {}
        <4>1. PICK i : i \in IdsOf(d, e, 1..count) /\ e \in DOMAIN d.devices
          BY <3>2
        <4>2. d.snaps[i].scan_run_id \in Runs(e)
          BY <1>3, <2>1, <2>3, <4>1
        <4> QED
          BY <4>2
      <3> QED
        BY <3>1, <3>2
    <2> HIDE DEF devices, Runs
    <2> QED
      BY <2>4, <2>5
  <1>5. ASSUME NEW e \in devices
        PROVE  Entries(d)[Greatest(Runs(e))].seen[e] = d.snaps[Greatest(Ids(e))].fields
    <2> DEFINE g == Greatest(Ids(e))
               r == d.snaps[g].scan_run_id
    <2>1. Ids(e) \in SUBSET (1..rows) /\ Ids(e) # {}
      BY <1>1, <1>5 DEF IdsOf, SnapIds
    <2> HIDE DEF devices
    <2>2. g \in Ids(e) /\ \A k \in Ids(e) : g >= k
      BY <1>1, <2>1, GreatestProperties
    <2>3. g \in IdsOf(d, e, {r}) /\ r \in 1..count /\ g \in DOMAIN d.snaps
      BY <2>2 DEF IdsOf, SnapIds
    <2>4. IdsOf(d, e, {r}) \subseteq Ids(e)
      BY <2>3 DEF IdsOf
    <2> HIDE DEF g, r
    <2>5. Greatest(IdsOf(d, e, {r})) = g
      <3>1. IdsOf(d, e, {r}) \in SUBSET (1..rows) /\ IdsOf(d, e, {r}) # {}
        BY <2>1, <2>3, <2>4
      <3>2. /\ Greatest(IdsOf(d, e, {r})) \in IdsOf(d, e, {r})
            /\ Greatest(IdsOf(d, e, {r})) >= g
        BY <1>1, <2>3, <3>1, GreatestProperties
      <3>3. Greatest(IdsOf(d, e, {r})) <= g /\ Greatest(IdsOf(d, e, {r})) \in 1..rows /\ g \in 1..rows
        BY <1>1, <2>1, <2>2, <2>4, <3>2
      <3> QED
        BY <1>1, <3>2, <3>3
    <2>6. Greatest(Runs(e)) = r
      <3>1. e \in DOMAIN d.devices
        BY <1>5 DEF devices
      <3>2. r \in Runs(e) /\ Runs(e) \in SUBSET (1..count)
        BY <1>3, <2>3, <3>1
      <3>3. ASSUME NEW q \in Runs(e) PROVE q <= r
        <4>1. PICK k : k \in IdsOf(d, e, {q}) /\ q \in 1..count
          <5>1. q \in 1..count /\ IdsOf(d, e, {q}) # {}
            BY <1>3
          <5> QED
            BY <5>1
        <4>2. k \in Ids(e) /\ d.snaps[k].scan_run_id = q /\ k \in DOMAIN d.snaps
          BY <4>1 DEF IdsOf, SnapIds
        <4>3. k <= g
          BY <1>1, <2>2, <2>3, <4>2
        <4> QED
          BY <2>3, <4>2, <4>3 DEF Ordered, r
      <3> HIDE DEF Runs
      <3>4. Greatest(Runs(e)) \in Runs(e) /\ Greatest(Runs(e)) >= r
        BY <1>1, <3>2, GreatestProperties
      <3>5. Greatest(Runs(e)) \in 1..count /\ Greatest(Runs(e)) <= r
        BY <3>2, <3>3, <3>4
      <3> QED
        BY <1>1, <2>3, <3>4, <3>5
    <2>7. Seen(d, r)[e] = d.snaps[g].fields
      BY <1>5, <2>3, <2>5 DEF Seen, FieldsOf, devices
    <2> QED
      BY <1>1, <2>3, <2>6, <2>7 DEF g
  <1> HIDE DEF Runs
  <1> QED
    BY <1>4, <1>5 DEF FieldsOf, Runs, count

\* The refinement mapping, in which the entries are written out.
Written ==
  [run \in DOMAIN db.runs |->
     [seen   |-> [d \in SeenDevices(run) |-> FieldsIn(db, d, {run})],
      events |-> {[device_id |-> c.device_id, change |-> c.change] : c \in ChangesOfRun(db, run)}]]

Pinned == IF BaselineRuns(db) = {} THEN 0 ELSE Greatest(BaselineRuns(db))

LEMMA WrittenIsEntries == Written = Entries(db)
  <1>1. \A run : SeenDevices(run) = {x \in DOMAIN db.devices : IdsOf(db, x, {run}) # {}}
    BY DEF SeenDevices, IdsOf
  <1>2. \A run, e : IdsOf(db, e, {run}) # {} =>
                      FieldsIn(db, e, {run}) = db.snaps[Greatest(IdsOf(db, e, {run}))].fields
    BY DEF FieldsIn, IdsOf
  <1>3. \A run : [d \in SeenDevices(run) |-> FieldsIn(db, d, {run})] = Seen(db, run)
    BY <1>1, <1>2 DEF Seen, FieldsOf
  <1> QED
    BY <1>3 DEF Written, Entries, Events

\* What the ledger knows last of every device.
LatestEntries ==
  LET Runs(e) == {i \in DOMAIN Written : e \in DOMAIN Written[i].seen}
  IN  [e \in UNION {DOMAIN Written[i].seen : i \in DOMAIN Written} |->
         Written[Greatest(Runs(e))].seen[e]]

\* A run that is committed is a new entry, and nothing else changes.
LEMMA CommitEnters ==
  ASSUME Written = Entries(db), Written' = Entries(db'),
         TypeInv, TransactionInv, ContentInv, LedgerInv, NEW s \in Sessions, CommitRun(s)
  PROVE  /\ Len(Written') = Len(Written) + 1
         /\ \A i \in DOMAIN Written : Written'[i] = Written[i]
         /\ LET entry == Written'[Len(Written) + 1]
            IN  entry.events = DiffDevices(LatestEntries, entry.seen)
         /\ Pinned' = Pinned
  <1> DEFINE run == Len(db.runs) + 1
  <1>1. /\ db' = tx /\ Explained(tx) /\ BaselineRuns(tx) = BaselineRuns(db)
        /\ Len(tx.runs) = run
    BY DEF CommitRun, LedgerInv, Tells, TransactionInv, RunInv
  <1>2. /\ IsDb(db) /\ IsDb(tx) /\ RefsOk(db) /\ RefsOk(tx) /\ Extends(db, tx)
        /\ NewOnly(db, tx) /\ Ordered(tx) /\ Ordered(db)
        /\ Len(db.runs) \in Nat /\ DOMAIN db.runs = 1..Len(db.runs) /\ DOMAIN tx.runs = 1..run
    BY <1>1, AtHand DEF LedgerInv, TransactionInv, ContentInv, Sound, Extends, Ordered
  <1>3. /\ DOMAIN Entries(db) = DOMAIN db.runs /\ Len(Entries(db)) = Len(db.runs)
        /\ Len(Entries(tx)) = run
        /\ \A r \in DOMAIN tx.runs : /\ Entries(tx)[r].seen = Seen(tx, r)
                                     /\ Entries(tx)[r].events = Events(tx, r)
    BY <1>1, <1>2, EntriesLength
  <1>4. \A i \in DOMAIN db.runs : Entries(tx)[i] = Entries(db)[i]
    <2>1. DOMAIN db.runs \subseteq DOMAIN tx.runs
      BY <1>2
    <2> QED
      BY <1>2, <2>1, SameHistory DEF Entries
  <1>5. Events(tx, run) = DiffDevices(LatestEntries, Seen(tx, run))
    <2>1. Events(tx, run) = DiffDevices(Known(tx, run), Seen(tx, run))
      BY <1>1, <1>2 DEF Explained
    <2>2. Known(tx, run) = FieldsOf(tx, 1..Len(db.runs))
      BY <1>2 DEF Known
    <2>3. FieldsOf(tx, 1..Len(db.runs)) = FieldsOf(db, 1..Len(db.runs))
      BY <1>2, SameFields
    <2>4. LatestEntries = FieldsOf(db, 1..Len(db.runs))
      BY <1>2, LastKnownIs DEF LatestEntries
    <2> QED
      BY <2>1, <2>2, <2>3, <2>4
  <1>6. Pinned' = Pinned
    BY <1>1 DEF Pinned
  <1> QED
    BY <1>1, <1>2, <1>3, <1>4, <1>5, <1>6

\* A run that is pinned is an entry, and no entry changes.
LEMMA CommitPins ==
  ASSUME Written = Entries(db), Written' = Entries(db'),
         TypeInv, TransactionInv, ContentInv, LedgerInv, NEW s \in Sessions, CommitPin(s)
  PROVE  Written' = Written /\ Pinned' \in DOMAIN Written
  <1>1. db' = tx /\ SameTables(db, tx) /\ BaselineRuns(tx) # {}
    BY DEF CommitPin, LedgerInv, Tells
  <1>2. Entries(tx) = Entries(db)
    <2>1. \A r : Seen(tx, r) = Seen(db, r) /\ Events(tx, r) = Events(db, r)
      BY <1>1, SameTablesExplained
    <2> QED
      BY <1>1, <2>1 DEF Entries, SameTables
  <1>3. BaselineRuns(tx) \in SUBSET (1..Len(tx.runs)) /\ Len(tx.runs) \in Nat
    BY AtHand DEF BaselineRuns
  <1>4. Greatest(BaselineRuns(tx)) \in DOMAIN tx.runs
    BY <1>1, <1>3, GreatestProperties DEF BaselineRuns
  <1>5. Pinned' = Greatest(BaselineRuns(tx))
    BY <1>1 DEF Pinned
  <1> QED
    BY <1>1, <1>2, <1>4, <1>5 DEF SameTables, Entries

\* Every step of the inventory is one of the ledger, or none.
LEMMA LedgerStep ==
  ASSUME Written = Entries(db), Written' = Entries(db'),
         TypeInv, TransactionInv, ContentInv, LedgerInv, [Next]_vars
  PROVE  [Ledger!Enter \/ Ledger!Pin]_(Ledger!LedgerVars)
  <1>1. CASE db' = db
    <2>1. UNCHANGED Ledger!LedgerVars
      BY <1>1 DEF Ledger!LedgerVars, SeenDevices, FieldsIn
    <2> QED
      BY <2>1
  <1>2. ASSUME NEW s \in Sessions, CommitRun(s) PROVE Ledger!Enter
    <2>1. \A p, c : DiffDevices(p, c) = Ledger!DiffDevices(p, c)
      BY SameDiff
    <2>2. /\ Len(Written') = Len(Written) + 1
          /\ \A i \in DOMAIN Written : Written'[i] = Written[i]
          /\ LET entry == Written'[Len(Written) + 1]
             IN  entry.events = Ledger!DiffDevices(LatestEntries, entry.seen)
          /\ Pinned' = Pinned
      BY <1>2, <2>1, CommitEnters
    <2> QED
      BY <2>2 DEF Ledger!Enter, Written, Pinned, LatestEntries, Ledger!LastKnown,
                  Ledger!Sightings, Ledger!Newest, Greatest
  <1>3. ASSUME NEW s \in Sessions, CommitPin(s) PROVE Ledger!Pin
    <2>1. Written' = Written /\ Pinned' \in DOMAIN Written
      BY <1>3, CommitPins
    <2> QED
      BY <2>1 DEF Ledger!Pin, Written, Pinned
  <1>4. db' = db \/ \E s \in Sessions : CommitRun(s) \/ CommitPin(s)
    BY DEF Next, Request, Work, Tick, vars, RequestPersist, BeginRun, PersistHost,
           FinishRun, RequestPin, ReadLatestRun, ClearBaselines, MarkBaseline,
           RequestChanges, ReadRun, ReadChanges, ReadDevices, ReadNext, Report,
           LockTimeout, Fail
  <1> QED
    BY <1>1, <1>2, <1>3, <1>4

\* The inventory implements the ledger of scans.
THEOREM InventoryIsLedger == Spec => ImplementsLedger
  <1>1. Init => Ledger!LedgerInit
    <2> SUFFICES ASSUME Init PROVE Ledger!LedgerInit
      OBVIOUS
    <2>1. DOMAIN db.runs = {} /\ BaselineRuns(db) = {}
      BY DEF Init, EmptyDb, BaselineRuns
    <2> QED
      BY <2>1 DEF Ledger!LedgerInit
  <1>2. Written = Entries(db)
    BY WrittenIsEntries
  <1>3. TypeInv /\ TransactionInv /\ ContentInv /\ LedgerInv /\ [Next]_vars
        /\ Written = Entries(db) /\ (Written = Entries(db))'
          => [Ledger!Enter \/ Ledger!Pin]_(Ledger!LedgerVars)
    BY LedgerStep
  <1> QED
    BY <1>1, <1>2, <1>3, LedgerHolds, PTL DEF Spec, ImplementsLedger, Ledger!LedgerSpec

-----------------------------------------------------------------------------
(* The history explains the snapshots. *)

\* The pieces of a comparison, and the field each is about.
LEMMA PieceFields ==
  ASSUME NEW type, NEW field, NEW old, NEW new
  PROVE  /\ \A e \in FieldChange(type, field, old, new) :
              e.field = field /\ e.old_value = old[field] /\ e.new_value = new[field]
         /\ \A e \in Added(type, field, old, new) :
              e.field = field /\ e.old_value = None /\ e.new_value \in new[field] \ old[field]
         /\ \A e \in Removed(type, field, old, new) :
              e.field = field /\ e.new_value = None /\ e.old_value \in old[field] \ new[field]
         /\ \A x \in new[field] \ old[field] :
              \E e \in Added(type, field, old, new) : e.new_value = x
         /\ \A x \in old[field] \ new[field] :
              \E e \in Removed(type, field, old, new) : e.old_value = x
         /\ FieldChange(type, field, old, new) = {} <=> old[field] = new[field]
  <1>1. \A a, b : /\ Change(type, field, a, b).field = field
                 /\ Change(type, field, a, b).old_value = a
                 /\ Change(type, field, a, b).new_value = b
    BY DEF Change
  <1>2. /\ \A e \in FieldChange(type, field, old, new) :
             e.field = field /\ e.old_value = old[field] /\ e.new_value = new[field]
        /\ FieldChange(type, field, old, new) = {} <=> old[field] = new[field]
    BY <1>1 DEF FieldChange
  <1>3. /\ \A e \in Added(type, field, old, new) :
             e.field = field /\ e.old_value = None /\ e.new_value \in new[field] \ old[field]
        /\ \A x \in new[field] \ old[field] :
             \E e \in Added(type, field, old, new) : e.new_value = x
    BY <1>1 DEF Added
  <1>4. /\ \A e \in Removed(type, field, old, new) :
             e.field = field /\ e.new_value = None /\ e.old_value \in old[field] \ new[field]
        /\ \A x \in old[field] \ new[field] :
             \E e \in Removed(type, field, old, new) : e.old_value = x
    BY <1>1 DEF Removed
  <1> QED
    BY <1>2, <1>3, <1>4

\* What one attribute says of a comparison.
AttributeOk(events, field, old, new) ==
  IF events = {} THEN new[field] = old[field]
  ELSE /\ \A e \in events : e.old_value = old[field] /\ e.new_value = new[field]
       /\ Cardinality(events) = 1
       /\ old[field] # new[field]

LEMMA FieldChangeOk ==
  ASSUME NEW type, NEW field, NEW old, NEW new
  PROVE  AttributeOk(FieldChange(type, field, old, new), field, old, new)
  <1>1. CASE old[field] = new[field]
    BY <1>1 DEF AttributeOk, FieldChange
  <1>2. CASE old[field] # new[field]
    <2>1. /\ FieldChange(type, field, old, new) = {Change(type, field, old[field], new[field])}
      BY <1>2 DEF FieldChange
    <2>2. Cardinality({Change(type, field, old[field], new[field])}) = 1
      BY FS_Singleton
    <2> QED
      BY <1>2, <2>1, <2>2, PieceFields DEF AttributeOk
  <1> QED
    BY <1>1, <1>2

\* What the members of a set say: each comes or goes with one event.
MembersOk(events, field, old, new) ==
  LET gone == {e.old_value : e \in events} \ {None}
      come == {e.new_value : e \in events} \ {None}
  IN  /\ gone \subseteq old[field] /\ come \cap old[field] = {}
      /\ new[field] = (old[field] \ gone) \cup come

LEMMA SetChangeOk ==
  ASSUME NEW in, NEW out, NEW field, NEW old, NEW new,
         None \notin old[field], None \notin new[field]
  PROVE  MembersOk(Added(in, field, old, new) \cup Removed(out, field, old, new),
                   field, old, new)
  <1> DEFINE events == Added(in, field, old, new) \cup Removed(out, field, old, new)
  <1>1. \A e \in events :
          \/ (e.old_value = None /\ e.new_value \in new[field] \ old[field])
          \/ (e.new_value = None /\ e.old_value \in old[field] \ new[field])
    BY PieceFields
  <1>2. /\ \A x \in new[field] \ old[field] : \E e \in events : e.new_value = x
        /\ \A x \in old[field] \ new[field] : \E e \in events : e.old_value = x
    BY PieceFields
  <1> HIDE DEF events
  <1> DEFINE gone == {e.old_value : e \in events} \ {None}
             come == {e.new_value : e \in events} \ {None}
  <1>3. gone = old[field] \ new[field] /\ come = new[field] \ old[field]
    BY <1>1, <1>2
  <1>4. /\ gone \subseteq old[field] /\ come \cap old[field] = {}
        /\ new[field] = (old[field] \ gone) \cup come
    <2> HIDE DEF gone, come
    <2> QED
      BY <1>3
  <1> QED
    BY <1>4, Zenon DEF MembersOk, events

\* What is recorded of a device seen again patches what was known of it.
LEMMA PatchesHold ==
  ASSUME NEW old, NEW new, old # None,
         None \notin old["open_ports"], None \notin new["open_ports"],
         None \notin old["services"], None \notin new["services"]
  PROVE  Patches(DiffSnapshots(old, new), old, new)
  <1> DEFINE ip   == FieldChange("ip_changed", "ip", old, new)
             mac  == IF new.mac # None THEN FieldChange("mac_changed", "mac", old, new) ELSE {}
             name == FieldChange("hostname_changed", "hostname", old, new)
             ven  == FieldChange("vendor_changed", "vendor", old, new)
             os   == FieldChange("os_guess_changed", "os_guess", old, new)
             firm == FieldChange("firmware_changed", "snmp_sysdescr", old, new)
             pin  == Added("port_opened", "open_ports", old, new)
             pout == Removed("port_closed", "open_ports", old, new)
             sin  == Added("service_added", "services", old, new)
             sout == Removed("service_removed", "services", old, new)
             all  == DiffSnapshots(old, new)
             On(field) == {e \in all : e.field = field}
  <1>1. all = ip \cup mac \cup name \cup ven \cup os \cup pin \cup pout \cup sin \cup sout \cup firm
    <2>1. all = UNION {ip, mac, name, ven, os, pin, pout, sin, sout, firm}
      BY Zenon DEF DiffSnapshots
    <2> HIDE DEF ip, mac, name, ven, os, firm, pin, pout, sin, sout, all
    <2> QED
      BY <2>1
  <1>2. /\ \A e \in ip : e.field = "ip"
        /\ \A e \in mac : e.field = "mac"
        /\ \A e \in name : e.field = "hostname"
        /\ \A e \in ven : e.field = "vendor"
        /\ \A e \in os : e.field = "os_guess"
        /\ \A e \in firm : e.field = "snmp_sysdescr"
    BY PieceFields
  <1>3. /\ \A e \in pin \cup pout : e.field = "open_ports"
        /\ \A e \in sin \cup sout : e.field = "services"
    BY PieceFields
  <1>4. /\ AttributeOk(ip, "ip", old, new)
        /\ AttributeOk(name, "hostname", old, new)
        /\ AttributeOk(ven, "vendor", old, new)
        /\ AttributeOk(os, "os_guess", old, new)
        /\ AttributeOk(firm, "snmp_sysdescr", old, new)
        /\ AttributeOk(FieldChange("mac_changed", "mac", old, new), "mac", old, new)
    BY FieldChangeOk
  <1>5. \/ AttributeOk(mac, "mac", old, new)
        \/ mac = {} /\ new["mac"] = None
    BY <1>4
  <1>6. MembersOk(pin \cup pout, "open_ports", old, new)
    BY SetChangeOk
  <1>7. MembersOk(sin \cup sout, "services", old, new)
    BY SetChangeOk
  <1> HIDE DEF ip, mac, name, ven, os, firm, pin, pout, sin, sout, all
  <1>8. /\ On("ip") = ip /\ On("mac") = mac /\ On("hostname") = name
        /\ On("vendor") = ven /\ On("os_guess") = os /\ On("snmp_sysdescr") = firm
    BY <1>1, <1>2, <1>3
  <1>9. On("open_ports") = pin \cup pout /\ On("services") = sin \cup sout
    BY <1>1, <1>2, <1>3
  <1> HIDE DEF On
  <1>10. \A field \in {"ip", "mac", "hostname", "vendor", "os_guess", "snmp_sysdescr"} :
           \/ AttributeOk(On(field), field, old, new)
           \/ On(field) = {} /\ field = "mac" /\ new[field] = None
    BY <1>4, <1>5, <1>8
  <1>11. \A field \in {"open_ports", "services"} : MembersOk(On(field), field, old, new)
    BY <1>6, <1>7, <1>9
  <1>12. \A field \in {"ip", "mac", "hostname", "vendor", "os_guess", "snmp_sysdescr"} :
           IF On(field) = {} THEN new[field] \in {old[field]} \cup (IF field = "mac" THEN {None} ELSE {})
           ELSE /\ \A e \in On(field) : e.old_value = old[field] /\ e.new_value = new[field]
                /\ Cardinality(On(field)) = 1
                /\ old[field] # new[field]
    BY <1>10 DEF AttributeOk
  <1> QED
    BY <1>11, <1>12, Zenon DEF Patches, MembersOk, On, all

\* The changes of one device in a comparison of two sets of them.
LEMMA ChangesOfDevice ==
  ASSUME NEW previous, NEW c, NEW device, NEW x
  PROVE  [device_id |-> device, change |-> x] \in DiffDevices(previous, c)
           <=> x \in IF device \in DOMAIN c
                     THEN DiffSnapshots(IF device \in DOMAIN previous THEN previous[device] ELSE None,
                                        c[device])
                     ELSE IF device \in DOMAIN previous THEN {DeviceGone} ELSE {}
  <1> DEFINE Old(d) == IF d \in DOMAIN previous THEN previous[d] ELSE None
             Diff(d) == DiffSnapshots(Old(d), c[d])
             e == [device_id |-> device, change |-> x]
  <1>1. DiffDevices(previous, c)
          = (UNION {{[device_id |-> d, change |-> y] : y \in Diff(d)} : d \in DOMAIN c})
            \cup {[device_id |-> d, change |-> DeviceGone] : d \in DOMAIN previous \ DOMAIN c}
    BY Zenon DEF DiffDevices
  <1>2. e \in DiffDevices(previous, c)
          <=> \/ \E d \in DOMAIN c : \E y \in Diff(d) : e = [device_id |-> d, change |-> y]
              \/ \E d \in DOMAIN previous \ DOMAIN c : e = [device_id |-> d, change |-> DeviceGone]
    <2> HIDE DEF Diff, e
    <2> QED
      BY <1>1
  <1>3. \A d, y : e = [device_id |-> d, change |-> y] <=> d = device /\ y = x
    OBVIOUS
  <1> HIDE DEF e
  <1>4. e \in DiffDevices(previous, c)
          <=> \/ (device \in DOMAIN c /\ x \in Diff(device))
              \/ (device \in DOMAIN previous \ DOMAIN c /\ x = DeviceGone)
    <2> HIDE DEF Diff
    <2> QED
      BY <1>2, <1>3
  <1> QED
    BY <1>4, Zenon DEF e

\* What was last seen of a device in some runs is an observation, and it is
\* the one the comparison uses.
LEMMA FieldsInAre ==
  ASSUME IsDb(db), NEW runs, NEW device \in DOMAIN db.devices
  PROVE  IF device \in DOMAIN FieldsOf(db, runs)
         THEN /\ FieldsIn(db, device, runs) = FieldsOf(db, runs)[device]
              /\ FieldsIn(db, device, runs) \in Observations
         ELSE FieldsIn(db, device, runs) = None
  <1> DEFINE ids == IdsOf(db, device, runs)
  <1>1. FieldsIn(db, device, runs) = IF ids = {} THEN None ELSE db.snaps[Greatest(ids)].fields
    BY DEF FieldsIn, IdsOf
  <1>2. /\ device \in DOMAIN FieldsOf(db, runs) <=> ids # {}
        /\ ids # {} => FieldsOf(db, runs)[device] = db.snaps[Greatest(ids)].fields
    BY DEF FieldsOf
  <1>3. ASSUME ids # {}
        PROVE  db.snaps[Greatest(ids)].fields \in Observations
    <2>1. db.snaps \in Seq(SnapRow) /\ Len(db.snaps) \in Nat /\ DOMAIN db.snaps = 1..Len(db.snaps)
      BY TableTypes, LenProperties
    <2>2. ids \in SUBSET (1..Len(db.snaps))
      BY <2>1 DEF IdsOf, SnapIds
    <2>3. Greatest(ids) \in DOMAIN db.snaps
      BY <1>3, <2>1, <2>2, GreatestProperties
    <2>4. db.snaps[Greatest(ids)] \in SnapRow
      BY <2>1, <2>3
    <2> QED
      BY <2>4 DEF SnapRow
  <1> HIDE DEF ids
  <1> QED
    BY <1>1, <1>2, <1>3

\* The events of a run about a device are the comparison of what was last
\* known of it with what the run saw.
LEMMA EventsAreDiff ==
  ASSUME TypeInv, LedgerInv, NEW run \in DOMAIN db.runs, NEW device \in DOMAIN db.devices
  PROVE  LET old == FieldsIn(db, device, 1..(run - 1))
             new == FieldsIn(db, device, {run})
         IN  /\ old \in Observations \cup {None} /\ new \in Observations \cup {None}
             /\ EventsOf(run, device) = IF new # None THEN DiffSnapshots(old, new)
                                        ELSE IF old # None THEN {DeviceGone} ELSE {}
  <1> DEFINE old    == FieldsIn(db, device, 1..(run - 1))
             new    == FieldsIn(db, device, {run})
             events == EventsOf(run, device)
  <1>1. IsDb(db)
    BY DEF TypeInv, TypeOK
  <1>2. Events(db, run) = DiffDevices(Known(db, run), Seen(db, run))
    BY DEF LedgerInv, Explained
  <1>3. \A x : x \in events <=> [device_id |-> device, change |-> x] \in Events(db, run)
    <2>1. \A x : x \in events <=> \E c \in ChangesOfRun(db, run) : c.device_id = device /\ c.change = x
      BY DEF EventsOf
    <2>2. \A x, c : [device_id |-> device, change |-> x] = [device_id |-> c.device_id, change |-> c.change]
                      <=> c.device_id = device /\ c.change = x
      OBVIOUS
    <2>3. \A x : [device_id |-> device, change |-> x] \in Events(db, run)
                   <=> \E c \in ChangesOfRun(db, run) :
                         [device_id |-> device, change |-> x]
                           = [device_id |-> c.device_id, change |-> c.change]
      BY DEF Events
    <2> HIDE DEF events
    <2> QED
      BY <2>1, <2>2, <2>3
  <1> HIDE DEF events
  <1>4. events = IF device \in DOMAIN Seen(db, run)
                 THEN DiffSnapshots(IF device \in DOMAIN Known(db, run)
                                    THEN Known(db, run)[device] ELSE None, Seen(db, run)[device])
                 ELSE IF device \in DOMAIN Known(db, run) THEN {DeviceGone} ELSE {}
    <2> DEFINE told == IF device \in DOMAIN Seen(db, run)
                       THEN DiffSnapshots(IF device \in DOMAIN Known(db, run)
                                          THEN Known(db, run)[device] ELSE None, Seen(db, run)[device])
                       ELSE IF device \in DOMAIN Known(db, run) THEN {DeviceGone} ELSE {}
    <2>1. \A x : [device_id |-> device, change |-> x] \in DiffDevices(Known(db, run), Seen(db, run))
                   <=> x \in told
      BY ChangesOfDevice
    <2> HIDE DEF told
    <2>2. events = told
      BY <1>2, <1>3, <2>1
    <2> QED
      BY <2>2 DEF told
  <1>5. IF device \in DOMAIN Seen(db, run)
        THEN new = Seen(db, run)[device] /\ new \in Observations ELSE new = None
    BY <1>1, FieldsInAre DEF Seen
  <1>6. IF device \in DOMAIN Known(db, run)
        THEN old = Known(db, run)[device] /\ old \in Observations ELSE old = None
    BY <1>1, FieldsInAre DEF Known
  <1> HIDE DEF old, new
  <1>7. events = IF new # None THEN DiffSnapshots(old, new)
                 ELSE IF old # None THEN {DeviceGone} ELSE {}
    BY <1>4, <1>5, <1>6, NoneAssumption
  <1>8. old \in Observations \cup {None} /\ new \in Observations \cup {None}
    BY <1>5, <1>6
  <1> QED
    BY <1>7, <1>8 DEF old, new, events

\* The events of a run lead from what was last known of every device to what
\* the run saw.
THEOREM HistoryExplains == Spec => []EventsReplay
  <1>1. TypeInv /\ LedgerInv => EventsReplay
    <2> SUFFICES ASSUME TypeInv, LedgerInv,
                        NEW run \in DOMAIN db.runs, NEW device \in DOMAIN db.devices
                 PROVE  LET old    == FieldsIn(db, device, 1..(run - 1))
                            new    == FieldsIn(db, device, {run})
                            events == EventsOf(run, device)
                        IN  CASE old = None /\ new = None -> events = {}
                              [] old = None /\ new # None -> events = {NewDevice}
                              [] old # None /\ new = None -> events = {DeviceGone}
                              [] OTHER -> Patches(events, old, new)
      BY Zenon DEF EventsReplay
    <2> DEFINE old    == FieldsIn(db, device, 1..(run - 1))
               new    == FieldsIn(db, device, {run})
               events == EventsOf(run, device)
    <2>1. /\ old \in Observations \cup {None} /\ new \in Observations \cup {None}
          /\ events = IF new # None THEN DiffSnapshots(old, new)
                      ELSE IF old # None THEN {DeviceGone} ELSE {}
      BY EventsAreDiff
    <2> HIDE DEF old, new, events
    <2>2. ASSUME old # None, new # None
          PROVE  Patches(DiffSnapshots(old, new), old, new)
      <3>1. old \in Observations /\ new \in Observations
        BY <2>1, <2>2
      <3>2. /\ None \notin old.open_ports /\ None \notin old.services
            /\ None \notin new.open_ports /\ None \notin new.services
        BY <3>1, NoneAssumption
      <3> QED
        BY <2>2, <3>2, PatchesHold
    <2>3. DiffSnapshots(None, new) = {NewDevice}
      BY DEF DiffSnapshots
    <2> QED
      BY <2>1, <2>2, <2>3, Zenon DEF old, new, events
  <1> QED
    BY <1>1, LedgerHolds, PTL

-----------------------------------------------------------------------------
(* When a scan is silent. *)

\* Nothing that the comparison looks at differs: a MAC may be missed, and the
\* type of a device is not compared.
Unchanged(old, new) ==
  /\ \A field \in {"ip", "hostname", "vendor", "os_guess", "snmp_sysdescr",
                   "open_ports", "services"} : new[field] = old[field]
  /\ new["mac"] \in {old["mac"], None}

\* The comparison of two observations finds nothing if and only if there is
\* nothing to find.
LEMMA SameIsSilent ==
  ASSUME NEW old, NEW new, old # None
  PROVE  DiffSnapshots(old, new) = {} <=> Unchanged(old, new)
  <1> DEFINE ip   == FieldChange("ip_changed", "ip", old, new)
             mac  == IF new.mac # None THEN FieldChange("mac_changed", "mac", old, new) ELSE {}
             name == FieldChange("hostname_changed", "hostname", old, new)
             ven  == FieldChange("vendor_changed", "vendor", old, new)
             os   == FieldChange("os_guess_changed", "os_guess", old, new)
             firm == FieldChange("firmware_changed", "snmp_sysdescr", old, new)
             pin  == Added("port_opened", "open_ports", old, new)
             pout == Removed("port_closed", "open_ports", old, new)
             sin  == Added("service_added", "services", old, new)
             sout == Removed("service_removed", "services", old, new)
             all  == DiffSnapshots(old, new)
  <1>1. all = UNION {ip, mac, name, ven, os, pin, pout, sin, sout, firm}
    BY Zenon DEF DiffSnapshots
  <1>2. /\ ip = {} <=> old["ip"] = new["ip"]
        /\ name = {} <=> old["hostname"] = new["hostname"]
        /\ ven = {} <=> old["vendor"] = new["vendor"]
        /\ os = {} <=> old["os_guess"] = new["os_guess"]
        /\ firm = {} <=> old["snmp_sysdescr"] = new["snmp_sysdescr"]
    <2>1. ip = {} <=> old["ip"] = new["ip"]
      BY PieceFields
    <2>2. name = {} <=> old["hostname"] = new["hostname"]
      BY PieceFields
    <2>3. ven = {} <=> old["vendor"] = new["vendor"]
      BY PieceFields
    <2>4. os = {} <=> old["os_guess"] = new["os_guess"]
      BY PieceFields
    <2>5. firm = {} <=> old["snmp_sysdescr"] = new["snmp_sysdescr"]
      BY PieceFields
    <2> QED
      BY <2>1, <2>2, <2>3, <2>4, <2>5
  <1>3. mac = {} <=> new["mac"] \in {old["mac"], None}
    BY PieceFields
  <1>4. /\ pin = {} <=> new["open_ports"] \ old["open_ports"] = {}
        /\ pout = {} <=> old["open_ports"] \ new["open_ports"] = {}
        /\ sin = {} <=> new["services"] \ old["services"] = {}
        /\ sout = {} <=> old["services"] \ new["services"] = {}
    BY DEF Added, Removed
  <1> HIDE DEF ip, mac, name, ven, os, firm, pin, pout, sin, sout, all
  <1>5. /\ pin = {} /\ pout = {} <=> new["open_ports"] = old["open_ports"]
        /\ sin = {} /\ sout = {} <=> new["services"] = old["services"]
    BY <1>4
  <1>6. all = {} <=> /\ ip = {} /\ mac = {} /\ name = {} /\ ven = {} /\ os = {} /\ firm = {}
                     /\ pin = {} /\ pout = {} /\ sin = {} /\ sout = {}
    BY <1>1
  <1>7. all = {} <=> Unchanged(old, new)
    BY <1>2, <1>3, <1>5, <1>6 DEF Unchanged
  <1> QED
    BY <1>7 DEF all

\* A run is silent about a device if and only if it saw it as it was last
\* known, or nobody has seen it yet.
SilentWhenUnchanged == \A run \in DOMAIN db.runs, device \in DOMAIN db.devices :
  LET old == FieldsIn(db, device, 1..(run - 1))
      new == FieldsIn(db, device, {run})
  IN  EventsOf(run, device) = {} <=> \/ old = None /\ new = None
                                     \/ old # None /\ new # None /\ Unchanged(old, new)

\* A run that does not see a device says that it is gone, and so does every
\* further run that does not: what was last known of a device is known for good.
GoneAtEveryRun == \A q, r \in DOMAIN db.runs, device \in DOMAIN db.devices :
  q < r /\ FieldsIn(db, device, {q}) # None /\ FieldsIn(db, device, {r}) = None
    => EventsOf(r, device) = {DeviceGone}

\* What the code does where a test speaks of an unchanged rescan
\* (tests/test_service_e2e.py:90-109): it is silent about the devices it sees.
THEOREM RescanIsSilent == Spec => []SilentWhenUnchanged
  <1>1. TypeInv /\ LedgerInv => SilentWhenUnchanged
    <2> SUFFICES ASSUME TypeInv, LedgerInv,
                        NEW run \in DOMAIN db.runs, NEW device \in DOMAIN db.devices
                 PROVE  LET old == FieldsIn(db, device, 1..(run - 1))
                            new == FieldsIn(db, device, {run})
                        IN  EventsOf(run, device) = {}
                              <=> \/ old = None /\ new = None
                                  \/ old # None /\ new # None /\ Unchanged(old, new)
      BY Zenon DEF SilentWhenUnchanged
    <2> DEFINE old    == FieldsIn(db, device, 1..(run - 1))
               new    == FieldsIn(db, device, {run})
               events == EventsOf(run, device)
    <2>1. events = IF new # None THEN DiffSnapshots(old, new)
                   ELSE IF old # None THEN {DeviceGone} ELSE {}
      BY EventsAreDiff
    <2> HIDE DEF old, new, events
    <2>2. old # None => (DiffSnapshots(old, new) = {} <=> Unchanged(old, new))
      BY SameIsSilent
    <2>3. DiffSnapshots(None, new) # {}
      BY DEF DiffSnapshots
    <2>4. events = {} <=> \/ old = None /\ new = None
                          \/ old # None /\ new # None /\ Unchanged(old, new)
      BY <2>1, <2>2, <2>3
    <2> QED
      BY <2>4, Zenon DEF old, new, events
  <1> QED
    BY <1>1, LedgerHolds, PTL

\* What the code does where README.md:31 speaks of the last scan: a device
\* that was seen once is missed by every scan after the last that saw it.
THEOREM AbsenceIsRepeated == Spec => []GoneAtEveryRun
  <1>1. TypeInv /\ LedgerInv => GoneAtEveryRun
    <2> SUFFICES ASSUME TypeInv, LedgerInv, NEW q \in DOMAIN db.runs, NEW r \in DOMAIN db.runs,
                        NEW device \in DOMAIN db.devices, q < r,
                        FieldsIn(db, device, {q}) # None, FieldsIn(db, device, {r}) = None
                 PROVE  EventsOf(r, device) = {DeviceGone}
      BY DEF GoneAtEveryRun
    <2>1. IsDb(db)
      BY DEF TypeInv, TypeOK
    <2>2. DOMAIN db.runs = 1..Len(db.runs) /\ Len(db.runs) \in Nat
      BY <2>1, TableTypes, LenProperties
    <2>3. IdsOf(db, device, {q}) # {}
      BY <2>1, FieldsInAre DEF FieldsOf
    <2>4. IdsOf(db, device, 1..(r - 1)) # {}
      BY <2>2, <2>3 DEF IdsOf
    <2>5. FieldsIn(db, device, 1..(r - 1)) # None
      BY <2>1, <2>4, FieldsInAre, NoneAssumption DEF FieldsOf
    <2> QED
      BY <2>5, EventsAreDiff
  <1> QED
    BY <1>1, LedgerHolds, PTL

=============================================================================
