--------------------------- MODULE InventorySafety ---------------------------
(***************************************************************************)
(* Proofs that the transactions of any number of sessions keep identities  *)
(* apart, the baseline single and never lost, and the history append-only. *)
(***************************************************************************)
EXTENDS InventoryProofs

-----------------------------------------------------------------------------
(* Extending a history. *)

\* A database is a history of itself.
LEMMA ExtendsReflexive == ASSUME NEW d PROVE Extends(d, d)
  BY DEF Extends

\* What extends an extension of a database extends the database.
LEMMA ExtendsTransitive ==
  ASSUME NEW a, NEW b, NEW c, Extends(a, b), Extends(b, c)
  PROVE  Extends(a, c)
  BY DEF Extends

\* Inserting a row at the end of a table leaves the others alone.
LEMMA RowAppended ==
  ASSUME NEW S, NEW table \in Seq(S), NEW row \in S
  PROVE  LET new == Append(table, row)
         IN  /\ Len(new) = Len(table) + 1 /\ Len(table) \in Nat
             /\ DOMAIN table = 1..Len(table) /\ DOMAIN new = 1..(Len(table) + 1)
             /\ DOMAIN new = DOMAIN table \cup {Len(table) + 1}
             /\ Len(table) + 1 \notin DOMAIN table
             /\ \A i \in DOMAIN table : new[i] = table[i]
             /\ new[Len(table) + 1] = row
  <1>1. Append(table, row) \in Seq(S) /\ Len(table) \in Nat
    BY AppendProperties, LenProperties
  <1> QED
    BY <1>1, AppendProperties, LenProperties

\* What inserting a scan run does.
LEMMA CreateScanRunEffect ==
  ASSUME NEW d, IsDb(d), NEW now \in Nat
  PROVE  LET new == CreateScanRun(d, now)
         IN  /\ Extends(d, new)
             /\ Len(new.runs) = Len(d.runs) + 1
             /\ BaselineRuns(new) = BaselineRuns(d)
             /\ new.devices = d.devices
  <1> DEFINE row == [started_at |-> now, host_count |-> 0, is_baseline |-> FALSE]
             new == CreateScanRun(d, now)
  <1>1. new = [d EXCEPT !.runs = Append(d.runs, row)]
    BY DEF CreateScanRun
  <1>2. /\ new.runs = Append(d.runs, row) /\ new.snaps = d.snaps
        /\ new.devices = d.devices /\ new.changes = d.changes
    BY <1>1 DEF IsDb
  <1>3. row \in RunRow /\ row.is_baseline = FALSE
    BY DEF RunRow
  <1> HIDE DEF row, new
  <1>4. /\ Len(new.runs) = Len(d.runs) + 1
        /\ DOMAIN new.runs = DOMAIN d.runs \cup {Len(d.runs) + 1}
        /\ \A r \in DOMAIN d.runs : new.runs[r] = d.runs[r]
        /\ new.runs[Len(d.runs) + 1] = row
    BY <1>2, <1>3, TableTypes, RowAppended
  <1>5. BaselineRuns(new) = BaselineRuns(d)
    BY <1>3, <1>4 DEF BaselineRuns
  <1>6. Extends(d, new)
    BY <1>2, <1>4 DEF Extends, ChangesOfRun
  <1> QED
    BY <1>2, <1>4, <1>5, <1>6 DEF new

\* What inserting a device does.
LEMMA CreateDeviceEffect ==
  ASSUME NEW d, IsDb(d), NEW mac \in Values("mac"), NEW randomized \in BOOLEAN, NEW now \in Nat,
         MacsDistinct(d), mac = None \/ FindByMac(d, mac) = {}
  PROVE  LET new == CreateDevice(d, mac, randomized, now)
         IN  Extends(d, new) /\ new.runs = d.runs /\ MacsDistinct(new)
  <1> DEFINE row == [primary_mac |-> mac, is_mac_randomized |-> randomized,
                     first_seen |-> now, last_seen |-> now, last_ip |-> None,
                     last_hostname |-> None, last_vendor |-> None,
                     last_os_guess |-> None, last_device_type |-> None]
             new == CreateDevice(d, mac, randomized, now)
  <1>1. new = [d EXCEPT !.devices = Append(d.devices, row)]
    BY DEF CreateDevice
  <1>2. /\ new.devices = Append(d.devices, row) /\ new.snaps = d.snaps
        /\ new.runs = d.runs /\ new.changes = d.changes
    BY <1>1 DEF IsDb
  <1>3. row \in DeviceRow /\ row.primary_mac = mac
    BY DEF DeviceRow, Values
  <1> HIDE DEF row, new
  <1>4. /\ DOMAIN new.devices = DOMAIN d.devices \cup {Len(d.devices) + 1}
        /\ \A i \in DOMAIN d.devices : new.devices[i] = d.devices[i]
        /\ new.devices[Len(d.devices) + 1] = row
    BY <1>2, <1>3, TableTypes, RowAppended
  <1>5. Extends(d, new)
    BY <1>2, <1>4 DEF Extends, ChangesOfRun
  <1>6. MacsDistinct(new)
    <2>1. \A i \in DOMAIN d.devices : mac # None => d.devices[i].primary_mac # mac
      BY DEF FindByMac
    <2> QED
      BY <1>3, <1>4, <2>1 DEF MacsDistinct
  <1> QED
    BY <1>2, <1>5, <1>6 DEF new

\* What inserting a snapshot does.
LEMMA AddSnapshotEffect ==
  ASSUME NEW d, IsDb(d), NEW run \in Nat, NEW device \in Nat,
         NEW fields \in Observations, NEW now \in Nat, MacsDistinct(d)
  PROVE  LET new == AddSnapshot(d, run, device, fields, now)
         IN  Extends(d, new) /\ new.runs = d.runs /\ MacsDistinct(new)
  <1> DEFINE snap == [scan_run_id |-> run, device_id |-> device,
                      fields |-> fields, created_at |-> now]
             row == Observed(d.devices[device], fields, now)
             new == AddSnapshot(d, run, device, fields, now)
  <1>1. /\ new.snaps = Append(d.snaps, snap)
        /\ new.devices = [d.devices EXCEPT ![device] = row]
        /\ new.runs = d.runs /\ new.changes = d.changes
    BY DEF AddSnapshot, IsDb
  <1>2. snap \in SnapRow
    BY DEF SnapRow
  <1>3. device \in DOMAIN d.devices =>
          /\ row.primary_mac = d.devices[device].primary_mac
          /\ row.first_seen = d.devices[device].first_seen
    <2>1. \A r \in DeviceRow : /\ Observed(r, fields, now).primary_mac = r.primary_mac
                               /\ Observed(r, fields, now).first_seen = r.first_seen
      BY DEF DeviceRow, Observed
    <2> QED
      BY <2>1, TableTypes, LenProperties
  <1> HIDE DEF snap, row, new
  <1>4. \A i \in DOMAIN d.snaps : i \in DOMAIN new.snaps /\ new.snaps[i] = d.snaps[i]
    BY <1>1, <1>2, TableTypes, RowAppended
  <1>5. /\ DOMAIN new.devices = DOMAIN d.devices
        /\ \A i \in DOMAIN d.devices :
             /\ new.devices[i].primary_mac = d.devices[i].primary_mac
             /\ new.devices[i].first_seen = d.devices[i].first_seen
    BY <1>1, <1>3
  <1>6. Extends(d, new)
    BY <1>1, <1>4, <1>5 DEF Extends, ChangesOfRun
  <1>7. MacsDistinct(new)
    BY <1>5 DEF MacsDistinct
  <1> QED
    BY <1>1, <1>6, <1>7 DEF new

\* What resolving a host's device does: a new device takes a MAC only when
\* no device has it.
LEMMA ResolvedEffect ==
  ASSUME NEW d, IsDb(d), NEW host, host.mac \in Values("mac"), NEW now \in Nat, NEW day \in Nat,
         MacsDistinct(d)
  PROVE  LET new == Resolved(d, host, now, day)
         IN  Extends(d, new) /\ new.runs = d.runs /\ MacsDistinct(new)
  <1> DEFINE mac == IF HasRandomizedMac(host) THEN None ELSE host.mac
  <1>1. CASE Matches(d, host, day) # {}
    BY <1>1, ExtendsReflexive DEF Resolved
  <1>2. CASE Matches(d, host, day) = {}
    <2>1. mac = None \/ FindByMac(d, mac) = {}
      BY <1>2 DEF Matches, HasStableMac, HasRandomizedMac
    <2>2. mac \in Values("mac") /\ HasRandomizedMac(host) \in BOOLEAN
      BY DEF Values, HasRandomizedMac
    <2>3. Resolved(d, host, now, day) = CreateDevice(d, mac, HasRandomizedMac(host), now)
      BY <1>2 DEF Resolved
    <2> HIDE DEF mac
    <2> QED
      BY <2>1, <2>2, <2>3, CreateDeviceEffect
  <1> QED
    BY <1>1, <1>2

\* What finishing a run does, to a run that old does not have.
LEMMA FinishEffect ==
  ASSUME NEW d, IsDb(d), NEW run \in Nat, NEW count \in Nat, NEW records,
         NEW old, Extends(old, d), run \notin DOMAIN old.runs
  PROVE  LET new == AddChanges(FinishScanRun(d, run, count), run, records)
         IN  /\ Extends(old, new)
             /\ Len(new.runs) = Len(d.runs)
             /\ BaselineRuns(new) = BaselineRuns(d)
             /\ new.devices = d.devices
  <1> DEFINE row == [d.runs[run] EXCEPT !.host_count = count]
             fin == FinishScanRun(d, run, count)
             new == AddChanges(fin, run, records)
             events == {[scan_run_id |-> run, device_id |-> c.device_id, change |-> c.change] :
                          c \in records}
  <1>1. /\ fin.runs = [d.runs EXCEPT ![run] = row] /\ fin.snaps = d.snaps
        /\ fin.devices = d.devices /\ fin.changes = d.changes /\ IsDb(fin)
    BY FinishScanRunType DEF FinishScanRun, IsDb
  <1>2. /\ new.runs = fin.runs /\ new.snaps = fin.snaps
        /\ new.devices = fin.devices /\ new.changes = fin.changes \cup events
    BY <1>1 DEF AddChanges, IsDb
  <1>3. run \in DOMAIN d.runs => row \in RunRow /\ row.is_baseline = d.runs[run].is_baseline
    <2>1. \A r \in RunRow : /\ [r EXCEPT !.host_count = count] \in RunRow
                            /\ [r EXCEPT !.host_count = count].is_baseline = r.is_baseline
      BY DEF RunRow
    <2> QED
      BY <2>1, TableTypes, LenProperties
  <1>4. \A r \in DOMAIN old.runs : ChangesOfRun(new, r) = ChangesOfRun(d, r)
    BY <1>1, <1>2 DEF ChangesOfRun
  <1> HIDE DEF row, fin, new, events
  <1>5. /\ DOMAIN new.runs = DOMAIN d.runs /\ Len(new.runs) = Len(d.runs)
        /\ \A r \in DOMAIN d.runs : r # run => new.runs[r] = d.runs[r]
        /\ \A r \in DOMAIN d.runs : new.runs[r].is_baseline = d.runs[r].is_baseline
    BY <1>1, <1>2, <1>3, TableTypes, RowUpdate
  <1>6. BaselineRuns(new) = BaselineRuns(d)
    BY <1>5 DEF BaselineRuns
  <1>7. Extends(old, new)
    BY <1>1, <1>2, <1>4, <1>5 DEF Extends
  <1> QED
    BY <1>1, <1>2, <1>5, <1>6, <1>7 DEF new, fin

\* What the two updates of mark_baseline do.
LEMMA ClearBaselineEffect ==
  ASSUME NEW d, IsDb(d)
  PROVE  LET new == ClearBaseline(d)
         IN  Extends(d, new) /\ BaselineRuns(new) = {} /\ new.devices = d.devices
  <1> DEFINE new == ClearBaseline(d)
  <1>1. /\ new.runs = [r \in DOMAIN d.runs |-> [d.runs[r] EXCEPT !.is_baseline = FALSE]]
        /\ new.snaps = d.snaps /\ new.devices = d.devices /\ new.changes = d.changes
    BY DEF ClearBaseline, IsDb
  <1>2. \A r \in RunRow : LET c == [r EXCEPT !.is_baseline = FALSE]
                          IN  /\ c.is_baseline = FALSE
                              /\ c.started_at = r.started_at /\ c.host_count = r.host_count
    BY DEF RunRow
  <1>3. \A r \in DOMAIN d.runs : d.runs[r] \in RunRow
    BY TableTypes, LenProperties
  <1> HIDE DEF new
  <1>4. BaselineRuns(new) = {}
    BY <1>1, <1>2, <1>3 DEF BaselineRuns
  <1>5. Extends(d, new)
    BY <1>1, <1>2, <1>3 DEF Extends, ChangesOfRun
  <1> QED
    BY <1>1, <1>4, <1>5 DEF new

\* Where no run is the baseline, the second update makes exactly one the baseline.
LEMMA SetBaselineEffect ==
  ASSUME NEW d, IsDb(d), NEW run \in DOMAIN d.runs, BaselineRuns(d) = {}
  PROVE  LET new == SetBaseline(d, run)
         IN  Extends(d, new) /\ BaselineRuns(new) = {run} /\ new.devices = d.devices
  <1> DEFINE new == SetBaseline(d, run)
             row == [d.runs[run] EXCEPT !.is_baseline = TRUE]
  <1>1. /\ new.runs = [d.runs EXCEPT ![run] = row]
        /\ new.snaps = d.snaps /\ new.devices = d.devices /\ new.changes = d.changes
    BY DEF SetBaseline, IsDb
  <1>2. /\ row.is_baseline = TRUE
        /\ row.started_at = d.runs[run].started_at /\ row.host_count = d.runs[run].host_count
    <2>1. \A r \in RunRow : LET c == [r EXCEPT !.is_baseline = TRUE]
                            IN  /\ c.is_baseline = TRUE
                                /\ c.started_at = r.started_at /\ c.host_count = r.host_count
      BY DEF RunRow
    <2> QED
      BY <2>1, TableTypes, LenProperties
  <1> HIDE DEF new, row
  <1>3. BaselineRuns(new) = {run}
    BY <1>1, <1>2 DEF BaselineRuns
  <1>4. Extends(d, new)
    BY <1>1, <1>2 DEF Extends, ChangesOfRun
  <1> QED
    BY <1>1, <1>3, <1>4 DEF new

-----------------------------------------------------------------------------
(* What a step does to TransactionInv depends on how it treats the write   *)
(* lock: it leaves the database alone, works under the lock, or lets go of *)
(* it.                                                                     *)

\* What is known of the state whenever a step is taken.
LEMMA AtHand ==
  ASSUME TypeInv, TransactionInv
  PROVE  /\ IsDb(db) /\ IsDb(tx)
         /\ Len(db.runs) \in Nat /\ DOMAIN db.runs = 1..Len(db.runs)
         /\ Len(tx.runs) \in Nat /\ DOMAIN tx.runs = 1..Len(tx.runs)
         /\ DOMAIN db.runs \subseteq DOMAIN tx.runs
         /\ pc \in [Sessions -> Labels] /\ job \in [Sessions -> Job]
         /\ \A s, x \in Sessions : lock = s /\ x # s => pc[x] \notin Writing
         /\ today \in Nat
  <1>1. IsDb(db) /\ IsDb(tx) /\ pc \in [Sessions -> Labels] /\ job \in [Sessions -> Job]
        /\ today \in Nat
    BY BoundAssumption DEF TypeInv, TypeOK
  <1>2. /\ Len(db.runs) \in Nat /\ DOMAIN db.runs = 1..Len(db.runs)
        /\ Len(tx.runs) \in Nat /\ DOMAIN tx.runs = 1..Len(tx.runs)
    BY <1>1, TableTypes, LenProperties
  <1>3. DOMAIN db.runs \subseteq DOMAIN tx.runs
    BY DEF TransactionInv, Extends
  <1>4. \A s, x \in Sessions : lock = s /\ x # s => pc[x] \notin Writing
    BY DEF TransactionInv, LockInv
  <1> QED
    BY <1>1, <1>2, <1>3, <1>4

\* A step that leaves database and lock alone.
LEMMA QuietStep ==
  ASSUME TypeInv, TransactionInv, NEW s \in Sessions, NEW label,
         pc[s] \notin Writing, label \notin Writing,
         UNCHANGED <<db, tx, lock>>, Goto(s, label),
         \A x \in Sessions \ {s} : job'[x] = job[x],
         label = "clear_baseline" => job'[s].run \in DOMAIN db.runs
  PROVE  TransactionInv'
  <1>1. /\ pc'[s] = label /\ \A x \in Sessions \ {s} : pc'[x] = pc[x]
    BY AtHand DEF Goto
  <1>2. LockInv'
    BY <1>1 DEF TransactionInv, LockInv
  <1>3. RunInv'
    BY <1>1 DEF TransactionInv, RunInv, Writing
  <1>4. BaselineInv'
    BY <1>1 DEF TransactionInv, BaselineInv, Writing, OneBaseline, BaselineRuns
  <1>5. Extends(db, tx)' /\ MacsDistinct(db)' /\ MacsDistinct(tx)'
    BY DEF TransactionInv, Extends, ChangesOfRun, MacsDistinct
  <1> QED
    BY <1>2, <1>3, <1>4, <1>5 DEF TransactionInv

\* A step that writes, under the lock it has or has just got.
LEMMA WriteStep ==
  ASSUME TypeInv, TransactionInv, NEW s \in Sessions, NEW label \in Writing,
         lock \in {s, NoSession}, lock' = s, Goto(s, label), db' = db,
         \A x \in Sessions \ {s} : job'[x] = job[x],
         Extends(db, tx'), MacsDistinct(tx'), OneBaseline(tx'),
         label \in {"hosts", "commit_run"} =>
           job'[s].run = Len(db.runs) + 1 /\ Len(tx'.runs) = Len(db.runs) + 1,
         label = "set_baseline" => job'[s].run \in DOMAIN db.runs /\ BaselineRuns(tx') = {},
         label # "set_baseline" /\ BaselineRuns(db) # {} => BaselineRuns(tx') # {}
  PROVE  TransactionInv'
  <1>1. /\ pc'[s] = label
        /\ \A x \in Sessions \ {s} : pc'[x] = pc[x] /\ pc[x] \notin Writing
    BY AtHand, SessionAssumption DEF Goto, TransactionInv, LockInv
  <1>2. LockInv'
    BY <1>1, SessionAssumption DEF TransactionInv, LockInv
  <1>3. RunInv'
    BY <1>1 DEF TransactionInv, RunInv, Writing
  <1>4. BaselineInv'
    <2>1. OneBaseline(db)' /\ OneBaseline(tx)'
      BY DEF TransactionInv, BaselineInv, OneBaseline, BaselineRuns
    <2>2. \A x \in Sessions : pc'[x] = "set_baseline" => BaselineRuns(tx)' = {}
      BY <1>1 DEF Writing, BaselineRuns
    <2>3. BaselineRuns(db)' # {} =>
            BaselineRuns(tx)' # {} \/ \E x \in Sessions : pc'[x] = "set_baseline"
      BY <1>1 DEF BaselineRuns
    <2> QED
      BY <2>1, <2>2, <2>3 DEF BaselineInv
  <1>5. Extends(db, tx)' /\ MacsDistinct(db)' /\ MacsDistinct(tx)'
    BY DEF TransactionInv, Extends, ChangesOfRun, MacsDistinct
  <1> QED
    BY <1>2, <1>3, <1>4, <1>5 DEF TransactionInv

\* A step that ends a transaction: what is left is what was committed before,
\* or all of what was written, but never what lies between the two updates of
\* mark_baseline.
LEMMA ReleaseStep ==
  ASSUME TypeInv, TransactionInv, NEW s \in Sessions, NEW label,
         lock = s, lock' = NoSession, label \notin Writing, Goto(s, label),
         \A x \in Sessions \ {s} : job'[x] = job[x],
         tx' = db', db' = db \/ (db' = tx /\ pc[s] # "set_baseline"),
         label = "clear_baseline" => job'[s].run \in DOMAIN db'.runs
  PROVE  TransactionInv'
  <1>1. /\ pc'[s] = label
        /\ \A x \in Sessions \ {s} : pc'[x] = pc[x] /\ pc[x] \notin Writing
    BY AtHand DEF Goto
  <1>2. LockInv'
    BY <1>1, SessionAssumption DEF LockInv
  <1>3. RunInv'
    <2>1. DOMAIN db.runs \subseteq DOMAIN db'.runs
      BY AtHand
    <2> QED
      BY <1>1, <2>1 DEF TransactionInv, RunInv, Writing
  <1>4. BaselineInv'
    <2>1. OneBaseline(db') /\ OneBaseline(tx')
      BY DEF TransactionInv, BaselineInv
    <2>2. OneBaseline(db)' /\ OneBaseline(tx)'
      BY <2>1 DEF OneBaseline, BaselineRuns
    <2>3. BaselineRuns(db)' = BaselineRuns(tx)'
      BY DEF BaselineRuns
    <2>4. \A x \in Sessions : pc'[x] # "set_baseline"
      BY <1>1 DEF Writing
    <2> QED
      BY <2>2, <2>3, <2>4 DEF BaselineInv
  <1>5. Extends(db', tx') /\ MacsDistinct(db') /\ MacsDistinct(tx')
    BY ExtendsReflexive DEF TransactionInv
  <1>6. Extends(db, tx)' /\ MacsDistinct(db)' /\ MacsDistinct(tx)'
    BY <1>5 DEF Extends, ChangesOfRun, MacsDistinct
  <1> QED
    BY <1>2, <1>3, <1>4, <1>6 DEF TransactionInv

\* The locals of one session are no one else's.
LEMMA OwnLocals ==
  ASSUME TypeInv, NEW s \in Sessions, Return(s)
  PROVE  Goto(s, "idle") /\ \A x \in Sessions \ {s} : job'[x] = job[x]
  BY DEF Return, TypeInv, TypeOK

-----------------------------------------------------------------------------
(* The inductive invariant and what follows from it. *)

\* An empty database has nothing to keep.
LEMMA TransactionInit == Init => TransactionInv
  <1> SUFFICES ASSUME Init PROVE TransactionInv
    OBVIOUS
  <1>1. db = EmptyDb /\ tx = EmptyDb /\ lock = NoSession /\ \A s \in Sessions : pc[s] = "idle"
    BY DEF Init
  <1>2. BaselineRuns(db) = {} /\ BaselineRuns(tx) = {} /\ MacsDistinct(db) /\ MacsDistinct(tx)
    BY <1>1 DEF EmptyDb, BaselineRuns, MacsDistinct
  <1> QED
    BY <1>1, <1>2, SessionAssumption, ExtendsReflexive
    DEF TransactionInv, LockInv, RunInv, BaselineInv, OneBaseline, Writing

\* Every step of every session keeps what a transaction holds ready to be
\* committed.
THEOREM TransactionStep == TypeInv /\ TransactionInv /\ [Next]_vars => TransactionInv'
  <1> SUFFICES ASSUME TypeInv, TransactionInv, [Next]_vars PROVE TransactionInv'
    OBVIOUS
  <1>a. \A s \in Sessions : job[s] \in Job /\ lock \in Sessions \cup {NoSession}
    BY DEF TypeInv, TypeOK
  <1>b. \A s \in Sessions : lock = s <=> pc[s] \in Writing
    BY DEF TransactionInv, LockInv
  <1>c. lock = NoSession => tx = db
    BY DEF TransactionInv, LockInv
  <1>d. /\ MacsDistinct(db) /\ MacsDistinct(tx) /\ OneBaseline(db) /\ OneBaseline(tx)
        /\ Extends(db, tx)
    BY DEF TransactionInv, BaselineInv
  <1>e. job \in [Sessions -> Job]
    BY DEF TypeInv, TypeOK
  <1>1. ASSUME NEW s \in Sessions, RequestPersist(s) PROVE TransactionInv'
    BY <1>1, <1>e, QuietStep DEF RequestPersist, Writing
  <1>2. ASSUME NEW s \in Sessions, BeginRun(s) PROVE TransactionInv'
    <2>1. /\ lock = NoSession /\ lock' = s /\ Goto(s, "hosts") /\ db' = db
          /\ tx' = CreateScanRun(db, job[s].now)
          /\ job' = [job EXCEPT ![s] = [job[s] EXCEPT !.run = Len(db.runs) + 1, !.next = 1]]
      BY <1>2, <1>e DEF BeginRun, AcquireLock, Job
    <2>2. job[s].now \in Nat /\ job'[s].run = Len(db.runs) + 1
      BY <1>a, <1>e, <2>1 DEF Job
    <2>3. /\ Extends(db, tx') /\ Len(tx'.runs) = Len(db.runs) + 1
          /\ BaselineRuns(tx') = BaselineRuns(db) /\ tx'.devices = db.devices
      BY <2>1, <2>2, AtHand, CreateScanRunEffect
    <2>4. MacsDistinct(tx') /\ OneBaseline(tx')
      BY <1>d, <2>3 DEF MacsDistinct, OneBaseline
    <2>5. \A x \in Sessions \ {s} : job'[x] = job[x]
      BY <2>1
    <2> QED
      BY <2>1, <2>2, <2>3, <2>4, <2>5, WriteStep DEF Writing
  <1>3. ASSUME NEW s \in Sessions, PersistHost(s) PROVE TransactionInv'
    <2> DEFINE j      == job[s]
               host   == j.scan.hosts[j.next]
               device == ResolvedDevice(tx, host, today)
               fields == ObservedFields(host, j.scan.services)
               middle == Resolved(tx, host, j.now, today)
    <2>1. fields \in Observations /\ host.mac \in Values("mac")
      BY <1>3, HostAtHand DEF PersistHost
    <2>2. j.now \in Nat /\ j.run \in Nat
      BY <1>a DEF Job
    <2>3. /\ pc[s] = "hosts" /\ db' = db /\ lock' = lock /\ pc' = pc
          /\ tx' = AddSnapshot(middle, j.run, device, fields, j.now)
          /\ job' = [job EXCEPT ![s] = [j EXCEPT !.next = @ + 1]]
      BY <1>3 DEF PersistHost
    <2>4. job'[s].run = j.run /\ \A x \in Sessions \ {s} : job'[x] = job[x]
      BY <1>a, <1>e, <2>3 DEF Job
    <2>5. lock = s /\ Goto(s, "hosts")
      BY <1>b, <2>3, AtHand DEF Writing, Goto
    <2>6. /\ IsDb(middle) /\ device \in Nat
          /\ Extends(tx, middle) /\ middle.runs = tx.runs /\ MacsDistinct(middle)
      BY <1>d, <2>1, <2>2, AtHand, ResolvedType, ResolvedEffect
    <2> HIDE DEF host, device, fields, middle
    <2>7. Extends(middle, tx') /\ tx'.runs = middle.runs /\ MacsDistinct(tx')
      BY <2>1, <2>2, <2>3, <2>6, AddSnapshotEffect
    <2>8. Extends(db, tx')
      BY <1>d, <2>6, <2>7, ExtendsTransitive
    <2>9. BaselineRuns(tx') = BaselineRuns(tx)
      BY <2>6, <2>7 DEF BaselineRuns
    <2>10. j.run = Len(db.runs) + 1 /\ Len(tx.runs) = Len(db.runs) + 1
      BY <2>3 DEF TransactionInv, RunInv
    <2>11. BaselineRuns(db) # {} => BaselineRuns(tx') # {}
      <3>1. \A x \in Sessions : pc[x] # "set_baseline"
        BY <2>3, <2>5, AtHand DEF Writing
      <3> QED
        BY <2>9, <3>1 DEF TransactionInv, BaselineInv
    <2>12. OneBaseline(tx')
      BY <1>d, <2>9 DEF OneBaseline
    <2>13. Len(tx'.runs) = Len(db.runs) + 1 /\ job'[s].run = Len(db.runs) + 1
      BY <2>4, <2>6, <2>7, <2>10
    <2> QED
      BY <2>3, <2>4, <2>5, <2>7, <2>8, <2>11, <2>12, <2>13, WriteStep DEF Writing
  <1>4. ASSUME NEW s \in Sessions, FinishRun(s) PROVE TransactionInv'
    <2> DEFINE j        == job[s]
               count    == Len(j.scan.hosts)
               records  == DiffDevices(LatestSnapshotPerDevice(tx, j.run), current[s])
    <2>1. j.run \in Nat /\ count \in Nat
      <3>1. j.scan \in Scans
        BY <1>4 DEF FinishRun, TypeInv, Supplied, Persisting
      <3> QED
        BY <1>a, <3>1, ScansAssumption, LenProperties DEF Job
    <2>2. /\ pc[s] = "hosts" /\ db' = db /\ lock' = lock /\ job' = job
          /\ Goto(s, "commit_run")
          /\ tx' = AddChanges(FinishScanRun(tx, j.run, count), j.run, records)
      BY <1>4 DEF FinishRun
    <2>3. j.run = Len(db.runs) + 1 /\ Len(tx.runs) = Len(db.runs) + 1
      BY <2>2 DEF TransactionInv, RunInv
    <2>4. lock = s
      BY <1>b, <2>2 DEF Writing
    <2>5. j.run \notin DOMAIN db.runs /\ job'[s].run = j.run
      BY <2>2, <2>3, AtHand
    <2> HIDE DEF records, count, j
    <2>6. /\ Extends(db, tx') /\ Len(tx'.runs) = Len(tx.runs)
          /\ BaselineRuns(tx') = BaselineRuns(tx) /\ tx'.devices = tx.devices
      BY <1>d, <2>1, <2>2, <2>5, AtHand, FinishEffect
    <2>7. MacsDistinct(tx') /\ OneBaseline(tx')
      BY <1>d, <2>6 DEF MacsDistinct, OneBaseline
    <2>8. BaselineRuns(db) # {} => BaselineRuns(tx') # {}
      <3>1. \A x \in Sessions : pc[x] # "set_baseline"
        BY <2>2, <2>4, AtHand DEF Writing
      <3> QED
        BY <2>6, <3>1 DEF TransactionInv, BaselineInv
    <2> QED
      BY <2>2, <2>3, <2>4, <2>5, <2>6, <2>7, <2>8, WriteStep DEF Writing
  <1>5. ASSUME NEW s \in Sessions, CommitRun(s) PROVE TransactionInv'
    <2>1. /\ pc[s] = "commit_run" /\ db' = tx /\ tx' = tx /\ lock' = NoSession
      BY <1>5 DEF CommitRun
    <2>2. lock = s
      BY <1>b, <2>1 DEF Writing
    <2>3. CASE Return(s)
      BY <2>1, <2>2, <2>3, OwnLocals, ReleaseStep DEF Writing
    <2>4. CASE Goto(s, "clear_baseline") /\ UNCHANGED <<job, current>>
      <3>1. job'[s].run = Len(tx.runs) /\ Len(tx.runs) = Len(db.runs) + 1
        BY <2>1, <2>4 DEF TransactionInv, RunInv
      <3>2. job'[s].run \in DOMAIN db'.runs
        BY <2>1, <3>1, AtHand
      <3> QED
        BY <2>1, <2>2, <2>4, <3>2, ReleaseStep DEF Writing
    <2>5. CASE /\ Goto(s, "read")
               /\ job' = [job EXCEPT ![s].reads = BroadcastOrder]
               /\ UNCHANGED current
      BY <1>e, <2>1, <2>2, <2>5, ReleaseStep DEF Writing
    <2> QED
      BY <1>5, <2>3, <2>4, <2>5 DEF CommitRun
  <1>6. ASSUME NEW s \in Sessions, RequestPin(s) PROVE TransactionInv'
    BY <1>6, <1>e, QuietStep DEF RequestPin, Writing
  <1>7. ASSUME NEW s \in Sessions, ReadLatestRun(s) PROVE TransactionInv'
    <2>1. CASE Return(s)
      BY <1>7, <2>1, OwnLocals, QuietStep DEF ReadLatestRun, Writing
    <2>2. CASE ~ Return(s)
      <3>1. /\ pc[s] = "latest" /\ db.runs # <<>>
            /\ job' = [job EXCEPT ![s].run = Len(db.runs)]
            /\ Goto(s, "clear_baseline") /\ UNCHANGED <<db, tx, lock>>
        BY <1>7, <2>2 DEF ReadLatestRun
      <3>2. job'[s].run = Len(db.runs) /\ \A x \in Sessions \ {s} : job'[x] = job[x]
        BY <1>a, <1>e, <3>1 DEF Job
      <3>3. Len(db.runs) \in DOMAIN db.runs
        <4>1. db.runs \in Seq(RunRow)
          BY AtHand, TableTypes
        <4>2. Len(db.runs) # 0
          BY <3>1, <4>1, EmptySeq
        <4> QED
          BY <4>2, AtHand
      <3> QED
        BY <3>1, <3>2, <3>3, QuietStep DEF Writing
    <2> QED
      BY <2>1, <2>2
  <1>8. ASSUME NEW s \in Sessions, ClearBaselines(s) PROVE TransactionInv'
    <2>1. /\ pc[s] = "clear_baseline" /\ lock = NoSession /\ lock' = s
          /\ tx' = ClearBaseline(db) /\ Goto(s, "set_baseline")
          /\ UNCHANGED <<db, job>>
      BY <1>8 DEF ClearBaselines, AcquireLock
    <2>2. Extends(db, tx') /\ BaselineRuns(tx') = {} /\ tx'.devices = db.devices
      BY <2>1, AtHand, ClearBaselineEffect
    <2>3. MacsDistinct(tx') /\ OneBaseline(tx')
      BY <1>d, <2>2 DEF MacsDistinct, OneBaseline
    <2>4. job'[s].run \in DOMAIN db.runs
      BY <2>1 DEF TransactionInv, RunInv
    <2> QED
      BY <2>1, <2>2, <2>3, <2>4, WriteStep DEF Writing
  <1>9. ASSUME NEW s \in Sessions, MarkBaseline(s) PROVE TransactionInv'
    <2>1. /\ pc[s] = "set_baseline" /\ tx' = SetBaseline(tx, job[s].run)
          /\ Goto(s, "commit_pin") /\ UNCHANGED <<db, lock, job>>
      BY <1>9 DEF MarkBaseline
    <2>2. lock = s /\ job[s].run \in DOMAIN tx.runs /\ BaselineRuns(tx) = {}
      BY <1>b, <2>1, AtHand DEF TransactionInv, RunInv, BaselineInv, Writing
    <2>3. /\ Extends(tx, tx') /\ BaselineRuns(tx') = {job[s].run}
          /\ tx'.devices = tx.devices
      BY <2>1, <2>2, AtHand, SetBaselineEffect
    <2>4. MacsDistinct(tx') /\ OneBaseline(tx') /\ BaselineRuns(tx') # {}
      BY <1>d, <2>3 DEF MacsDistinct, OneBaseline
    <2>5. Extends(db, tx')
      BY <1>d, <2>3, ExtendsTransitive
    <2> QED
      BY <2>1, <2>2, <2>4, <2>5, WriteStep DEF Writing
  <1>10. ASSUME NEW s \in Sessions, CommitPin(s) PROVE TransactionInv'
    <2>1. /\ pc[s] = "commit_pin" /\ db' = tx /\ tx' = tx /\ lock' = NoSession /\ Return(s)
      BY <1>10 DEF CommitPin
    <2>2. lock = s
      BY <1>b, <2>1 DEF Writing
    <2> QED
      BY <2>1, <2>2, OwnLocals, ReleaseStep DEF Writing
  <1>11. ASSUME NEW s \in Sessions, RequestChanges(s) PROVE TransactionInv'
    BY <1>11, <1>e, QuietStep DEF RequestChanges, Writing
  <1>12. ASSUME NEW s \in Sessions, ReadRun(s) \/ ReadChanges(s) \/ ReadDevices(s)
         PROVE  TransactionInv'
    <2>1. /\ pc[s] = "read" /\ UNCHANGED <<db, tx, lock>> /\ Goto(s, "read")
      BY <1>12, AtHand DEF ReadRun, ReadChanges, ReadDevices, ReadNext, Goto
    <2>2. \A x \in Sessions \ {s} : job'[x] = job[x]
      BY <1>12, <1>e DEF ReadRun, ReadChanges, ReadDevices
    <2> QED
      BY <2>1, <2>2, QuietStep DEF Writing
  <1>13. ASSUME NEW s \in Sessions, Report(s) PROVE TransactionInv'
    BY <1>13, OwnLocals, QuietStep DEF Report, Reporting, Writing
  <1>14. ASSUME NEW s \in Sessions, LockTimeout(s) PROVE TransactionInv'
    BY <1>14, OwnLocals, QuietStep DEF LockTimeout, Writing
  <1>15. ASSUME NEW s \in Sessions, Fail(s) PROVE TransactionInv'
    <2>1. CASE lock = s
      <3>1. Return(s) /\ lock' = NoSession /\ tx' = db' /\ db' = db
        BY <1>15, <2>1 DEF Fail
      <3> QED
        BY <2>1, <3>1, OwnLocals, ReleaseStep DEF Writing
    <2>2. CASE lock # s
      <3>1. Return(s) /\ UNCHANGED <<db, tx, lock>> /\ pc[s] \notin Writing
        BY <1>15, <1>b, <2>2 DEF Fail
      <3> QED
        BY <3>1, OwnLocals, QuietStep DEF Writing
    <2> QED
      BY <2>1, <2>2
  <1>16. ASSUME UNCHANGED <<db, tx, lock, pc, job>> PROVE TransactionInv'
    BY <1>16 DEF TransactionInv, LockInv, RunInv, BaselineInv, OneBaseline, BaselineRuns,
                 Extends, ChangesOfRun, MacsDistinct
  <1> QED
    BY <1>1, <1>2, <1>3, <1>4, <1>5, <1>6, <1>7, <1>8, <1>9, <1>10, <1>11, <1>12,
       <1>13, <1>14, <1>15, <1>16 DEF Next, Request, Work, Tick, vars

\* Both invariants hold in every reachable state.
THEOREM TransactionSafe == Spec => [](TypeInv /\ TransactionInv)
  <1>1. Init => TypeInv /\ TransactionInv
    BY TypeInvInit, TransactionInit
  <1>2. TypeInv /\ TransactionInv /\ [Next]_vars => (TypeInv /\ TransactionInv)'
    BY TypeInvStep, TransactionStep
  <1> QED
    BY <1>1, <1>2, PTL DEF Spec

\* At most one run is the baseline, whoever pins.
THEOREM OnlyOneBaseline == Spec => []BaselineUnique
  <1>1. TransactionInv => BaselineUnique
    BY DEF TransactionInv, BaselineInv, BaselineUnique
  <1> QED
    BY <1>1, TransactionSafe, PTL

\* No two devices have the same primary MAC, whoever scans.
THEOREM IdentitiesApart == Spec => []UniquePrimaryMac
  <1>1. TransactionInv => UniquePrimaryMac
    BY DEF TransactionInv, UniquePrimaryMac
  <1> QED
    BY <1>1, TransactionSafe, PTL

\* What a step commits extends what was committed before.
LEMMA ExtendsStep == TypeInv /\ TransactionInv /\ [Next]_vars => Extends(db, db')
  <1> SUFFICES ASSUME TypeInv, TransactionInv, [Next]_vars PROVE Extends(db, db')
    OBVIOUS
  <1>1. db' = db \/ db' = tx
    BY DEF Next, Request, Work, Tick, vars, RequestPersist, BeginRun, PersistHost,
           FinishRun, CommitRun, RequestPin, ReadLatestRun, ClearBaselines,
           MarkBaseline, CommitPin, RequestChanges, ReadRun, ReadChanges, ReadDevices,
           ReadNext, Report, LockTimeout, Fail
  <1> QED
    BY <1>1, ExtendsReflexive DEF TransactionInv

\* Nothing that is committed is ever taken back.
THEOREM NothingTakenBack == Spec => HistoryAppendOnly
  <1>1. TypeInv /\ TransactionInv /\ [Next]_vars => [Extends(db, db')]_vars
    BY ExtendsStep
  <1> QED
    BY <1>1, TransactionSafe, PTL DEF Spec, HistoryAppendOnly

\* A step that leaves no baseline where there was one does not exist.
THEOREM BaselineNeverLost == Spec => BaselineKept
  <1>1. TypeInv /\ TransactionInv /\ [Next]_vars =>
          [BaselineRuns(db) # {} => BaselineRuns(db') # {}]_vars
    <2> SUFFICES ASSUME TypeInv, TransactionInv, [Next]_vars, BaselineRuns(db) # {}
                 PROVE  BaselineRuns(db') # {}
      OBVIOUS
    <2>1. CASE db' = db
      BY <2>1
    <2>2. CASE db' # db
      <3>1. PICK s \in Sessions : CommitRun(s) \/ CommitPin(s)
        BY <2>2 DEF Next, Request, Work, Tick, vars, RequestPersist, BeginRun, PersistHost,
             FinishRun, RequestPin, ReadLatestRun, ClearBaselines,
             MarkBaseline, RequestChanges, ReadRun, ReadChanges, ReadDevices,
             ReadNext, Report, LockTimeout, Fail
      <3>2. db' = tx /\ pc[s] \in Writing /\ pc[s] # "set_baseline"
        BY <3>1 DEF CommitRun, CommitPin, Writing
      <3>3. \A x \in Sessions : pc[x] # "set_baseline"
        BY <3>2, AtHand DEF TransactionInv, LockInv, Writing
      <3> QED
        BY <3>2, <3>3 DEF TransactionInv, BaselineInv
    <2> QED
      BY <2>1, <2>2
  <1> QED
    BY <1>1, TransactionSafe, PTL DEF Spec, BaselineKept

-----------------------------------------------------------------------------
(* The work of a session comes to an end, whatever the others do: what is  *)
(* left of it becomes less with each of its statements.                    *)

\* The hosts a session has not yet persisted.
HostsLeft(j) == IF j.next <= Len(j.scan.hosts) THEN Len(j.scan.hosts) - j.next + 1 ELSE 0

\* No more statements than these are left to a session, and the retries of
\* none: a wait for the lock ends with the lock or with the timeout.
StatementsLeft(label, j) ==
  CASE label = "begin"          -> 7 + Len(j.scan.hosts)
    [] label = "hosts"          -> 6 + HostsLeft(j)
    [] label = "commit_run"     -> 5
    [] label = "latest"         -> 4
    [] label = "clear_baseline" -> 3
    [] label = "set_baseline"   -> 2
    [] label = "commit_pin"     -> 1
    [] label = "read"           -> 1 + Len(j.reads)
    [] label = "idle"           -> 0

Left(s) == StatementsLeft(pc[s], job[s])

\* The lengths the count is made of.
LEMMA LeftTypes ==
  ASSUME TypeInv, NEW s \in Sessions
  PROVE  /\ Left(s) \in Nat /\ (Left(s) = 0 <=> pc[s] = "idle")
         /\ job \in [Sessions -> Job] /\ pc \in [Sessions -> Labels] /\ job[s] \in Job
         /\ job[s].next \in Nat /\ Len(job[s].reads) \in Nat
         /\ pc[s] \in Persisting => Len(job[s].scan.hosts) \in Nat
         /\ pc[s] = "hosts" => HostsLeft(job[s]) \in Nat
  <1>1. job \in [Sessions -> Job] /\ pc \in [Sessions -> Labels] /\ job[s] \in Job
    BY DEF TypeInv, TypeOK
  <1>2. job[s].next \in Nat /\ Len(job[s].reads) \in Nat
    BY <1>1, LenProperties DEF Job
  <1>3. ASSUME pc[s] \in Persisting PROVE Len(job[s].scan.hosts) \in Nat
    <2>1. job[s].scan \in Scans
      BY <1>3 DEF TypeInv, Supplied
    <2>2. job[s].scan.hosts \in Seq(Hosts)
      BY <2>1, ScansAssumption
    <2> QED
      BY <2>2, LenProperties
  <1>4. pc[s] = "hosts" => HostsLeft(job[s]) \in Nat
    BY <1>2, <1>3 DEF HostsLeft, Persisting
  <1>5. Left(s) \in Nat /\ (Left(s) = 0 <=> pc[s] = "idle")
    BY <1>1, <1>2, <1>3, <1>4 DEF Left, StatementsLeft, Labels, Persisting
  <1> QED
    BY <1>1, <1>2, <1>3, <1>4, <1>5

\* What is left is a number that a statement can shorten.
LEMMA LeftIsNumber == TypeInv => \A s \in Sessions : Left(s) \in Nat
  BY LeftTypes

\* A statement of a session.
LEMMA WorkShortens ==
  ASSUME TypeInv, NEW s \in Sessions, Work(s)
  PROVE  Left(s)' < Left(s)
  <1>1. /\ job \in [Sessions -> Job] /\ pc \in [Sessions -> Labels] /\ job[s] \in Job
        /\ job[s].next \in Nat /\ Len(job[s].reads) \in Nat
        /\ pc[s] \in Persisting => Len(job[s].scan.hosts) \in Nat
        /\ Left(s) \in Nat /\ (Left(s) = 0 <=> pc[s] = "idle")
    BY LeftTypes
  <1>2. ASSUME Return(s), pc[s] # "idle" PROVE Left(s)' < Left(s)
    <2>1. pc'[s] = "idle"
      BY <1>1, <1>2 DEF Return, Goto
    <2>2. Left(s)' = 0
      BY <2>1 DEF Left, StatementsLeft
    <2> QED
      BY <1>1, <1>2, <2>2
  <1>3. CASE BeginRun(s)
    <2>1. pc[s] = "begin" /\ pc'[s] = "hosts"
      BY <1>1, <1>3 DEF BeginRun, Goto
    <2>2. job'[s] = [job[s] EXCEPT !.run = Len(db.runs) + 1, !.next = 1]
      BY <1>1, <1>3 DEF BeginRun
    <2>3. job'[s].next = 1 /\ job'[s].scan = job[s].scan
      BY <1>1, <2>2 DEF Job
    <2>4. Left(s) = 7 + Len(job[s].scan.hosts) /\ Left(s)' = 6 + HostsLeft(job'[s])
      BY <2>1 DEF Left, StatementsLeft
    <2> QED
      BY <1>1, <2>1, <2>3, <2>4 DEF HostsLeft, Persisting
  <1>4. CASE PersistHost(s)
    <2>1. pc[s] = "hosts" /\ pc'[s] = "hosts" /\ job[s].next <= Len(job[s].scan.hosts)
      BY <1>4 DEF PersistHost
    <2>2. job'[s] = [job[s] EXCEPT !.next = @ + 1]
      BY <1>1, <1>4 DEF PersistHost
    <2>3. job'[s].next = job[s].next + 1 /\ job'[s].scan = job[s].scan
      BY <1>1, <2>2 DEF Job
    <2>4. Left(s) = 6 + HostsLeft(job[s]) /\ Left(s)' = 6 + HostsLeft(job'[s])
      BY <2>1 DEF Left, StatementsLeft
    <2> QED
      BY <1>1, <2>1, <2>3, <2>4 DEF HostsLeft, Persisting
  <1>5. CASE FinishRun(s)
    <2>1. pc[s] = "hosts" /\ pc'[s] = "commit_run"
      BY <1>1, <1>5 DEF FinishRun, Goto
    <2>2. Left(s) = 6 + HostsLeft(job[s]) /\ Left(s)' = 5 /\ HostsLeft(job[s]) \in Nat
      BY <2>1, LeftTypes DEF Left, StatementsLeft
    <2> QED
      BY <2>2
  <1>6. CASE CommitRun(s)
    <2>1. pc[s] = "commit_run" /\ Left(s) = 5
      BY <1>6 DEF CommitRun, Left, StatementsLeft
    <2>2. CASE Return(s)
      BY <1>2, <2>1, <2>2
    <2>3. CASE Goto(s, "clear_baseline")
      <3>1. pc'[s] = "clear_baseline"
        BY <1>1, <2>3 DEF Goto
      <3>2. Left(s)' = 3
        BY <3>1 DEF Left, StatementsLeft
      <3> QED
        BY <2>1, <3>2
    <2>4. CASE Goto(s, "read") /\ job' = [job EXCEPT ![s].reads = BroadcastOrder]
      <3>1. pc'[s] = "read" /\ job'[s].reads = BroadcastOrder
        BY <1>1, <2>4 DEF Goto, Job
      <3>2. Left(s)' = 1 + Len(BroadcastOrder)
        BY <3>1 DEF Left, StatementsLeft
      <3> QED
        BY <2>1, <3>2 DEF BroadcastOrder
    <2> QED
      BY <1>6, <2>2, <2>3, <2>4 DEF CommitRun
  <1>7. CASE ReadLatestRun(s)
    <2>1. pc[s] = "latest" /\ Left(s) = 4
      BY <1>7 DEF ReadLatestRun, Left, StatementsLeft
    <2>2. CASE Goto(s, "clear_baseline")
      <3>1. pc'[s] = "clear_baseline"
        BY <1>1, <2>2 DEF Goto
      <3>2. Left(s)' = 3
        BY <3>1 DEF Left, StatementsLeft
      <3> QED
        BY <2>1, <3>2
    <2> QED
      BY <1>2, <1>7, <2>1, <2>2 DEF ReadLatestRun
  <1>8. CASE ClearBaselines(s) \/ MarkBaseline(s)
    <2>1. \/ pc[s] = "clear_baseline" /\ pc'[s] = "set_baseline"
          \/ pc[s] = "set_baseline" /\ pc'[s] = "commit_pin"
      BY <1>1, <1>8 DEF ClearBaselines, MarkBaseline, Goto
    <2> QED
      BY <2>1 DEF Left, StatementsLeft
  <1>9. CASE CommitPin(s) \/ Report(s) \/ LockTimeout(s)
    BY <1>2, <1>9 DEF CommitPin, Report, Reporting, LockTimeout
  <1>10. CASE ReadRun(s) \/ ReadChanges(s) \/ ReadDevices(s)
    <2>1. pc[s] = "read" /\ pc'[s] = "read" /\ job[s].reads # <<>>
      BY <1>10 DEF ReadRun, ReadChanges, ReadDevices, ReadNext
    <2>2. job'[s].reads = Tail(job[s].reads)
      BY <1>1, <1>10 DEF ReadRun, ReadChanges, ReadDevices, Job
    <2>3. Len(job'[s].reads) = Len(job[s].reads) - 1
      <3>1. job[s].reads \in Seq({"run", "changes", "devices"})
        BY <1>1 DEF Job
      <3> QED
        BY <2>1, <2>2, <3>1, HeadTailProperties
    <2>4. Left(s) = 1 + Len(job[s].reads) /\ Left(s)' = 1 + Len(job'[s].reads)
      BY <2>1 DEF Left, StatementsLeft
    <2> QED
      BY <1>1, <2>3, <2>4
  <1> QED
    BY <1>3, <1>4, <1>5, <1>6, <1>7, <1>8, <1>9, <1>10 DEF Work

\* The steps of others.
LEMMA OthersKeepLeft ==
  ASSUME TypeInv, NEW s \in Sessions, NEW x \in Sessions \ {s}, Request(x) \/ Work(x) \/ Fail(x)
  PROVE  Left(s)' = Left(s)
  <1>1. job \in [Sessions -> Job] /\ pc \in [Sessions -> Labels]
    BY DEF TypeInv, TypeOK
  <1>2. pc'[s] = pc[s] /\ job'[s] = job[s]
    BY <1>1 DEF Request, Work, Fail, Return, Goto, RequestPersist, BeginRun, PersistHost,
           FinishRun, CommitRun, RequestPin, ReadLatestRun, ClearBaselines,
           MarkBaseline, CommitPin, RequestChanges, ReadRun, ReadChanges, ReadDevices,
           ReadNext, Report, LockTimeout
  <1> QED
    BY <1>2 DEF Left

\* Each statement of a session leaves less to do, a failure nothing at all,
\* and nobody else adds to it; only an idle session takes on new work.
WorkRunsOut == \A s \in Sessions :
  /\ Left(s) = 0 <=> pc[s] = "idle"
  /\ Work(s) => Left(s)' < Left(s)
  /\ Left(s)' > Left(s) => pc[s] = "idle"

\* Whatever the other sessions do, the statements left to one are numbered:
\* with a fair scheduler, which TLC's run assumes, what is asked for ends.
THEOREM EachStatementCounts == Spec => [][WorkRunsOut]_vars
  <1>0. TypeInv' => (\A s \in Sessions : Left(s) \in Nat)'
    BY LeftIsNumber, PTL
  <1>1. TypeInv /\ [Next]_vars => [WorkRunsOut]_vars
    <2> SUFFICES ASSUME TypeInv, Next, NEW s \in Sessions
                 PROVE  /\ Left(s) = 0 <=> pc[s] = "idle"
                        /\ Work(s) => Left(s)' < Left(s)
                        /\ Left(s)' > Left(s) => pc[s] = "idle"
      BY DEF WorkRunsOut
    <2>0. Left(s)' \in Nat
      BY <1>0, TypeInvStep
    <2>1. Left(s) \in Nat /\ (Left(s) = 0 <=> pc[s] = "idle")
      BY LeftTypes
    <2>2. Work(s) => Left(s)' < Left(s)
      BY WorkShortens
    <2>3. CASE Tick
      <3>1. Left(s)' = Left(s)
        BY <2>3 DEF Tick, Left
      <3> QED
        BY <2>1, <2>2, <3>1
    <2>4. ASSUME NEW x \in Sessions, Request(x) \/ Work(x) \/ Fail(x), x # s
          PROVE  Left(s)' = Left(s)
      BY <2>4, OthersKeepLeft
    <2>5. CASE Request(s)
      BY <2>1, <2>2, <2>5 DEF Request, RequestPersist, RequestPin, RequestChanges
    <2>6. CASE Fail(s)
      <3>1. pc'[s] = "idle"
        BY <2>6, LeftTypes DEF Fail, Return, Goto
      <3>2. Left(s)' = 0
        BY <3>1 DEF Left, StatementsLeft
      <3> QED
        BY <2>1, <2>2, <3>2
    <2>7. CASE Work(s)
      <3>1. Left(s)' < Left(s)
        BY <2>7, WorkShortens
      <3> QED
        BY <2>0, <2>1, <2>2, <3>1
    <2>8. CASE \E x \in Sessions : Request(x) \/ Work(x) \/ Fail(x)
      <3>1. PICK x \in Sessions : Request(x) \/ Work(x) \/ Fail(x)
        BY <2>8
      <3>2. CASE x # s
        <4>1. Left(s)' = Left(s)
          BY <2>4, <3>1, <3>2
        <4> QED
          BY <2>1, <2>2, <4>1
      <3> QED
        BY <2>5, <2>6, <2>7, <3>1, <3>2
    <2> QED
      BY <2>3, <2>8 DEF Next
  <1> QED
    BY <1>1, TransactionSafe, PTL DEF Spec

-----------------------------------------------------------------------------
(* The lookups of the repository. *)

\* find_device_by_mac finds one device at most, in the middle of any
\* transaction: scalar_one_or_none does not raise.
LookupsSucceed == \A s \in Sessions :
  pc[s] = "hosts" /\ job[s].next <= Len(job[s].scan.hosts)
    => ~ Ambiguous(tx, job[s].scan.hosts[job[s].next])

\* Whatever others have committed since the scan began, no host it brings
\* is ambiguous, so that PersistHost can always go on.
THEOREM NoLookupRaises == Spec => []LookupsSucceed
  <1>1. TypeInv /\ TransactionInv => LookupsSucceed
    <2> SUFFICES ASSUME TransactionInv, NEW host, HasStableMac(host), Ambiguous(tx, host)
                 PROVE  FALSE
      BY DEF LookupsSucceed, Ambiguous
    <2>1. \A a, b \in FindByMac(tx, host.mac) : a = b
      BY DEF TransactionInv, MacsDistinct, FindByMac, HasStableMac
    <2>2. CASE FindByMac(tx, host.mac) = {}
      BY <2>2, FS_EmptySet DEF Ambiguous
    <2>3. CASE FindByMac(tx, host.mac) # {}
      <3>1. PICK a \in FindByMac(tx, host.mac) : FindByMac(tx, host.mac) = {a}
        BY <2>1, <2>3
      <3>2. Cardinality({a}) = 1
        BY FS_Singleton
      <3> QED
        BY <3>1, <3>2 DEF Ambiguous
    <2> QED
      BY <2>2, <2>3
  <1> QED
    BY <1>1, TransactionSafe, PTL

=============================================================================
