--------------------------- MODULE InventoryHistory ---------------------------
(***************************************************************************)
(* Proofs about what the tables contain, whatever the sessions do: runs    *)
(* are complete, rows follow snapshots, identities are respected, and      *)
(* reports show whole runs.                                                *)
(***************************************************************************)
EXTENDS InventorySafety

-----------------------------------------------------------------------------
(* What a database contains, between any two statements of a transaction.  *)

\* What a row refers to exists.
RefsOk(d) ==
  /\ \A i \in DOMAIN d.snaps : /\ d.snaps[i].scan_run_id \in DOMAIN d.runs
                               /\ d.snaps[i].device_id \in DOMAIN d.devices
  /\ \A c \in d.changes : /\ c.scan_run_id \in DOMAIN d.runs
                          /\ c.device_id \in DOMAIN d.devices

\* DeviceRowsInSync, of a database.
RowsOk(d) == \A e \in DOMAIN d.devices :
  /\ SnapIds(d, e) # {}
  /\ LET newest == d.snaps[Greatest(SnapIds(d, e))]
     IN  d.devices[e] = Observed(d.devices[e], newest.fields, newest.created_at)

\* MacIdentityStable, of a database in which randomised MACs identify nobody.
MacsOk(d) ==
  /\ \A e \in DOMAIN d.devices :
       d.devices[e].primary_mac # None => ~ IsMacRandomized(d.devices[e].primary_mac)
  /\ \A e \in DOMAIN d.devices, i \in DOMAIN d.snaps :
       LET mac == d.snaps[i].fields.mac IN
       /\ mac # None /\ mac = d.devices[e].primary_mac
       /\ \E j \in SnapIds(d, e) : j <= i
       => d.snaps[i].device_id = e

\* GraceRespected, of a database.
GraceOk(d) == \A i, j \in DOMAIN d.snaps :
  LET a == d.snaps[i]  b == d.snaps[j] IN
  /\ i < j /\ a.device_id = b.device_id
  /\ \A k \in SnapIds(d, a.device_id) : k <= i \/ j <= k
  /\ b.created_at > a.created_at + GraceDays
  => b.fields.mac # None /\ b.fields.mac = d.devices[b.device_id].primary_mac

Sound(d) == RefsOk(d) /\ RowsOk(d) /\ MacsOk(d) /\ GraceOk(d)

\* The snapshots of a run, and the runs that say how many they have.
SnapsOf(d, run)  == {i \in DOMAIN d.snaps : d.snaps[i].scan_run_id = run}
CountsOk(d, open) == \A r \in DOMAIN d.runs \ open :
  d.runs[r].host_count = Cardinality(SnapsOf(d, r))

-----------------------------------------------------------------------------
(* The operations of the repository. *)

\* Devices and snapshots stay, runs come, and events refer to what is there.
LEMMA SoundKept ==
  ASSUME NEW d, Sound(d), NEW new, new.devices = d.devices, new.snaps = d.snaps,
         DOMAIN d.runs \subseteq DOMAIN new.runs,
         \A c \in new.changes : /\ c \in d.changes \/ c.scan_run_id \in DOMAIN new.runs
                                /\ c \in d.changes \/ c.device_id \in DOMAIN new.devices
  PROVE  Sound(new)
  <1>1. \A e : SnapIds(new, e) = SnapIds(d, e)
    BY DEF SnapIds
  <1>2. RefsOk(new)
    BY DEF Sound, RefsOk
  <1>3. RowsOk(new)
    BY <1>1 DEF Sound, RowsOk
  <1>4. MacsOk(new)
    BY <1>1 DEF Sound, MacsOk
  <1>5. GraceOk(new)
    BY <1>1 DEF Sound, GraceOk
  <1> QED
    BY <1>2, <1>3, <1>4, <1>5 DEF Sound

LEMMA EmptyDbSound == Sound(EmptyDb) /\ CountsOk(EmptyDb, {})
  BY DEF EmptyDb, Sound, RefsOk, RowsOk, MacsOk, GraceOk, CountsOk

\* A run that is new has no snapshot.
LEMMA CreateScanRunSound ==
  ASSUME NEW d, IsDb(d), Sound(d), CountsOk(d, {}), NEW now \in Nat
  PROVE  LET new == CreateScanRun(d, now)
             run == Len(d.runs) + 1
         IN  Sound(new) /\ CountsOk(new, {run}) /\ Cardinality(SnapsOf(new, run)) = 0
  <1> DEFINE row == [started_at |-> now, host_count |-> 0, is_baseline |-> FALSE]
             new == CreateScanRun(d, now)
             run == Len(d.runs) + 1
  <1>1. new = [d EXCEPT !.runs = Append(d.runs, row)]
    BY DEF CreateScanRun
  <1>2. /\ new.runs = Append(d.runs, row) /\ new.snaps = d.snaps
        /\ new.devices = d.devices /\ new.changes = d.changes
    BY <1>1 DEF IsDb
  <1>3. row \in RunRow
    BY DEF RunRow
  <1> HIDE DEF row, new
  <1>4. /\ DOMAIN new.runs = DOMAIN d.runs \cup {run} /\ run \notin DOMAIN d.runs
        /\ \A r \in DOMAIN d.runs : new.runs[r] = d.runs[r]
    BY <1>2, <1>3, TableTypes, RowAppended
  <1>5. Sound(new)
    BY <1>2, <1>4, SoundKept
  <1>6. CountsOk(new, {run})
    <2>1. \A r : SnapsOf(new, r) = SnapsOf(d, r)
      BY <1>2 DEF SnapsOf
    <2> QED
      BY <1>4, <2>1 DEF CountsOk
  <1>7. SnapsOf(new, run) = {}
    BY <1>2, <1>4 DEF SnapsOf, Sound, RefsOk
  <1> QED
    BY <1>5, <1>6, <1>7, FS_EmptySet DEF new

\* Finishing a run closes it with the number of its snapshots.
LEMMA FinishSound ==
  ASSUME NEW d, IsDb(d), Sound(d), NEW run \in DOMAIN d.runs, CountsOk(d, {run}),
         NEW count \in Nat, count = Cardinality(SnapsOf(d, run)),
         NEW records, \A c \in records : c.device_id \in DOMAIN d.devices
  PROVE  LET new == AddChanges(FinishScanRun(d, run, count), run, records)
         IN  Sound(new) /\ CountsOk(new, {})
  <1> DEFINE row == [d.runs[run] EXCEPT !.host_count = count]
             fin == FinishScanRun(d, run, count)
             new == AddChanges(fin, run, records)
             events == {[scan_run_id |-> run, device_id |-> c.device_id, change |-> c.change] :
                          c \in records}
  <1>1. /\ fin.runs = [d.runs EXCEPT ![run] = row] /\ fin.snaps = d.snaps
        /\ fin.devices = d.devices /\ fin.changes = d.changes /\ IsDb(fin)
    <2>1. run \in Nat
      BY TableTypes, LenProperties
    <2>2. IsDb(fin)
      BY <2>1, FinishScanRunType
    <2> QED
      BY <2>2 DEF FinishScanRun, IsDb
  <1>2. /\ new.runs = fin.runs /\ new.snaps = fin.snaps
        /\ new.devices = fin.devices /\ new.changes = fin.changes \cup events
    BY <1>1 DEF AddChanges, IsDb
  <1>3. row.host_count = count
    <2>1. \A r \in RunRow : [r EXCEPT !.host_count = count].host_count = count
      BY DEF RunRow
    <2>2. d.runs[run] \in RunRow
      BY TableTypes, LenProperties
    <2> QED
      BY <2>1, <2>2
  <1>4. \A c \in events : c.scan_run_id = run /\ c.device_id \in DOMAIN d.devices
    OBVIOUS
  <1> HIDE DEF row, fin, new, events
  <1>5. Sound(new)
    BY <1>1, <1>2, <1>4, SoundKept
  <1>6. \A r : SnapsOf(new, r) = SnapsOf(d, r)
    BY <1>1, <1>2 DEF SnapsOf
  <1>7. CountsOk(new, {})
    BY <1>1, <1>2, <1>3, <1>6 DEF CountsOk
  <1> QED
    BY <1>5, <1>7 DEF new, fin

\* The baseline mark is not among what a run contains.
LEMMA MarkSound ==
  ASSUME NEW d, IsDb(d), Sound(d), CountsOk(d, {}), NEW run \in DOMAIN d.runs
  PROVE  /\ Sound(ClearBaseline(d)) /\ CountsOk(ClearBaseline(d), {})
         /\ Sound(SetBaseline(d, run)) /\ CountsOk(SetBaseline(d, run), {})
  <1> DEFINE cleared == ClearBaseline(d)
             marked  == SetBaseline(d, run)
             row     == [d.runs[run] EXCEPT !.is_baseline = TRUE]
  <1>1. /\ cleared.runs = [r \in DOMAIN d.runs |-> [d.runs[r] EXCEPT !.is_baseline = FALSE]]
        /\ cleared.snaps = d.snaps /\ cleared.devices = d.devices /\ cleared.changes = d.changes
    BY DEF ClearBaseline, IsDb
  <1>2. /\ marked.runs = [d.runs EXCEPT ![run] = row]
        /\ marked.snaps = d.snaps /\ marked.devices = d.devices /\ marked.changes = d.changes
    BY DEF SetBaseline, IsDb
  <1>3. \A r \in RunRow, b \in BOOLEAN : [r EXCEPT !.is_baseline = b].host_count = r.host_count
    BY DEF RunRow
  <1>4. \A r \in DOMAIN d.runs : d.runs[r] \in RunRow
    BY TableTypes, LenProperties
  <1> HIDE DEF cleared, marked
  <1>5. /\ DOMAIN cleared.runs = DOMAIN d.runs /\ DOMAIN marked.runs = DOMAIN d.runs
        /\ \A r \in DOMAIN d.runs : /\ cleared.runs[r].host_count = d.runs[r].host_count
                                    /\ marked.runs[r].host_count = d.runs[r].host_count
    BY <1>1, <1>2, <1>3, <1>4
  <1>6. Sound(cleared) /\ Sound(marked)
    BY <1>1, <1>2, <1>5, SoundKept
  <1>7. CountsOk(cleared, {}) /\ CountsOk(marked, {})
    <2>1. \A r : SnapsOf(cleared, r) = SnapsOf(d, r) /\ SnapsOf(marked, r) = SnapsOf(d, r)
      BY <1>1, <1>2 DEF SnapsOf
    <2> QED
      BY <1>5, <2>1 DEF CountsOk
  <1> QED
    BY <1>6, <1>7 DEF cleared, marked

-----------------------------------------------------------------------------
(* Persisting a host: the device is looked up or created, a snapshot added *)
(* and the row of the device updated.                                      *)

\* The MAC a device is created with.
Primary(host) == IF HasRandomizedMac(host) THEN None ELSE host.mac

\* What new has more than d.
Recorded(d, new, host, run, device, fields, now, day) ==
  LET n == Len(d.snaps) + 1 IN
  /\ new.runs = d.runs /\ new.changes = d.changes
  /\ n \in Nat \ {0} /\ DOMAIN d.snaps = 1..(n - 1) /\ DOMAIN new.snaps = 1..n
  /\ \A i \in DOMAIN d.snaps : new.snaps[i] = d.snaps[i]
  /\ new.snaps[n] = [scan_run_id |-> run, device_id |-> device,
                     fields |-> fields, created_at |-> now]
  /\ DOMAIN new.devices = DOMAIN d.devices \cup {device}
  /\ \A e \in DOMAIN d.devices \ {device} : new.devices[e] = d.devices[e]
  /\ \E row \in DeviceRow :
       /\ new.devices[device] = Observed(row, fields, now)
       /\ device \in DOMAIN d.devices => row = d.devices[device]
       /\ device \notin DOMAIN d.devices => row.primary_mac = Primary(host)
  /\ device \in DOMAIN d.devices => device \in Matches(d, host, day)
  /\ device \notin DOMAIN d.devices => Matches(d, host, day) = {}

\* What observing a device leaves of its row.
LEMMA ObservedRow ==
  ASSUME NEW row \in DeviceRow, NEW fields, NEW now
  PROVE  LET new == Observed(row, fields, now)
         IN  /\ new.primary_mac = row.primary_mac
             /\ new.last_seen = now
             /\ Observed(new, fields, now) = new
  BY DEF DeviceRow, Observed

LEMMA PersistRecords ==
  ASSUME NEW d, IsDb(d), NEW host, host.mac \in Values("mac"), NEW run \in Nat,
         NEW fields \in Observations, NEW now \in Nat, NEW day \in Nat
  PROVE  LET device == ResolvedDevice(d, host, day)
         IN  Recorded(d, AddSnapshot(Resolved(d, host, now, day), run, device, fields, now),
                      host, run, device, fields, now, day)
  <1> DEFINE device == ResolvedDevice(d, host, day)
             middle == Resolved(d, host, now, day)
             snap == [scan_run_id |-> run, device_id |-> device,
                      fields |-> fields, created_at |-> now]
             row == Observed(middle.devices[device], fields, now)
             new == AddSnapshot(middle, run, device, fields, now)
  <1>1. IsDb(middle) /\ device \in Nat
    BY ResolvedType
  <1>2. /\ middle.snaps = d.snaps /\ middle.runs = d.runs /\ middle.changes = d.changes
    BY DEF Resolved, CreateDevice, IsDb
  <1>3. /\ DOMAIN middle.devices = DOMAIN d.devices \cup {device}
        /\ \A e \in DOMAIN d.devices : middle.devices[e] = d.devices[e]
        /\ device \in DOMAIN d.devices => device \in Matches(d, host, day)
        /\ device \notin DOMAIN d.devices =>
             Matches(d, host, day) = {} /\ middle.devices[device].primary_mac = Primary(host)
    <2>1. d.devices \in Seq(DeviceRow) /\ Len(d.devices) \in Nat /\ DOMAIN d.devices = 1..Len(d.devices)
      BY TableTypes, LenProperties
    <2>2. CASE Matches(d, host, day) # {}
      <3>1. Matches(d, host, day) \subseteq DOMAIN d.devices
        BY DEF Matches, FindByMac, FindByIpRecent
      <3>2. device \in Matches(d, host, day)
        BY <2>1, <2>2, <3>1, LeastProperties DEF ResolvedDevice
      <3> QED
        BY <2>2, <3>1, <3>2 DEF Resolved
    <2>3. CASE Matches(d, host, day) = {}
      <3> DEFINE fresh == [primary_mac |-> Primary(host),
                           is_mac_randomized |-> HasRandomizedMac(host),
                           first_seen |-> now, last_seen |-> now, last_ip |-> None,
                           last_hostname |-> None, last_vendor |-> None,
                           last_os_guess |-> None, last_device_type |-> None]
      <3>1. middle.devices = Append(d.devices, fresh) /\ device = Len(d.devices) + 1
        BY <2>3 DEF Resolved, CreateDevice, ResolvedDevice, Primary, IsDb
      <3>2. fresh \in DeviceRow /\ fresh.primary_mac = Primary(host)
        BY DEF DeviceRow, Values, Primary, HasRandomizedMac
      <3> HIDE DEF fresh, middle, device
      <3> QED
        BY <2>1, <2>3, <3>1, <3>2, RowAppended
    <2> QED
      BY <2>2, <2>3
  <1>4. /\ new.snaps = Append(middle.snaps, snap)
        /\ new.devices = [middle.devices EXCEPT ![device] = row]
        /\ new.runs = middle.runs /\ new.changes = middle.changes
    BY <1>1 DEF AddSnapshot, IsDb
  <1>5. snap \in SnapRow
    BY <1>1 DEF SnapRow
  <1>6. middle.devices[device] \in DeviceRow
    BY <1>1, <1>3, TableTypes, LenProperties, ElementOfSeq
  <1> HIDE DEF device, middle, snap, new
  <1>7. /\ Len(d.snaps) + 1 \in Nat \ {0} /\ DOMAIN d.snaps = 1..Len(d.snaps)
        /\ DOMAIN new.snaps = 1..(Len(d.snaps) + 1)
        /\ \A i \in DOMAIN d.snaps : new.snaps[i] = d.snaps[i]
        /\ new.snaps[Len(d.snaps) + 1] = snap
    BY <1>2, <1>4, <1>5, TableTypes, RowAppended
  <1>8. /\ DOMAIN new.devices = DOMAIN d.devices \cup {device}
        /\ \A e \in DOMAIN d.devices \ {device} : new.devices[e] = d.devices[e]
        /\ new.devices[device] = Observed(middle.devices[device], fields, now)
    BY <1>3, <1>4
  <1> QED
    BY <1>2, <1>3, <1>4, <1>6, <1>7, <1>8 DEF Recorded, device, middle, snap, new

\* The new snapshot is the newest of its device, and of no other.
LEMMA RecordedIds ==
  ASSUME NEW d, NEW new, NEW host, NEW run, NEW device, NEW fields, NEW now, NEW day,
         Recorded(d, new, host, run, device, fields, now, day)
  PROVE  LET n == Len(d.snaps) + 1
         IN  /\ n \in Nat /\ \A i \in DOMAIN new.snaps : i \in Nat /\ i <= n
             /\ \A e : e # device => SnapIds(new, e) = SnapIds(d, e)
             /\ SnapIds(new, device) = SnapIds(d, device) \cup {n}
             /\ \A e : SnapIds(d, e) \subseteq DOMAIN d.snaps
             /\ n \notin DOMAIN d.snaps /\ DOMAIN new.snaps = DOMAIN d.snaps \cup {n}
             /\ new.snaps[n].device_id = device /\ new.snaps[n].scan_run_id = run
             /\ new.snaps[n].fields = fields /\ new.snaps[n].created_at = now
             /\ Greatest(SnapIds(new, device)) = n
  <1> DEFINE n == Len(d.snaps) + 1
  <1>1. /\ n \in Nat \ {0} /\ DOMAIN d.snaps = 1..(n - 1) /\ DOMAIN new.snaps = 1..n
        /\ \A i \in DOMAIN d.snaps : new.snaps[i] = d.snaps[i]
        /\ new.snaps[n] = [scan_run_id |-> run, device_id |-> device,
                           fields |-> fields, created_at |-> now]
    BY DEF Recorded
  <1> HIDE DEF n
  <1>2. n \notin DOMAIN d.snaps /\ DOMAIN new.snaps = DOMAIN d.snaps \cup {n}
    BY <1>1
  <1>3. new.snaps[n].device_id = device
    BY <1>1
  <1>4. /\ \A e : e # device => SnapIds(new, e) = SnapIds(d, e)
        /\ SnapIds(new, device) = SnapIds(d, device) \cup {n}
    BY <1>1, <1>2, <1>3 DEF SnapIds
  <1>5. SnapIds(new, device) \in SUBSET (1..n) /\ n \in SnapIds(new, device)
    BY <1>1, <1>4 DEF SnapIds
  <1>6. Greatest(SnapIds(new, device)) = n
    <2>1. Greatest(SnapIds(new, device)) \in SnapIds(new, device) /\ Greatest(SnapIds(new, device)) >= n
      BY <1>1, <1>5, GreatestProperties
    <2> QED
      BY <1>1, <1>5, <2>1
  <1> QED
    BY <1>1, <1>2, <1>3, <1>4, <1>6 DEF SnapIds, n

LEMMA RecordedRefs ==
  ASSUME NEW d, NEW new, NEW host, NEW run \in DOMAIN d.runs, NEW device, NEW fields, NEW now, NEW day,
         Recorded(d, new, host, run, device, fields, now, day), RefsOk(d)
  PROVE  RefsOk(new)
  <1>1. /\ new.runs = d.runs /\ new.changes = d.changes
        /\ \A i \in DOMAIN d.snaps : new.snaps[i] = d.snaps[i]
        /\ DOMAIN new.devices = DOMAIN d.devices \cup {device}
    BY DEF Recorded
  <1> QED
    BY <1>1, RecordedIds DEF RefsOk

LEMMA RecordedRows ==
  ASSUME NEW d, NEW new, NEW host, NEW run, NEW device, NEW fields, NEW now, NEW day,
         Recorded(d, new, host, run, device, fields, now, day), RowsOk(d)
  PROVE  RowsOk(new)
  <1> DEFINE newest(t, e) == t.snaps[Greatest(SnapIds(t, e))]
  <1>1. PICK row \in DeviceRow : new.devices[device] = Observed(row, fields, now)
    BY DEF Recorded
  <1>2. new.devices[device] = Observed(new.devices[device], fields, now)
    BY <1>1, ObservedRow
  <1>3. /\ DOMAIN new.devices = DOMAIN d.devices \cup {device}
        /\ \A e \in DOMAIN d.devices \ {device} : new.devices[e] = d.devices[e]
        /\ \A i \in DOMAIN d.snaps : new.snaps[i] = d.snaps[i]
    BY DEF Recorded
  <1>4. ASSUME NEW e \in DOMAIN new.devices, e # device
        PROVE  /\ SnapIds(new, e) # {}
               /\ new.devices[e] = Observed(new.devices[e], newest(new, e).fields, newest(new, e).created_at)
    <2>1. e \in DOMAIN d.devices /\ SnapIds(new, e) = SnapIds(d, e) /\ new.devices[e] = d.devices[e]
      BY <1>3, <1>4, RecordedIds
    <2>2. /\ SnapIds(d, e) # {}
          /\ d.devices[e] = Observed(d.devices[e], newest(d, e).fields, newest(d, e).created_at)
      BY <2>1 DEF RowsOk
    <2>3. Greatest(SnapIds(d, e)) \in DOMAIN d.snaps
      <3>1. Len(d.snaps) \in Nat /\ SnapIds(d, e) \in SUBSET (1..Len(d.snaps))
        <4>1. Len(d.snaps) + 1 \in Nat \ {0} /\ DOMAIN d.snaps = 1..(Len(d.snaps) + 1 - 1)
          BY DEF Recorded
        <4> QED
          BY <4>1 DEF SnapIds
      <3> QED
        BY <2>2, <3>1, GreatestProperties, RecordedIds
    <2> QED
      BY <1>3, <2>1, <2>2, <2>3
  <1>5. /\ SnapIds(new, device) # {}
        /\ newest(new, device).fields = fields /\ newest(new, device).created_at = now
    BY RecordedIds
  <1> QED
    BY <1>2, <1>4, <1>5 DEF RowsOk

\* The devices of old keep their MACs, and the new one has no MAC that is randomised.
LEMMA RecordedPrimaries ==
  ASSUME NEW d, NEW new, NEW host, NEW run, NEW device, NEW fields, NEW now, NEW day,
         Recorded(d, new, host, run, device, fields, now, day)
  PROVE  /\ DOMAIN new.devices = DOMAIN d.devices \cup {device}
         /\ \A e \in DOMAIN d.devices : new.devices[e].primary_mac = d.devices[e].primary_mac
         /\ device \notin DOMAIN d.devices => new.devices[device].primary_mac = Primary(host)
  <1>1. PICK row \in DeviceRow :
          /\ new.devices[device] = Observed(row, fields, now)
          /\ device \in DOMAIN d.devices => row = d.devices[device]
          /\ device \notin DOMAIN d.devices => row.primary_mac = Primary(host)
    BY DEF Recorded
  <1>2. new.devices[device].primary_mac = row.primary_mac
    BY <1>1, ObservedRow
  <1> QED
    BY <1>1, <1>2 DEF Recorded

\* A stable MAC that a device has leads to it.
LEMMA RecordedMacs ==
  ASSUME NEW d, NEW new, NEW host, NEW run, NEW device, NEW fields, NEW now, NEW day,
         Recorded(d, new, host, run, device, fields, now, day),
         RefsOk(d), MacsOk(d), MacsDistinct(d), fields.mac = host.mac
  PROVE  MacsOk(new)
  <1> DEFINE n == Len(d.snaps) + 1
  <1>1. /\ \A i \in DOMAIN d.snaps : new.snaps[i] = d.snaps[i]
        /\ device \in DOMAIN d.devices => device \in Matches(d, host, day)
        /\ device \notin DOMAIN d.devices => Matches(d, host, day) = {}
    BY DEF Recorded
  <1>2. ASSUME NEW e \in DOMAIN new.devices, new.devices[e].primary_mac # None
        PROVE  ~ IsMacRandomized(new.devices[e].primary_mac)
    BY <1>2, RecordedPrimaries DEF MacsOk, Primary, HasRandomizedMac
  <1>3. ASSUME NEW e \in DOMAIN new.devices, NEW i \in DOMAIN d.snaps,
               new.snaps[i].fields.mac # None,
               new.snaps[i].fields.mac = new.devices[e].primary_mac,
               NEW j \in SnapIds(new, e), j <= i
        PROVE  new.snaps[i].device_id = e
    <2>1. i < n /\ j # n
      <3>1. i \in Nat /\ i <= n /\ i # n /\ n \in Nat
        BY RecordedIds
      <3> QED
        BY <1>3, <3>1
    <2>2. j \in SnapIds(d, e)
      BY <2>1, RecordedIds
    <2>3. e \in DOMAIN d.devices
      BY <2>2 DEF SnapIds, RefsOk
    <2> QED
      BY <1>1, <1>3, <2>2, <2>3, RecordedPrimaries DEF MacsOk
  <1>4. ASSUME NEW e \in DOMAIN new.devices, host.mac # None,
               host.mac = new.devices[e].primary_mac
        PROVE  device = e
    <2>1. HasStableMac(host)
      BY <1>2, <1>4 DEF HasStableMac
    <2>2. CASE e \in DOMAIN d.devices
      <3>1. e \in FindByMac(d, host.mac)
        BY <1>4, <2>2, RecordedPrimaries DEF FindByMac
      <3>2. Matches(d, host, day) = FindByMac(d, host.mac)
        BY <2>1, <3>1 DEF Matches
      <3>3. device \in FindByMac(d, host.mac)
        BY <1>1, <3>1, <3>2
      <3> QED
        BY <1>4, <3>1, <3>3 DEF FindByMac, MacsDistinct
    <2> QED
      BY <2>2, RecordedPrimaries
  <1> HIDE DEF n
  <1>5. \A e \in DOMAIN new.devices, i \in DOMAIN new.snaps :
          /\ new.snaps[i].fields.mac # None /\ new.snaps[i].fields.mac = new.devices[e].primary_mac
          /\ \E j \in SnapIds(new, e) : j <= i
          => new.snaps[i].device_id = e
    <2> TAKE e \in DOMAIN new.devices, i \in DOMAIN new.snaps
    <2>1. CASE i \in DOMAIN d.snaps
      BY <1>3, <2>1
    <2>2. CASE i = n
      BY <1>4, <2>2, RecordedIds DEF n
    <2> QED
      BY <2>1, <2>2, RecordedIds DEF n
  <1> QED
    BY <1>2, <1>5 DEF MacsOk

\* A device found by its address was seen within the grace period.
LEMMA RecordedGrace ==
  ASSUME NEW d, IsDb(d), NEW new, NEW host, NEW run, NEW device, NEW fields,
         NEW now \in Nat, NEW day \in Nat, now <= day,
         Recorded(d, new, host, run, device, fields, now, day),
         RefsOk(d), RowsOk(d), GraceOk(d), fields.mac = host.mac
  PROVE  GraceOk(new)
  <1> DEFINE n == Len(d.snaps) + 1
  <1>1. /\ \A i \in DOMAIN d.snaps : new.snaps[i] = d.snaps[i]
        /\ DOMAIN d.snaps = 1..(n - 1) /\ n \in Nat \ {0}
        /\ device \in DOMAIN d.devices => device \in Matches(d, host, day)
    BY DEF Recorded
  <1> SUFFICES ASSUME NEW i \in DOMAIN new.snaps, NEW j \in DOMAIN new.snaps, i < j,
                      new.snaps[i].device_id = new.snaps[j].device_id,
                      \A k \in SnapIds(new, new.snaps[i].device_id) : k <= i \/ j <= k,
                      new.snaps[j].created_at > new.snaps[i].created_at + GraceDays
               PROVE  /\ new.snaps[j].fields.mac # None
                      /\ new.snaps[j].fields.mac = new.devices[new.snaps[j].device_id].primary_mac
    BY DEF GraceOk
  <1>2. i \in DOMAIN d.snaps
    <2>1. i \in Nat /\ j \in Nat /\ j <= n /\ n \in Nat
      BY RecordedIds
    <2> QED
      BY <2>1, RecordedIds
  <1>3. d.snaps[i].device_id \in DOMAIN d.devices
    BY <1>2 DEF RefsOk
  <1>4. CASE j \in DOMAIN d.snaps
    <2>1. \A k \in SnapIds(d, d.snaps[i].device_id) : k <= i \/ j <= k
      BY <1>1, <1>2, RecordedIds
    <2>2. /\ d.snaps[j].fields.mac # None
          /\ d.snaps[j].fields.mac = d.devices[d.snaps[j].device_id].primary_mac
      BY <1>1, <1>2, <1>4, <2>1 DEF GraceOk
    <2>3. new.snaps[j] = d.snaps[j] /\ d.snaps[j].device_id \in DOMAIN d.devices
      BY <1>1, <1>4 DEF RefsOk
    <2>4. \A e \in DOMAIN d.devices : new.devices[e].primary_mac = d.devices[e].primary_mac
      BY RecordedPrimaries
    <2> QED
      BY <2>2, <2>3, <2>4
  <1>5. CASE j = n
    <2>1. /\ new.snaps[j].device_id = device /\ new.snaps[j].fields = fields
          /\ new.snaps[j].created_at = now
      BY <1>5, RecordedIds
    <2>2. d.snaps[i].device_id = device /\ device \in DOMAIN d.devices
      BY <1>1, <1>2, <1>3, <2>1
    <2>3. Greatest(SnapIds(d, device)) = i
      <3>1. i \in SnapIds(d, device) /\ SnapIds(d, device) \in SUBSET (1..(n - 1)) /\ n - 1 \in Nat
        BY <1>1, <1>2, <2>2 DEF SnapIds
      <3>2. \A k \in SnapIds(d, device) : k <= i
        BY <1>1, <1>2, <1>5, <2>2, <3>1, RecordedIds
      <3>3. /\ Greatest(SnapIds(d, device)) \in SnapIds(d, device)
            /\ Greatest(SnapIds(d, device)) >= i
        BY <3>1, GreatestProperties
      <3> QED
        BY <3>1, <3>2, <3>3
    <2>4. d.devices[device].last_seen = d.snaps[i].created_at
      <3>1. d.devices[device] \in DeviceRow
        BY <2>2, TableTypes, LenProperties, ElementOfSeq
      <3>2. d.devices[device] = Observed(d.devices[device], d.snaps[i].fields, d.snaps[i].created_at)
        BY <2>2, <2>3 DEF RowsOk
      <3> QED
        BY <3>1, <3>2, ObservedRow
    <2>5. device \notin FindByIpRecent(d, host.ip, host.hostname, day)
      <3>1. d.snaps[i].created_at \in Nat
        <4>1. d.snaps[i] \in SnapRow
          BY <1>2, TableTypes, LenProperties, ElementOfSeq
        <4> QED
          BY <4>1 DEF SnapRow
      <3> QED
        BY <1>1, <1>2, <2>1, <2>4, <3>1, GraceDaysAssumption DEF FindByIpRecent
    <2>6. HasStableMac(host) /\ device \in FindByMac(d, host.mac)
      BY <1>1, <2>2, <2>5 DEF Matches
    <2> QED
      BY <2>1, <2>2, <2>6, RecordedPrimaries DEF HasStableMac, FindByMac
  <1> QED
    BY <1>4, <1>5, RecordedIds

\* What PersistHost writes keeps the database sound.
LEMMA RecordedSound ==
  ASSUME NEW d, IsDb(d), NEW new, NEW host, NEW run \in DOMAIN d.runs, NEW device, NEW fields,
         NEW now \in Nat, NEW day \in Nat, now <= day,
         Recorded(d, new, host, run, device, fields, now, day),
         Sound(d), MacsDistinct(d), fields.mac = host.mac
  PROVE  Sound(new)
  BY RecordedRefs, RecordedRows, RecordedMacs, RecordedGrace DEF Sound

\* Its run has one snapshot more, and no other run has.
LEMMA RecordedCounts ==
  ASSUME NEW d, IsDb(d), NEW new, NEW host, NEW run, NEW device, NEW fields, NEW now, NEW day,
         Recorded(d, new, host, run, device, fields, now, day), CountsOk(d, {run})
  PROVE  /\ CountsOk(new, {run})
         /\ Cardinality(SnapsOf(new, run)) = Cardinality(SnapsOf(d, run)) + 1
  <1> DEFINE n == Len(d.snaps) + 1
  <1>2. /\ \A i \in DOMAIN d.snaps : new.snaps[i] = d.snaps[i]
        /\ DOMAIN d.snaps = 1..(n - 1) /\ n \in Nat \ {0} /\ new.runs = d.runs
        /\ DOMAIN new.devices = DOMAIN d.devices \cup {device}
    BY DEF Recorded
  <1>3. /\ SnapsOf(new, run) = SnapsOf(d, run) \cup {n} /\ n \notin SnapsOf(d, run)
        /\ \A r : r # run => SnapsOf(new, r) = SnapsOf(d, r)
    BY <1>2, RecordedIds DEF SnapsOf
  <1>4. IsFiniteSet(SnapsOf(d, run))
    <2>1. n - 1 \in Int
      BY <1>2
    <2>2. IsFiniteSet(1..(n - 1))
      BY <2>1, FS_Interval
    <2> QED
      BY <1>2, <2>2, FS_Subset DEF SnapsOf
  <1> HIDE DEF n
  <1>5. Cardinality(SnapsOf(new, run)) = Cardinality(SnapsOf(d, run)) + 1
    <2> DEFINE old == SnapsOf(d, run)
    <2>1. IsFiniteSet(old) /\ n \notin old /\ SnapsOf(new, run) = old \cup {n}
      BY <1>3, <1>4
    <2> HIDE DEF old
    <2>2. Cardinality(old \cup {n}) = Cardinality(old) + 1
      BY <2>1, FS_AddElement
    <2> QED
      BY <2>1, <2>2 DEF old
  <1>6. CountsOk(new, {run})
    BY <1>2, <1>3 DEF CountsOk
  <1> QED
    BY <1>5, <1>6

-----------------------------------------------------------------------------
(* The invariant: both databases are sound, and all runs but the one whose *)
(* hosts are being persisted are complete.                                 *)

\* A run in the midst of its hosts.
UnderWay(d, j, seen) ==
  /\ CountsOk(d, {j.run})
  /\ Cardinality(SnapsOf(d, j.run)) = j.next - 1
  /\ j.next <= Len(j.scan.hosts) + 1
  /\ DOMAIN seen \subseteq DOMAIN d.devices

\* What a session at a label knows of the transaction, and of itself.
SessionOk(label, d, j, seen, day) ==
  /\ label = "hosts" => UnderWay(d, j, seen)
  /\ label \in Writing \ {"hosts"} => CountsOk(d, {})
  /\ label \in {"idle", "begin"} => DOMAIN seen = {}
  /\ label \in Persisting => j.now <= day

ContentInv ==
  /\ Sound(db) /\ Sound(tx) /\ CountsOk(db, {})
  /\ \A s \in Sessions : SessionOk(pc[s], tx, job[s], current[s], today)

LEMMA ContentInit == Init => ContentInv
  <1> SUFFICES ASSUME Init PROVE ContentInv
    OBVIOUS
  <1>1. db = EmptyDb /\ tx = EmptyDb
    BY DEF Init
  <1>2. \A s \in Sessions : pc[s] = "idle" /\ current[s] = <<>>
    BY DEF Init
  <1> QED
    BY <1>1, <1>2, EmptyDbSound DEF ContentInv, SessionOk, Writing, Persisting

\* A step of one session: to the others a transaction is nothing but what is
\* in the database when it is over.
LEMMA OneSession ==
  ASSUME TypeInv, TransactionInv, ContentInv, NEW s \in Sessions, NEW label, Goto(s, label),
         today' = today,
         \A x \in Sessions \ {s} : job'[x] = job[x] /\ current'[x] = current[x],
         Sound(db'), Sound(tx'), CountsOk(db', {}),
         tx' = tx \/ lock \in {s, NoSession},
         SessionOk(label, tx', job'[s], current'[s], today)
  PROVE  ContentInv'
  <1>1. /\ pc'[s] = label /\ \A x \in Sessions \ {s} : pc'[x] = pc[x]
    BY AtHand DEF Goto
  <1>2. ASSUME NEW x \in Sessions \ {s} PROVE SessionOk(pc'[x], tx', job'[x], current'[x], today')
    <2>1. SessionOk(pc[x], tx, job[x], current[x], today)
      BY DEF ContentInv
    <2>2. CASE tx' = tx
      BY <1>1, <2>1, <2>2
    <2>3. CASE lock \in {s, NoSession}
      <3>1. pc[x] \notin Writing
        BY <2>3, AtHand, SessionAssumption DEF TransactionInv, LockInv
      <3> QED
        BY <1>1, <2>1, <3>1 DEF SessionOk, Writing
    <2> QED
      BY <2>2, <2>3
  <1>3. \A x \in Sessions : SessionOk(pc'[x], tx', job'[x], current'[x], today')
    BY <1>1, <1>2
  <1> QED
    BY <1>3 DEF ContentInv


\* A step of one session that leaves the databases alone.
LEMMA QuietSession ==
  ASSUME TypeInv, TransactionInv, ContentInv, NEW s \in Sessions, NEW label, Goto(s, label),
         UNCHANGED <<db, tx, today>>,
         \A x \in Sessions \ {s} : job'[x] = job[x] /\ current'[x] = current[x],
         SessionOk(label, tx, job'[s], current'[s], today)
  PROVE  ContentInv'
  <1>1. Sound(db') /\ Sound(tx') /\ CountsOk(db', {}) /\ tx' = tx
    BY DEF ContentInv
  <1> QED
    BY <1>1, OneSession

\* A call that returns, and a transaction that ends with it.
LEMMA ReturnOk ==
  ASSUME TypeInv, TransactionInv, ContentInv, NEW s \in Sessions, Return(s), today' = today,
         Sound(db'), Sound(tx'), CountsOk(db', {}),
         tx' = tx \/ lock \in {s, NoSession}
  PROVE  ContentInv'
  <1>1. /\ Goto(s, "idle")
        /\ \A x \in Sessions \ {s} : job'[x] = job[x] /\ current'[x] = current[x]
        /\ current'[s] = <<>>
    BY DEF Return, TypeInv, TypeOK
  <1>2. SessionOk("idle", tx', job'[s], current'[s], today)
    BY <1>1 DEF SessionOk, Writing, Persisting
  <1> QED
    BY <1>1, <1>2, OneSession

\* One step per action, as in TransactionStep.
LEMMA ContentStep == TypeInv /\ TransactionInv /\ ContentInv /\ [Next]_vars => ContentInv'
  <1> SUFFICES ASSUME TypeInv, TransactionInv, ContentInv, [Next]_vars PROVE ContentInv'
    OBVIOUS
  <1>a. /\ job \in [Sessions -> Job] /\ DOMAIN current = Sessions
        /\ \A s \in Sessions : job[s] \in Job
        /\ IsDb(db) /\ IsDb(tx) /\ today \in Nat
    BY AtHand DEF TypeInv, TypeOK
  <1>b. \A s \in Sessions : lock = s <=> pc[s] \in Writing
    BY DEF TransactionInv, LockInv
  <1>c. Sound(db) /\ Sound(tx) /\ CountsOk(db, {})
    BY DEF ContentInv
  <1>d. \A s \in Sessions : SessionOk(pc[s], tx, job[s], current[s], today)
    BY DEF ContentInv
  <1>1. ASSUME NEW s \in Sessions, RequestPersist(s) PROVE ContentInv'
    <2>1. PICK errand \in AllErrands, scan \in Scans :
            job' = [job EXCEPT ![s] = [@ EXCEPT !.errand = errand, !.scan = scan, !.now = today]]
      BY <1>1, ErrandsAssumption DEF RequestPersist
    <2>2. job'[s].now = today /\ \A x \in Sessions \ {s} : job'[x] = job[x]
      BY <1>a, <2>1 DEF Job
    <2>3. pc[s] = "idle" /\ Goto(s, "begin") /\ UNCHANGED <<db, tx, current, today>>
      BY <1>1 DEF RequestPersist
    <2>4. SessionOk("begin", tx, job'[s], current'[s], today)
      BY <1>a, <1>d, <2>2, <2>3 DEF SessionOk, Writing
    <2> QED
      BY <2>2, <2>3, <2>4, QuietSession
  <1>2. ASSUME NEW s \in Sessions, BeginRun(s) PROVE ContentInv'
    <2> DEFINE j == [[job[s] EXCEPT !.run = Len(db.runs) + 1] EXCEPT !.next = 1]
    <2>1. /\ pc[s] = "begin" /\ lock = NoSession /\ Goto(s, "hosts")
          /\ tx' = CreateScanRun(db, job[s].now) /\ UNCHANGED <<db, current, today>>
          /\ job' = [job EXCEPT ![s] = j]
      BY <1>2, <1>a DEF BeginRun, AcquireLock, Job
    <2>2. /\ job[s].now \in Nat /\ j.run = Len(db.runs) + 1 /\ j.next = 1
          /\ j.scan = job[s].scan /\ j.now = job[s].now
      BY <1>a DEF Job
    <2> HIDE DEF j
    <2>3. /\ Sound(tx') /\ CountsOk(tx', {j.run})
          /\ Cardinality(SnapsOf(tx', j.run)) = 0
      BY <1>a, <1>c, <2>1, <2>2, CreateScanRunSound
    <2>4. DOMAIN current[s] = {} /\ j.now <= today
      BY <1>d, <2>1, <2>2 DEF SessionOk, Persisting
    <2>5. Len(j.scan.hosts) \in Nat
      <3>1. j.scan \in Scans
        BY <2>1, <2>2 DEF TypeInv, Supplied, Persisting
      <3> QED
        BY <3>1, ScansAssumption, LenProperties
    <2>6. SessionOk("hosts", tx', j, current[s], today)
      BY <2>2, <2>3, <2>4, <2>5 DEF SessionOk, UnderWay, Writing
    <2>7. job'[s] = j /\ \A x \in Sessions \ {s} : job'[x] = job[x]
      BY <1>a, <2>1
    <2> QED
      BY <1>c, <2>1, <2>3, <2>6, <2>7, OneSession
  <1>3. ASSUME NEW s \in Sessions, PersistHost(s) PROVE ContentInv'
    <2> DEFINE j      == job[s]
               host   == j.scan.hosts[j.next]
               device == ResolvedDevice(tx, host, today)
               fields == ObservedFields(host, j.scan.services)
               more   == [j EXCEPT !.next = @ + 1]
    <2>1. fields \in Observations /\ host.mac \in Values("mac") /\ fields.mac = host.mac
      BY <1>3, HostAtHand DEF PersistHost, ObservedFields
    <2>2. /\ j.now \in Nat /\ j.run \in Nat /\ j.next \in Nat
          /\ more.now = j.now /\ more.run = j.run /\ more.scan = j.scan /\ more.next = j.next + 1
      BY <1>a DEF Job
    <2>3. /\ pc[s] = "hosts" /\ pc' = pc /\ j.next <= Len(j.scan.hosts)
          /\ tx' = AddSnapshot(Resolved(tx, host, j.now, today), j.run, device, fields, j.now)
          /\ job' = [job EXCEPT ![s] = more]
          /\ current' = [current EXCEPT ![s] = Upsert(current[s], device, fields)]
          /\ UNCHANGED <<db, today>>
      BY <1>3 DEF PersistHost
    <2>4. UnderWay(tx, j, current[s]) /\ j.now <= today
      BY <1>d, <2>3 DEF SessionOk, Persisting
    <2>5. j.run \in DOMAIN tx.runs /\ MacsDistinct(tx)
      <3>1. j.run = Len(tx.runs)
        BY <2>3 DEF TransactionInv, RunInv
      <3>2. Len(tx.runs) = Len(db.runs) + 1
        BY <2>3 DEF TransactionInv, RunInv
      <3> QED
        BY <3>1, <3>2, AtHand DEF TransactionInv
    <2>6. Len(j.scan.hosts) \in Nat
      <3>1. j.scan \in Scans
        BY <2>3 DEF TypeInv, Supplied, Persisting
      <3> QED
        BY <3>1, ScansAssumption, LenProperties
    <2> HIDE DEF host, fields, device, more, j
    <2>7. Recorded(tx, tx', host, j.run, device, fields, j.now, today)
      BY <1>a, <2>1, <2>2, <2>3, PersistRecords DEF device
    <2>8. /\ Sound(tx') /\ CountsOk(tx', {j.run})
          /\ Cardinality(SnapsOf(tx', j.run)) = Cardinality(SnapsOf(tx, j.run)) + 1
          /\ DOMAIN tx'.devices = DOMAIN tx.devices \cup {device}
      <3>1. CountsOk(tx, {j.run}) /\ IsDb(tx) /\ Sound(tx) /\ today \in Nat
        BY <1>a, <1>c, <2>4 DEF UnderWay
      <3>2. Sound(tx')
        BY <2>1, <2>2, <2>4, <2>5, <2>7, <3>1, RecordedSound
      <3>3. /\ CountsOk(tx', {j.run})
            /\ Cardinality(SnapsOf(tx', j.run)) = Cardinality(SnapsOf(tx, j.run)) + 1
        BY <2>7, <3>1, RecordedCounts
      <3>4. DOMAIN tx'.devices = DOMAIN tx.devices \cup {device}
        BY <2>7 DEF Recorded
      <3> QED
        BY <3>2, <3>3, <3>4
    <2>9. DOMAIN current'[s] \subseteq DOMAIN tx'.devices
      BY <1>a, <2>3, <2>4, <2>8 DEF Upsert, UnderWay
    <2>10. UnderWay(tx', more, current'[s])
      BY <2>2, <2>3, <2>4, <2>6, <2>8, <2>9 DEF UnderWay
    <2>11. SessionOk("hosts", tx', more, current'[s], today)
      BY <2>2, <2>4, <2>10 DEF SessionOk, Writing
    <2>12. /\ job'[s] = more /\ Goto(s, "hosts") /\ lock = s
           /\ \A x \in Sessions \ {s} : job'[x] = job[x] /\ current'[x] = current[x]
      BY <1>a, <1>b, <2>3, AtHand DEF Writing, Goto
    <2> QED
      BY <1>c, <2>3, <2>8, <2>11, <2>12, OneSession
  <1>4. ASSUME NEW s \in Sessions, FinishRun(s) PROVE ContentInv'
    <2> DEFINE j        == job[s]
               count    == Len(j.scan.hosts)
               previous == LatestSnapshotPerDevice(tx, j.run)
               records  == DiffDevices(previous, current[s])
    <2>1. /\ pc[s] = "hosts" /\ j.next > count /\ Goto(s, "commit_run")
          /\ tx' = AddChanges(FinishScanRun(tx, j.run, count), j.run, records)
          /\ UNCHANGED <<db, job, current, today>>
      BY <1>4 DEF FinishRun
    <2>2. UnderWay(tx, j, current[s]) /\ j.now <= today
      BY <1>d, <2>1 DEF SessionOk, Persisting
    <2>3. j.run \in DOMAIN tx.runs
      <3>1. j.run = Len(tx.runs) /\ Len(tx.runs) = Len(db.runs) + 1
        BY <2>1 DEF TransactionInv, RunInv
      <3> QED
        BY <3>1, AtHand
    <2>4. count \in Nat /\ j.next \in Nat
      <3>1. j.scan \in Scans
        BY <2>1 DEF TypeInv, Supplied, Persisting
      <3> QED
        BY <1>a, <3>1, ScansAssumption, LenProperties DEF Job
    <2>5. \A c \in records : c.device_id \in DOMAIN tx.devices
      <3>1. DOMAIN previous \subseteq DOMAIN tx.devices
        BY DEF LatestSnapshotPerDevice
      <3>2. \A c \in records : c.device_id \in DOMAIN previous \cup DOMAIN current[s]
        BY DEF DiffDevices
      <3> QED
        BY <2>2, <3>1, <3>2 DEF UnderWay
    <2> HIDE DEF records, count, previous
    <2>6. count = Cardinality(SnapsOf(tx, j.run)) /\ CountsOk(tx, {j.run})
      BY <2>1, <2>2, <2>4 DEF UnderWay, count
    <2> HIDE DEF j
    <2>7. Sound(tx') /\ CountsOk(tx', {})
      BY <1>a, <1>c, <2>1, <2>3, <2>4, <2>5, <2>6, FinishSound
    <2>8. SessionOk("commit_run", tx', job'[s], current'[s], today)
      BY <2>1, <2>2, <2>7 DEF SessionOk, Writing, j
    <2>9. lock = s
      BY <1>b, <2>1 DEF Writing
    <2> QED
      BY <1>c, <2>1, <2>7, <2>8, <2>9, OneSession
  <1>5. ASSUME NEW s \in Sessions, CommitRun(s) PROVE ContentInv'
    <2>1. /\ pc[s] = "commit_run" /\ db' = tx /\ tx' = tx /\ today' = today
      BY <1>5 DEF CommitRun
    <2>2. Sound(db') /\ Sound(tx') /\ CountsOk(db', {})
      BY <1>c, <1>d, <2>1 DEF SessionOk, Writing
    <2>3. CASE Return(s)
      BY <2>1, <2>2, <2>3, ReturnOk
    <2>4. CASE Goto(s, "clear_baseline") /\ UNCHANGED <<job, current>>
      <3>1. SessionOk("clear_baseline", tx', job'[s], current'[s], today)
        BY DEF SessionOk, Writing, Persisting
      <3> QED
        BY <2>1, <2>2, <2>4, <3>1, OneSession
    <2>5. CASE /\ Goto(s, "read")
               /\ job' = [job EXCEPT ![s].reads = BroadcastOrder]
               /\ UNCHANGED current
      <3>1. SessionOk("read", tx', job'[s], current'[s], today)
        BY DEF SessionOk, Writing, Persisting
      <3> QED
        BY <1>a, <2>1, <2>2, <2>5, <3>1, OneSession
    <2> QED
      BY <1>5, <2>3, <2>4, <2>5 DEF CommitRun
  <1>6. ASSUME NEW s \in Sessions, RequestPin(s) \/ RequestChanges(s) PROVE ContentInv'
    <2>1. PICK label \in {"latest", "read"} :
            Goto(s, label) /\ UNCHANGED <<db, tx, current, today>>
      BY <1>6 DEF RequestPin, RequestChanges
    <2>2. \A x \in Sessions \ {s} : job'[x] = job[x]
      BY <1>6, <1>a DEF RequestPin, RequestChanges
    <2>3. SessionOk(label, tx, job'[s], current'[s], today)
      BY DEF SessionOk, Writing, Persisting
    <2> QED
      BY <2>1, <2>2, <2>3, QuietSession
  <1>7. ASSUME NEW s \in Sessions, ReadLatestRun(s) PROVE ContentInv'
    <2>1. CASE Return(s)
      <3>1. UNCHANGED <<db, tx, today>>
        BY <1>7 DEF ReadLatestRun
      <3>2. Sound(db') /\ Sound(tx') /\ CountsOk(db', {})
        BY <1>c, <3>1
      <3> QED
        BY <2>1, <3>1, <3>2, ReturnOk
    <2>2. CASE ~ Return(s)
      <3>1. Goto(s, "clear_baseline") /\ UNCHANGED <<db, tx, current, today>>
        BY <1>7, <2>2 DEF ReadLatestRun
      <3>2. \A x \in Sessions \ {s} : job'[x] = job[x]
        BY <1>7, <1>a, <2>2 DEF ReadLatestRun
      <3>3. SessionOk("clear_baseline", tx, job'[s], current'[s], today)
        BY DEF SessionOk, Writing, Persisting
      <3> QED
        BY <3>1, <3>2, <3>3, QuietSession
    <2> QED
      BY <2>1, <2>2
  <1>8. ASSUME NEW s \in Sessions, ClearBaselines(s) PROVE ContentInv'
    <2>1. /\ lock = NoSession /\ Goto(s, "set_baseline") /\ pc[s] = "clear_baseline"
          /\ tx' = ClearBaseline(db) /\ UNCHANGED <<db, job, current, today>>
      BY <1>8 DEF ClearBaselines, AcquireLock
    <2>2. job[s].run \in DOMAIN db.runs
      BY <2>1 DEF TransactionInv, RunInv
    <2>3. Sound(tx') /\ CountsOk(tx', {})
      BY <1>a, <1>c, <2>1, <2>2, MarkSound
    <2>4. SessionOk("set_baseline", tx', job'[s], current'[s], today)
      BY <2>3 DEF SessionOk, Persisting
    <2> QED
      BY <1>c, <2>1, <2>3, <2>4, OneSession
  <1>9. ASSUME NEW s \in Sessions, MarkBaseline(s) PROVE ContentInv'
    <2>1. /\ pc[s] = "set_baseline" /\ Goto(s, "commit_pin")
          /\ tx' = SetBaseline(tx, job[s].run) /\ UNCHANGED <<db, job, current, today>>
      BY <1>9 DEF MarkBaseline
    <2>2. job[s].run \in DOMAIN tx.runs /\ lock = s /\ CountsOk(tx, {})
      <3>1. job[s].run \in DOMAIN db.runs
        BY <2>1 DEF TransactionInv, RunInv
      <3> QED
        BY <1>b, <1>d, <2>1, <3>1, AtHand DEF SessionOk, Writing
    <2>3. Sound(tx') /\ CountsOk(tx', {})
      BY <1>a, <1>c, <2>1, <2>2, MarkSound
    <2>4. SessionOk("commit_pin", tx', job'[s], current'[s], today)
      BY <2>3 DEF SessionOk, Persisting
    <2> QED
      BY <1>c, <2>1, <2>2, <2>3, <2>4, OneSession
  <1>10. ASSUME NEW s \in Sessions, CommitPin(s) PROVE ContentInv'
    <2>1. pc[s] = "commit_pin" /\ db' = tx /\ tx' = tx /\ today' = today /\ Return(s)
      BY <1>10 DEF CommitPin
    <2>2. Sound(db') /\ Sound(tx') /\ CountsOk(db', {})
      BY <1>c, <1>d, <2>1 DEF SessionOk, Writing
    <2> QED
      BY <2>1, <2>2, ReturnOk
  <1>11. ASSUME NEW s \in Sessions, ReadRun(s) \/ ReadChanges(s) \/ ReadDevices(s)
         PROVE  ContentInv'
    <2>1. pc[s] = "read" /\ UNCHANGED <<db, tx, current, today>> /\ Goto(s, "read")
      BY <1>11, AtHand DEF ReadRun, ReadChanges, ReadDevices, ReadNext, Goto
    <2>2. \A x \in Sessions \ {s} : job'[x] = job[x]
      BY <1>11, <1>a DEF ReadRun, ReadChanges, ReadDevices
    <2>3. SessionOk("read", tx, job'[s], current'[s], today)
      BY DEF SessionOk, Writing, Persisting
    <2> QED
      BY <2>1, <2>2, <2>3, QuietSession
  <1>12. ASSUME NEW s \in Sessions, Report(s) \/ LockTimeout(s) PROVE ContentInv'
    <2>1. Return(s) /\ UNCHANGED <<db, tx, today>>
      BY <1>12 DEF Report, LockTimeout
    <2>2. Sound(db') /\ Sound(tx') /\ CountsOk(db', {})
      BY <1>c, <2>1
    <2> QED
      BY <2>1, <2>2, ReturnOk
  <1>13. ASSUME NEW s \in Sessions, Fail(s) PROVE ContentInv'
    <2>1. Return(s) /\ UNCHANGED <<db, today>> /\ (tx' = tx \/ (lock = s /\ tx' = db))
      BY <1>13 DEF Fail
    <2>2. Sound(db') /\ Sound(tx') /\ CountsOk(db', {})
      BY <1>c, <2>1
    <2> QED
      BY <2>1, <2>2, ReturnOk
  <1>14. ASSUME UNCHANGED <<db, tx, pc, job, current>>, today' \in Nat, today <= today'
         PROVE  ContentInv'
    <2>1. ASSUME NEW s \in Sessions PROVE SessionOk(pc'[s], tx', job'[s], current'[s], today')
      <3>1. SessionOk(pc[s], tx, job[s], current[s], today) /\ job[s].now \in Nat
        BY <1>a, <1>d DEF Job
      <3> QED
        BY <1>a, <1>14, <3>1 DEF SessionOk
    <2> QED
      BY <1>c, <1>14, <2>1 DEF ContentInv
  <1>15. CASE Tick \/ UNCHANGED vars
    BY <1>a, <1>14, <1>15 DEF Tick, vars
  <1> QED
    BY <1>1, <1>2, <1>3, <1>4, <1>5, <1>6, <1>7, <1>8, <1>9, <1>10, <1>11, <1>12, <1>13, <1>15
    DEF Next, Request, Work

\* All three invariants hold in every reachable state.
LEMMA ContentHolds == Spec => [](TypeInv /\ TransactionInv /\ ContentInv)
  <1>1. Init => TypeInv /\ TransactionInv /\ ContentInv
    BY TypeInvInit, TransactionInit, ContentInit
  <1>2. TypeInv /\ TransactionInv /\ ContentInv /\ [Next]_vars
          => (TypeInv /\ TransactionInv /\ ContentInv)'
    BY TypeInvStep, TransactionStep, ContentStep
  <1> QED
    BY <1>1, <1>2, PTL DEF Spec

\* A committed run has a snapshot of every host its scan found, although hosts
\* are written one by one and any statement may fail.
THEOREM RunsWhole == Spec => []RunsComplete
  <1>1. ContentInv => RunsComplete
    BY DEF ContentInv, Sound, RefsOk, CountsOk, SnapsOf, RunsComplete
  <1> QED
    BY <1>1, ContentHolds, PTL

\* The asset list shows what was last seen of each device.
THEOREM RowsFollowSnapshots == Spec => []DeviceRowsInSync
  <1>1. ContentInv => DeviceRowsInSync
    BY DEF ContentInv, Sound, RowsOk, DeviceRowsInSync
  <1> QED
    BY <1>1, ContentHolds, PTL

\* A device that is known by its MAC is recognised by it ever after.
THEOREM MacIsIdentity == Spec => []MacIdentityStable
  <1>1. ContentInv => MacIdentityStable
    BY DEF ContentInv, Sound, MacsOk, MacIdentityStable
  <1> QED
    BY <1>1, ContentHolds, PTL

\* An address alone identifies nobody beyond the grace period.
THEOREM AddressExpires == Spec => []GraceRespected
  <1>1. ContentInv => GraceRespected
    BY DEF ContentInv, Sound, GraceOk, GraceRespected
  <1> QED
    BY <1>1, ContentHolds, PTL

-----------------------------------------------------------------------------
(* Reports.  What a session has read stays true while others commit: what  *)
(* is committed is only ever extended, by runs that were not there before. *)

\* The changes a session holds are those of whole runs.
WholeRuns(d, j) ==
  /\ \A r \in {c.scan_run_id : c \in j.changes} :
       r >= j.run /\ ChangesOfRun(d, r) \subseteq j.changes
  /\ j.run # 0 => ChangesOfRun(d, j.run) \subseteq j.changes
  /\ j.changes \subseteq d.changes

\* What a session knows between two of its reads.
ReadOk(d, j) ==
  /\ \/ j.reads \in {<<"run", "changes", "devices">>, <<"changes", "devices">>, <<"devices">>, <<>>}
     \/ /\ j.reads \in {<<"devices", "run", "changes">>, <<"run", "changes">>, <<"changes">>, <<>>}
        /\ j.errand = "background"
  /\ j.reads \in {<<"changes", "devices">>, <<"changes">>, <<"devices">>, <<>>} =>
       j.run \in {0} \cup DOMAIN d.runs
  /\ j.reads \in {<<"devices">>, <<>>} => WholeRuns(d, j)
  /\ j.reads = <<>> /\ j.errand \in {"last", "since"} =>
       {c.device_id : c \in j.changes} \subseteq j.known

ReadInv == \A s \in Sessions : pc[s] = "read" => ReadOk(db, job[s])

\* The two orders of reading, read by read.
LEMMA ReadOrders ==
  /\ Tail(<<"run", "changes", "devices">>) = <<"changes", "devices">>
  /\ Tail(<<"changes", "devices">>) = <<"devices">> /\ Tail(<<"devices">>) = <<>>
  /\ Tail(<<"run", "changes">>) = <<"changes">> /\ Tail(<<"changes">>) = <<>>
  /\ <<"changes", "devices">> \notin {<<"devices">>, <<>>}
  /\ <<"changes">> \notin {<<"devices">>, <<>>}
  /\ <<"devices">> # <<>>
  <1>1. Tail(<<"run", "changes", "devices">>) = <<"changes", "devices">>
    OBVIOUS
  <1>2. Tail(<<"changes", "devices">>) = <<"devices">>
    OBVIOUS
  <1>3. Tail(<<"devices">>) = <<>>
    OBVIOUS
  <1>4. Tail(<<"run", "changes">>) = <<"changes">>
    OBVIOUS
  <1>5. Tail(<<"changes">>) = <<>>
    OBVIOUS
  <1>6. <<"changes", "devices">> \notin {<<"devices">>, <<>>}
    <2>1. Len(<<"changes", "devices">>) = 2 /\ Len(<<"devices">>) = 1 /\ Len(<<>>) = 0
      OBVIOUS
    <2> QED
      BY <2>1
  <1>7. <<"changes">> \notin {<<"devices">>, <<>>}
    <2>1. <<"changes">>[1] = "changes" /\ <<"devices">>[1] = "devices"
      OBVIOUS
    <2>2. Len(<<"changes">>) = 1 /\ Len(<<>>) = 0
      OBVIOUS
    <2> QED
      BY <2>1, <2>2
  <1>8. <<"devices">> # <<>>
    OBVIOUS
  <1> QED
    BY <1>1, <1>2, <1>3, <1>4, <1>5, <1>6, <1>7, <1>8

\* A commit of another session takes nothing away from what was read.
LEMMA ReadKept ==
  ASSUME NEW d, NEW new, RefsOk(d), Extends(d, new), NEW j, ReadOk(d, j)
  PROVE  ReadOk(new, j)
  <1>1. ASSUME WholeRuns(d, j), j.run \in {0} \cup DOMAIN d.runs PROVE WholeRuns(new, j)
    <2>1. \A c \in j.changes : c \in d.changes /\ c.scan_run_id \in DOMAIN d.runs
      BY <1>1 DEF WholeRuns, RefsOk
    <2>2. \A r \in DOMAIN d.runs : ChangesOfRun(new, r) = ChangesOfRun(d, r)
      BY DEF Extends
    <2>3. j.changes \subseteq new.changes
      BY <2>1, <2>2 DEF ChangesOfRun
    <2> QED
      BY <1>1, <2>1, <2>2, <2>3 DEF WholeRuns
  <1>2. DOMAIN d.runs \subseteq DOMAIN new.runs
    BY DEF Extends
  <1> QED
    BY <1>1, <1>2 DEF ReadOk

\* A step of one session leaves the others what they read.
LEMMA OneReader ==
  ASSUME ReadInv, ContentInv, Extends(db, db'), NEW s \in Sessions,
         \A x \in Sessions \ {s} : pc'[x] = pc[x] /\ job'[x] = job[x],
         pc'[s] = "read" => ReadOk(db', job'[s])
  PROVE  ReadInv'
  <1>1. ASSUME NEW x \in Sessions, pc'[x] = "read" PROVE ReadOk(db', job'[x])
    <2>1. CASE x = s
      BY <1>1, <2>1
    <2>2. CASE x # s
      BY <1>1, <2>2, ReadKept DEF ReadInv, ContentInv, Sound
    <2> QED
      BY <2>1, <2>2
  <1> QED
    BY <1>1 DEF ReadInv

\* Each read keeps to the order of its report, and finds what it says.
LEMMA ReadStep == TypeInv /\ TransactionInv /\ ContentInv /\ ReadInv /\ [Next]_vars => ReadInv'
  <1> SUFFICES ASSUME TypeInv, TransactionInv, ContentInv, ReadInv, [Next]_vars PROVE ReadInv'
    OBVIOUS
  <1>a. /\ pc \in [Sessions -> Labels] /\ job \in [Sessions -> Job]
        /\ \A s \in Sessions : job[s] \in Job
        /\ RefsOk(db) /\ Extends(db, db') /\ IsDb(db)
    BY AtHand, ExtendsStep DEF ContentInv, Sound
  <1>b. \A s \in Sessions : pc[s] = "read" => ReadOk(db, job[s])
    BY DEF ReadInv
  <1>1. ASSUME NEW s \in Sessions, RequestChanges(s) PROVE ReadInv'
    <2>1. PICK errand \in {"last", "since"} :
            job' = [job EXCEPT ![s] = [@ EXCEPT !.errand = errand, !.reads = ReportOrder]]
      BY <1>1 DEF RequestChanges
    <2>2. /\ job'[s].reads = <<"run", "changes", "devices">>
          /\ \A x \in Sessions \ {s} : job'[x] = job[x] /\ pc'[x] = pc[x]
      BY <1>1, <1>a, <2>1 DEF Job, RequestChanges, Goto, ReportOrder
    <2>3. ReadOk(db', job'[s])
      BY <2>2 DEF ReadOk
    <2> QED
      BY <1>a, <2>2, <2>3, OneReader
  <1>2. ASSUME NEW s \in Sessions, CommitRun(s) PROVE ReadInv'
    <2>1. \A x \in Sessions \ {s} : job'[x] = job[x] /\ pc'[x] = pc[x]
      BY <1>2, <1>a DEF CommitRun, Goto, Return
    <2>2. ASSUME pc'[s] = "read" PROVE ReadOk(db', job'[s])
      <3>1. job[s].errand = "background" /\ job' = [job EXCEPT ![s].reads = BroadcastOrder]
        BY <1>2, <1>a, <2>2 DEF CommitRun, Goto, Return
      <3>2. job'[s].errand = "background" /\ job'[s].reads = <<"devices", "run", "changes">>
        BY <1>a, <3>1 DEF Job, BroadcastOrder
      <3> QED
        BY <3>2 DEF ReadOk
    <2> QED
      BY <1>a, <2>1, <2>2, OneReader
  <1>3. ASSUME NEW s \in Sessions, ReadRun(s) PROVE ReadInv'
    <2> DEFINE run  == IF job[s].errand # "since" THEN Len(db.runs)
                       ELSE IF BaselineRuns(db) = {} THEN 0 ELSE Least(BaselineRuns(db))
               more == [[job[s] EXCEPT !.run = run] EXCEPT !.reads = Tail(job[s].reads)]
    <2>1. /\ pc[s] = "read" /\ db' = db /\ pc' = pc
          /\ job[s].reads # <<>> /\ Head(job[s].reads) = "run"
          /\ job' = [job EXCEPT ![s] = more]
      BY <1>3, <1>a DEF ReadRun, ReadNext, Job
    <2>2. run \in {0} \cup DOMAIN db.runs
      <3>1. Len(db.runs) \in {0} \cup DOMAIN db.runs
        BY AtHand
      <3>2. BaselineRuns(db) # {} => Least(BaselineRuns(db)) \in BaselineRuns(db)
        <4>1. BaselineRuns(db) \in SUBSET Nat
          BY AtHand DEF BaselineRuns
        <4> QED
          BY <4>1, LeastProperties
      <3> QED
        BY <3>1, <3>2 DEF BaselineRuns
    <2>3. more.run = run /\ more.reads = Tail(job[s].reads) /\ more.errand = job[s].errand
      BY <1>a DEF Job
    <2> HIDE DEF run, more
    <2>4. \/ job[s].reads = <<"run", "changes", "devices">>
          \/ job[s].reads = <<"run", "changes">> /\ job[s].errand = "background"
      BY <1>b, <2>1 DEF ReadOk
    <2>5. \/ more.reads = <<"changes", "devices">>
          \/ more.reads = <<"changes">> /\ more.errand = "background"
      BY <2>3, <2>4, ReadOrders
    <2>6. ReadOk(db, more)
      BY <2>2, <2>3, <2>5, ReadOrders DEF ReadOk
    <2> QED
      BY <1>a, <2>1, <2>6, OneReader
  <1>4. ASSUME NEW s \in Sessions, ReadChanges(s) PROVE ReadInv'
    <2> DEFINE found == IF job[s].run = 0 THEN {}
                        ELSE IF job[s].errand = "since" THEN ChangesSince(db, job[s].run)
                        ELSE ChangesOfRun(db, job[s].run)
               more  == [[job[s] EXCEPT !.changes = found] EXCEPT !.reads = Tail(job[s].reads)]
    <2>1. /\ pc[s] = "read" /\ db' = db /\ pc' = pc
          /\ job[s].reads # <<>> /\ Head(job[s].reads) = "changes"
          /\ job' = [job EXCEPT ![s] = more]
      BY <1>4, <1>a DEF ReadChanges, ReadNext, Job
    <2>2. /\ more.changes = found /\ more.reads = Tail(job[s].reads)
          /\ more.errand = job[s].errand /\ more.run = job[s].run /\ job[s].run \in Nat
      BY <1>a DEF Job
    <2>3. \/ job[s].reads = <<"changes", "devices">>
          \/ job[s].reads = <<"changes">> /\ job[s].errand = "background"
      BY <1>b, <2>1 DEF ReadOk
    <2>4. job[s].run \in {0} \cup DOMAIN db.runs
      BY <1>b, <2>1, <2>3 DEF ReadOk
    <2>5. /\ \A c \in found : c \in db.changes /\ c.scan_run_id >= job[s].run
          /\ \A c \in found : ChangesOfRun(db, c.scan_run_id) \subseteq found
          /\ job[s].run # 0 => ChangesOfRun(db, job[s].run) \subseteq found
      BY <2>2 DEF ChangesSince, ChangesOfRun
    <2> HIDE DEF found, more
    <2>6. WholeRuns(db, more)
      BY <2>2, <2>5 DEF WholeRuns
    <2>7. \/ more.reads = <<"devices">>
          \/ more.reads = <<>> /\ more.errand = "background"
      BY <2>2, <2>3, ReadOrders
    <2>8. ReadOk(db, more)
      BY <2>2, <2>4, <2>6, <2>7, ReadOrders DEF ReadOk
    <2> QED
      BY <1>a, <2>1, <2>8, OneReader
  <1>5. ASSUME NEW s \in Sessions, ReadDevices(s) PROVE ReadInv'
    <2> DEFINE more == [[job[s] EXCEPT !.known = DOMAIN db.devices] EXCEPT !.reads = Tail(job[s].reads)]
    <2>1. /\ pc[s] = "read" /\ db' = db /\ pc' = pc
          /\ job[s].reads # <<>> /\ Head(job[s].reads) = "devices"
          /\ job' = [job EXCEPT ![s] = more]
      BY <1>5, <1>a DEF ReadDevices, ReadNext, Job
    <2>2. /\ more.known = DOMAIN db.devices /\ more.reads = Tail(job[s].reads)
          /\ more.errand = job[s].errand /\ more.run = job[s].run
          /\ more.changes = job[s].changes
      BY <1>a DEF Job
    <2> HIDE DEF more
    <2>3. \/ job[s].reads = <<"devices">>
          \/ job[s].reads = <<"devices", "run", "changes">> /\ job[s].errand = "background"
      BY <1>b, <2>1 DEF ReadOk
    <2>4. ReadOk(db, more)
      <3>1. CASE job[s].reads = <<"devices">>
        <4>1. WholeRuns(db, job[s]) /\ job[s].run \in {0} \cup DOMAIN db.runs
          BY <1>b, <2>1, <3>1 DEF ReadOk
        <4>2. {c.device_id : c \in more.changes} \subseteq more.known
          BY <1>a, <2>2, <4>1 DEF WholeRuns, RefsOk
        <4>3. WholeRuns(db, more) /\ more.reads = <<>>
          BY <2>2, <3>1, <4>1 DEF WholeRuns
        <4> QED
          BY <2>2, <4>1, <4>2, <4>3 DEF ReadOk
      <3>2. CASE job[s].reads = <<"devices", "run", "changes">> /\ job[s].errand = "background"
        BY <2>2, <3>2 DEF ReadOk
      <3> QED
        BY <2>3, <3>1, <3>2
    <2> QED
      BY <1>a, <2>1, <2>4, OneReader
  <1>6. ASSUME NEW s \in Sessions, Return(s) PROVE ReadInv'
    <2>1. /\ pc'[s] = "idle"
          /\ \A x \in Sessions \ {s} : job'[x] = job[x] /\ pc'[x] = pc[x]
      BY <1>6, <1>a DEF Return, Goto
    <2> QED
      BY <1>a, <2>1, OneReader
  <1>7. ASSUME NEW s \in Sessions, NEW label, Goto(s, label), label # "read",
               \A x \in Sessions \ {s} : job'[x] = job[x]
        PROVE  ReadInv'
    <2>1. pc'[s] # "read" /\ \A x \in Sessions \ {s} : pc'[x] = pc[x]
      BY <1>7, <1>a DEF Goto
    <2> QED
      BY <1>7, <1>a, <2>1, OneReader
  <1>8. ASSUME NEW s \in Sessions,
               \/ RequestPersist(s) \/ BeginRun(s) \/ PersistHost(s) \/ FinishRun(s)
               \/ RequestPin(s) \/ ReadLatestRun(s) \/ ClearBaselines(s) \/ MarkBaseline(s)
               \/ CommitPin(s) \/ Report(s) \/ LockTimeout(s) \/ Fail(s)
        PROVE  ReadInv'
    <2>1. \/ Return(s)
          \/ /\ \E label \in Labels \ {"read"} : Goto(s, label)
             /\ \A x \in Sessions \ {s} : job'[x] = job[x]
      <3>1. CASE PersistHost(s)
        <4>1. Goto(s, "hosts")
          BY <1>a, <3>1 DEF PersistHost, Goto
        <4> QED
          BY <1>a, <3>1, <4>1 DEF PersistHost, Labels
      <3>2. CASE ~ PersistHost(s)
        BY <1>8, <1>a, <3>2
        DEF RequestPersist, BeginRun, FinishRun, RequestPin, ReadLatestRun, ClearBaselines,
            MarkBaseline, CommitPin, Report, LockTimeout, Fail, Labels
      <3> QED
        BY <3>1, <3>2
    <2> QED
      BY <1>6, <1>7, <2>1
  <1>9. CASE Tick \/ UNCHANGED vars
    <2>1. UNCHANGED <<db, pc, job>>
      BY <1>9 DEF Tick, vars
    <2> QED
      BY <1>b, <2>1 DEF ReadInv
  <1> QED
    BY <1>1, <1>2, <1>3, <1>4, <1>5, <1>8, <1>9 DEF Next, Request, Work

\* What sessions have read is sound in every reachable state.
LEMMA ReadHolds == Spec => []ReadInv
  <1>1. Init => ReadInv
    BY DEF Init, ReadInv
  <1>2. TypeInv /\ TransactionInv /\ ContentInv /\ ReadInv /\ [Next]_vars => ReadInv'
    BY ReadStep
  <1> QED
    BY <1>1, <1>2, ContentHolds, PTL DEF Spec

\* A report shows the runs it covers whole, although its statements are no
\* transaction and others commit between them.
THEOREM ReportsWhole == Spec => []ReportWhole
  <1>1. ReadInv => ReportWhole
    BY DEF ReadInv, ReadOk, WholeRuns, Reporting, ReportWhole
  <1> QED
    BY <1>1, ReadHolds, PTL

\* A report that was asked for can name every device whose change it shows.
THEOREM ReportsResolved == Spec => []ReportResolved
  <1>1. ReadInv => ReportResolved
    BY DEF ReadInv, ReadOk, Reporting, ReportResolved
  <1> QED
    BY <1>1, ReadHolds, PTL

=============================================================================
