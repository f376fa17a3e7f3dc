----------------------------- MODULE InventoryDb -----------------------------
(***************************************************************************)
(* The tables of the SQLite inventory and the operations the repository    *)
(* offers on them (netscanx/storage/schema.py and repository.py).  Every   *)
(* operation is a pure function of a database value; Inventory.tla says    *)
(* which connection works on which value, and when it becomes visible.     *)
(*                                                                         *)
(*   devices  sequence of device rows       runs   sequence of scan runs   *)
(*   snaps    sequence of snapshots         changes  set of change events  *)
(*                                                                         *)
(* A primary key is the position of its row: nothing is ever deleted and a *)
(* rolled-back insert gives its rowid back.                                *)
(***************************************************************************)
EXTENDS Integers, Sequences, FiniteSets, Identity

CONSTANT GraceDays         \* _IDENTITY_GRACE_DAYS
ASSUME GraceDaysAssumption == GraceDays \in Nat

EmptyDb == [devices |-> <<>>, runs |-> <<>>, snaps |-> <<>>, changes |-> {}]

Least(S)    == CHOOSE x \in S : \A y \in S : x <= y
Greatest(S) == CHOOSE x \in S : \A y \in S : x >= y

-----------------------------------------------------------------------------
(* Devices. *)

FindByMac(db, mac) == {d \in DOMAIN db.devices : db.devices[d].primary_mac = mac}

\* A missing host name on either side is no contradiction.
Compatible(hostname, row) == hostname = None \/ row.last_hostname \in {None, hostname}

\* Slip: no cutoff.
SlipFindByIpEver(db, ip, hostname, today) ==
  {d \in DOMAIN db.devices :
     db.devices[d].last_ip = ip /\ Compatible(hostname, db.devices[d])}

FindByIpRecent(db, ip, hostname, today) ==
  {d \in DOMAIN db.devices :
     /\ db.devices[d].last_ip = ip
     /\ db.devices[d].last_seen >= today - GraceDays
     /\ Compatible(hostname, db.devices[d])}

\* Slip: first_seen is left to a default the column does not have.
SlipCreateUndated(db, mac, randomized, now) ==
  [db EXCEPT !.devices = Append(@,
     [primary_mac |-> mac, is_mac_randomized |-> randomized,
      first_seen |-> None, last_seen |-> now, last_ip |-> None,
      last_hostname |-> None, last_vendor |-> None,
      last_os_guess |-> None, last_device_type |-> None])]

CreateDevice(db, mac, randomized, now) ==
  [db EXCEPT !.devices = Append(@,
     [primary_mac |-> mac, is_mac_randomized |-> randomized,
      first_seen |-> now, last_seen |-> now, last_ip |-> None,
      last_hostname |-> None, last_vendor |-> None,
      last_os_guess |-> None, last_device_type |-> None])]

-----------------------------------------------------------------------------
(* Scan runs and the baseline. *)

CreateScanRun(db, now) ==
  [db EXCEPT !.runs =
     Append(@, [started_at |-> now, host_count |-> 0, is_baseline |-> FALSE])]

FinishScanRun(db, run, count) == [db EXCEPT !.runs[run].host_count = count]

\* Slip: the old baseline is left marked.
SlipClearNothing(db) == db

ClearBaseline(db) ==
  [db EXCEPT !.runs = [r \in DOMAIN @ |-> [@[r] EXCEPT !.is_baseline = FALSE]]]

SetBaseline(db, run) == [db EXCEPT !.runs[run].is_baseline = TRUE]

BaselineRuns(db) == {r \in DOMAIN db.runs : db.runs[r].is_baseline}

-----------------------------------------------------------------------------
(* Snapshots. *)

\* The device row follows the snapshot, so that a reader needs no join.
Observed(row, fields, now) ==
  [row EXCEPT !.last_ip = fields.ip, !.last_hostname = fields.hostname,
              !.last_vendor = fields.vendor, !.last_os_guess = fields.os_guess,
              !.last_device_type = fields.device_type, !.last_seen = now]

\* Slip: a host name that did not resolve leaves the old one in the row.
SlipNameStays(db, run, device, fields, now) ==
  LET name == IF fields.hostname = None THEN db.devices[device].last_hostname
              ELSE fields.hostname
  IN  [db EXCEPT
         !.snaps = Append(@, [scan_run_id |-> run, device_id |-> device,
                              fields |-> fields, created_at |-> now]),
         !.devices[device] = Observed(@, [fields EXCEPT !.hostname = name], now)]

AddSnapshot(db, run, device, fields, now) ==
  [db EXCEPT
     !.snaps = Append(@, [scan_run_id |-> run, device_id |-> device,
                          fields |-> fields, created_at |-> now]),
     !.devices[device] = Observed(@, fields, now)]

SnapIds(db, device) == {i \in DOMAIN db.snaps : db.snaps[i].device_id = device}

\* The fields of each device's newest snapshot among those of other runs.
LatestSnapshotPerDevice(db, exclude_run) ==
  LET Ids(d) == {i \in SnapIds(db, d) : db.snaps[i].scan_run_id # exclude_run}
  IN  [d \in {e \in DOMAIN db.devices : Ids(e) # {}} |->
         db.snaps[Greatest(Ids(d))].fields]

-----------------------------------------------------------------------------
(* Change events. *)

AddChanges(db, run, records) ==
  [db EXCEPT !.changes = @ \cup
     {[scan_run_id |-> run, device_id |-> c.device_id, change |-> c.change] : c \in records}]

ChangesSince(db, run) == {c \in db.changes : c.scan_run_id >= run}

ChangesOfRun(db, run) == {c \in db.changes : c.scan_run_id = run}

=============================================================================
