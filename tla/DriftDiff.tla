----------------------------- MODULE DriftDiff -----------------------------
(***************************************************************************)
(* Drift detection between two observations of the inventory               *)
(* (netscanx/inventory/diff.py).  Everything here is a pure function: the  *)
(* lists of ChangeRecords the code builds are sets, since no two records   *)
(* of one device are equal and their order is only a matter of display.    *)
(***************************************************************************)

CONSTANT None     \* Python's None

Change(type, field, old, new) ==
  [change_type |-> type, field |-> field, old_value |-> old, new_value |-> new]

NewDevice  == Change("new_device",  None, None, None)
DeviceGone == Change("device_gone", None, None, None)

\* One record when the attribute differs, none when it does not.
FieldChange(type, field, old, new) ==
  IF old[field] # new[field] THEN {Change(type, field, old[field], new[field])} ELSE {}

\* One record per member that appeared or disappeared.
Added(type, field, old, new) ==
  {Change(type, field, None, x) : x \in new[field] \ old[field]}
Removed(type, field, old, new) ==
  {Change(type, field, x, None) : x \in old[field] \ new[field]}

\* Slip: closed ports go unreported.
SlipOnlyOpened(old, new) ==
  IF old = None THEN {NewDevice} ELSE Added("port_opened", "open_ports", old, new)

\* A MAC that was not observed this time is not a change; device_type is
\* stored in the snapshots and never compared.
DiffSnapshots(old, new) ==
  IF old = None THEN {NewDevice}
  ELSE UNION {
         FieldChange("ip_changed", "ip", old, new),
         IF new.mac # None THEN FieldChange("mac_changed", "mac", old, new) ELSE {},
         FieldChange("hostname_changed", "hostname", old, new),
         FieldChange("vendor_changed", "vendor", old, new),
         FieldChange("os_guess_changed", "os_guess", old, new),
         Added("port_opened", "open_ports", old, new),
         Removed("port_closed", "open_ports", old, new),
         Added("service_added", "services", old, new),
         Removed("service_removed", "services", old, new),
         FieldChange("firmware_changed", "snmp_sysdescr", old, new) }

\* previous and current map device ids to fields.  The result is a set of
\* records [device_id, change].
DiffDevices(previous, current) ==
  LET Old(d) == IF d \in DOMAIN previous THEN previous[d] ELSE None IN
  (UNION {{[device_id |-> d, change |-> c] : c \in DiffSnapshots(Old(d), current[d])} :
            d \in DOMAIN current})
  \cup {[device_id |-> d, change |-> DeviceGone] : d \in DOMAIN previous \ DOMAIN current}

=============================================================================
