--------------------------- MODULE InventoryLedger ---------------------------
(***************************************************************************)
(* What the inventory is for, without sessions, locks, tables or time: a   *)
(* ledger of scans.  Each entry says what the scan saw of which device and *)
(* which changes that was, against what was last known of every device;    *)
(* an entry appears whole, stays as it is, and at most one is pinned as    *)
(* the baseline.                                                           *)
(***************************************************************************)
EXTENDS Integers, Sequences, DriftDiff

VARIABLES
  ledger,     \* sequence of [seen, events]: seen maps device ids to fields
  baseline    \* the pinned entry, or 0

LedgerVars == <<ledger, baseline>>

\* The entries that saw the device.
Sightings(device) == {i \in DOMAIN ledger : device \in DOMAIN ledger[i].seen}

Newest(S) == CHOOSE i \in S : \A j \in S : i >= j

LastKnown ==
  [device \in UNION {DOMAIN ledger[i].seen : i \in DOMAIN ledger} |->
     ledger[Newest(Sightings(device))].seen[device]]

LedgerInit == ledger = <<>> /\ baseline = 0

\* A scan is entered: what it saw is anything, the changes follow from it.
Enter ==
  LET entry == ledger'[Len(ledger) + 1] IN
  /\ Len(ledger') = Len(ledger) + 1
  /\ \A i \in DOMAIN ledger : ledger'[i] = ledger[i]
  /\ entry.events = DiffDevices(LastKnown, entry.seen)
  /\ UNCHANGED baseline

Pin ==
  /\ baseline' \in DOMAIN ledger
  /\ UNCHANGED ledger

LedgerSpec == LedgerInit /\ [][Enter \/ Pin]_LedgerVars

=============================================================================
