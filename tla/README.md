# NetScanX in TLA+

TLA+ models of NetScanX (`src/netscanx`), the TLC runs that check them and the TLAPS proofs about
them. NetScanX scans a network, keeps what it saw in a SQLite inventory, reports what changed between
scans, and shows all of it in a dashboard that several browser tabs watch. `PROJECT.json` maps every
definition to the lines it stands for, and lists runs, hazards, findings and theorems.

To check a run: `tlc -config MCSessions.cfg MCSessions.tla`. To check a proof: `tlapm InventorySafety.tla`.

## 1. The system

| Component | State it keeps | Operations | Works with |
|---|---|---|---|
| **Inventory service** `inventory/service.py` | none of its own; a database session per call | `persist_results`, `run_and_persist`, `pin_baseline`, `get_changes`, `list_assets` | repository, heuristics, diff; called by commands and dashboard, also at once |
| **Repository and schema** `storage/repository.py`, `schema.py` | tables Device, ScanRun, DeviceSnapshot, ChangeEvent | find by MAC, by address; create; snapshot (with the row's `last_…`); latest snapshots; events; baseline mark | SQLite through SQLAlchemy |
| **Database engine** `storage/db.py` | one engine per path | `get_engine`, `init_db`, `get_session` | SQLite's write lock and busy timeout |
| **Drift detection** `inventory/diff.py` | none | `diff_snapshots`, `diff_devices` | pure |
| **Identity** `inventory/identity.py`, `enrichment/passive.py` | none | randomised MAC, OS family, device type | pure |
| **Dashboard server** `dashboard/server.py` | registry of connections, cache, tasks | background scan, broadcast, websocket endpoint, GETs, triggers, latency test | all scans, inventory, tabs |
| **Front end** `dashboard/static/app.js` | what a tab shows | connect and reconnect, initial fetch, messages, rescan, latency test | server |
| **Discover scan** `cli/discover.py`, `scanner/` | hosts by address, vendor cache | ARP, ICMP, ARP cache, SYN or TCP ports, vendors, names | network, operating system |
| **Services scan** `cli/services.py`, `discovery/` | list of services | mDNS and SSDP together, then NetBIOS, then SNMP | network |
| **Speed test** `performance/speedtest.py`, `cli/speedtest.py` | counters of a client; a TCP handler and a UDP echo of a server | latency, throughput, loss; serve | the network between two hosts |
| **MTU** `detect_mtu` in `scanner/layer3.py` | the range of a binary search | search | raw packets, routers |
| **Diagnostics, health** `diagnostics/`, `health/` | a report | checks gathered from one event loop; a score | `ping_stats`, operating system |
| **Commands, output, paths** `cli/`, `output.py`, `storage/paths.py` | none | options, tables, database location | all of the above |

What is hard, and what makes each part correct:

* **Inventory.** A scan is persisted by dozens of statements; other processes and dashboard tasks
  persist, pin and report at the same time, and any of them may die between two statements. Correct
  means: a committed run is complete; reports show whole runs; one baseline at most, and never none
  once there was one; history is only ever extended; a MAC identifies one device; the events recorded
  explain the difference between consecutive snapshots.
* **Dashboard.** One event loop, but every send to a client is an await, and the set of clients is
  iterated across these awaits. Correct means: what is registered is served and the reverse; lost
  connections are forgotten; scans end; a tab that is connected shows what the server has, however it
  joined; "Scanning" means there is a scan.
* **Discover.** Hundreds of probes under a semaphore, most of which time out; results of several
  sweeps merged into one record per host; stages that fail each in a different way. Correct means:
  what answered is in the result, the rest is not, and the scan ends.
* **Services.** Listeners that hear the same thing many times, beside each other; batches of requests
  most of which nobody answers. Correct means: what is heard is reported once, whichever part fails.
* **Speed test.** Two processes, either of which may be stopped at any time, and a network that loses
  and duplicates; loops with deadlines around calls without timeouts. Correct means: both sides end; the
  counters differ from what happened by what the network did, and nothing else.
* **Diagnostics and health.** Checks run at once and end, or raise, in any order. Correct means: the report has an
  entry for each, the score costs what was found, and silence of the network is not health.
* **MTU.** A search over answers that may be lost, or be something other than answers.

## 2. The modules

```
Identity   DriftDiff            Dashboard            Discover            Services       Mtu Speedtest Checkup
    \        /                      |                    |                   |               \    |    /
    InventoryDb             DashboardProperties  DiscoverProperties  ServicesProperties       Commands
        |                       /       \            /       \           /       \             /      \
    Inventory           MCDashboard  Dashboard-  MCDiscover Discover- MCServices Services- MCCommands Commands-
        |                             Proofs                 Proofs               Proofs               Proofs
  InventoryProperties --- InventoryLedger (abstract specification)
   |          |
MCSessions MCOneSession
   |
InventoryProofs --- InventorySafety --- InventoryHistory --- InventoryRefinement
```

Operators called `Slip...` are deliberately wrong variants of the definition that follows them, each
the way a plausible mistake would make it. Nothing uses them in a run; putting one in the place of
its definition makes a property fail, and `PROJECT.json` says which ("mutants").

### Identity, DriftDiff: pure algorithms

`Identity` has the heuristics of `identity.py` and `ObservedFields`, what one turn of the loop in
`persist_results` makes of a host and its services. A MAC is its first octet, whose second bit says
"locally administered", and an identity. `DriftDiff` is `diff.py`: a set of change records per pair of
snapshots, `None` for no snapshot. Order and wording of the events are left out.

### InventoryDb, Inventory: the inventory

`InventoryDb` holds the four tables as one value and each method of the repository as a function on
it. `Inventory` says who works on which value: `db` is what is committed; `lock` is SQLite's write
lock, taken by the first INSERT or UPDATE of a transaction; `tx` is the database as its holder sees
it. Each session (a command, a request, a background scan) has a program counter, local variables
(`job`) and the dictionary `current` of `persist_results`. One action is one statement, or the loop
body around it: `RequestPersist`, `BeginRun`, `PersistHost`, `FinishRun`, `CommitRun`; `RequestPin`,
`ReadLatestRun` (before the transaction, as in the code), `ClearBaselines`, `MarkBaseline`,
`CommitPin`; `RequestChanges`, `ReadRun`, `ReadChanges`, `ReadDevices`, `Report`; and what goes wrong:
`LockTimeout` (the busy timeout) and `Fail` at any point, which rolls back. The baseline command is a
scan that goes on to pin its own run, the dashboard's scan one that goes on to read back what changed,
devices first. `Tick` passes a day, the unit of the grace period.

`InventoryLedger` is the abstract specification: a ledger to which one step appends a whole run with
the events that follow from the runs before it, or moves the baseline to a run of the ledger.
`ImplementsLedger` is the refinement, with the ledger read off the committed tables.

### Dashboard: server and tabs

Actions run from one await to the next. `Announce`, `Produce`, `Persist`, `BroadcastChanges` are the
stages of `_background_scan` and of the latency test; a broadcast sends to its first client in the
same step, then `SendNext` once per client, then `EndBroadcast` or, when the set of connections has
changed its size in the meantime, `CutShort` (Python's "Set changed size during iteration").
`Stumble` and `Raise` are exceptions: inside the try blocks they lead to the next stage, outside they
end the task. `Join`, `SendCache`, `PingFails` are the endpoint of a connection. `Connect`, `Lose`, the
initial fetch with its six requests (`AnswerFetch`, `UseFetch`, `DropFetch`), `Rescan`, `TriggerScan`,
`RunSpeedtest` and their answers are the tab. Results are named after the task that produced them, so
"up to date" is an equation. `cut` records that some broadcast was cut short; it is no variable of the
program.

### Discover and Services: scans

`Discover` is `run_discover_scan`, one stage after the other; a sweep is a batch of probes that
are queued, running (at most `Limit`: `--concurrency`, any integer, for echo requests and ports, else
the `Slots` fixed in the code), answered or failed, and is merged when all of it is there. A
timeout, a refusal and an error look the same to the program and are one action. SYN scans count
resets as open ports, as `flags & 0x12` does. What raises ends the scan: a port list that is none, a
semaphore of negative size, the ARP cache (`RaisePorts`, `RaiseConnect`, `RaiseCache`). `Services` is `run_services_scan`: two listeners side by
side, to whom announcements and datagrams come in any order and repeatedly, then two batches of
requests. SNMP messages are sequences of tagged elements, and `ParseResponse` does to them what
`_parse_response` does. In both, `heard` records the answers that came in time; it is no
variable of the program.

### Mtu, Speedtest, Checkup, Commands: measuring and checking

`Mtu` is the loop of `detect_mtu`, one probe a step: an answer (`Pass`), none (`TimeOut`), or a router's
complaint that the probe is too large, which `sr1` takes for an answer (`Tell`). `luck` records which of
this the network did; it is no variable of the program.

`Speedtest` has the client's coroutine from await to await (`Ping`, `Connect`, `Write`, `Drain`, ...), the
handler of the server and its UDP echo, and between them the chunks of a TCP connection and the datagrams on
their way out and back. `Drain` waits while more than `Window` chunks are unread and has no timeout;
`DrainRaises` is the connection that broke. `ServerStops` and `ClientStops` end a process anywhere, the
latter with or without the end of the connection becoming known. A client that gives up a connection may
have been accepted. `fate` counts what the network lost or added; it is no variable of the program. No side
looks at sequence numbers, so the model has none.

`Checkup` is the gather of `diagnose` and `health`. A check draws its status from what the system
can answer, with numbers on both sides of each threshold; the checks that ping draw what `ping_stats`
can return, which for no answer is a loss of 100 % and times of 0. `Gather` folds `add` over the results.

`Commands` puts the three side by side in one process, which does one of these things and ends.

## 3. The runs

| Run | Configuration | Question | Bounds | Distinct states |
|---|---|---|---|---|
| `one_session` | MCOneSession | What becomes of identities when hosts move, vanish, change or randomise MACs? Do events explain snapshots, whatever attribute changes? | 1 session, 3 scans; either of up to 2 hosts, 2 addresses, 2 stable and 1 random MAC, on 2 days, or of 1 host whose attributes vary two at a time; grace 0 days | 1.0 M |
| `sessions` | MCSessions | Do concurrent, failing sessions keep the inventory consistent, and end? | 2 sessions, all errands, 2 runs; fairness | 41 k |
| `rescan` | MCRescan | Is a rescan that sees the same silent? **No** | as `one_session`, hosts that move | – |
| `takeover` | MCTakeover | Are hosts with different stable MACs different devices? **No** | as `one_session`, hosts that move | – |
| `dashboard` | MCDashboard | Registry and endpoints; do tabs show what the server has? | 2 tabs, 2 connections each, 2 scans, 1 test, at most 3 of these in all, 1 section | 1.4 M |
| `dashboard_reconnect` | MCReconnect | Do tasks end, are connections forgotten? | 1 tab, 2 connections, 1 scan; fairness | 46 k |
| `dashboard_scanning` | MCScanning | Does "Scanning" mean a scan? **No** | 2 tabs, 1 connection each, 1 scan, 3 sections | – |
| `discover` | MCDiscover | Is the result what was heard, and does the scan end? | 2 addresses, 2 MACs, 3 ports, 2 slots; 11 ways to run it, `-c 0` and `-c -1` among them; fairness | 256 k |
| `syn_resets` | MCSyn | Is an open port one that accepts? **No** | as `discover`, one SYN scan | – |
| `services` | MCServices | Is what is heard reported once, and does the scan end? | 3 addresses, 3 replies, 2 slots, 5 ways to run it; fairness | 0.9 M |
| `commands` | MCCommands | Do the counters of a speed test say what happened, and do both sides end; is the MTU right; do reports hold what was found? | 2 pings, 1 chunk of buffer, 3 turns of a loop, 2 stray datagrams, sizes 3 to 12, every path, 9 times; fairness | 268 k |
| `health_bottom` | MCBottom | Does failing everything score 0? **No** | as `commands` | – |

Why these bounds are enough for their questions:

* *Three scans* in `one_session`: the diff relates a scan to the newest snapshot of each device,
  which may be of the scan before or an older one; three scans give "seen, missed, seen again" and
  "gone, still gone". *Two hosts on two addresses* give exchanges and take-overs. *Two days with
  a grace period of none* put sightings on either side of the cutoff. The constraint `OneKind` keeps the
  histories in which hosts move apart from those in which one host changes, because their product is
  too large; the theorems have no such restriction.
* *Two runs* in `sessions`: one to be pinned or reported, another persisted, committed, or pinned by
  the other session meanwhile. Every property there that is also a theorem holds for all bounds.
* *`MaxDemand`* bounds how many scans, tests and connections the tabs ask for altogether, so that
  each of them can meet two others. `MCDashboard` gives a scan one section, because the sections go
  through the same code and the first is the one whose absence skips persistence; the scanning run
  has all three.
* *`Slots` 2 of 3 probes*: one probe always has to wait for another. *`MaxNotices` 2*: the same mDNS
  service announced again. SSDP datagrams are not bounded: repeating one changes nothing.
* *3 turns and 1 chunk of buffer* in `commands`: the client meets a full buffer, a drained one and a deadline
  in one connection; *2 stray datagrams* make the loss negative. *Paths* below, at and above both ends of the range and
  at each size in it. *Times* are the numbers on both sides of each
  threshold of each check that compares them. The theorems have none of these bounds.
* *Symmetry* is used for addresses and MACs (`one_session`) and tabs (`dashboard`), and in no run with a
  liveness property.

`CHECK_DEADLOCK FALSE` stands where the system really stops: all scans done and nobody asking.

**Fairness.** `Inventory`: a session under way is scheduled again, and the busy timeout ends a wait for
the lock; nobody is obliged to ask, fail or let time pass. `Dashboard`: the event loop runs every task
and endpoint that can go on; a connection lost is found out by the ping every 30 seconds at the latest.
Tabs owe nothing. `Discover`, `Services`: the loop runs what can go on and timeouts expire; nobody
on the network need ever answer, so liveness rests on timeouts alone. `Commands`: the event loop of the
client runs on, deadlines included, and so does that of the server while it lives, whose reads time
out after ten seconds; TCP resets a connection whose other end is closed. That is what `TestEnds` needs
in the place of the timeout `drain` does not have.

## 4. What the runs found

Each of these is a run that ends in a counterexample, and a finding in `PROJECT.json`:

1. **A rescan is not silent** (`rescan`). A device that has gone is compared with its old snapshot at every
   scan, and reported gone at each. `tests/test_service_e2e.py:90-109` and `README.md:31` say otherwise.
   `AbsenceIsRepeated` proves that it is so for every set of scans (section 5).
2. **Two hosts become one** (`takeover`). A host with a MAC nobody knows takes over the device last seen at
   its address, even if that device has another stable MAC and is in the same scan.
3. **"Scanning" for ever** (`dashboard_scanning`). A tab that joins while `scan_start` or `scan_done` is
   being broadcast ends the scan with an exception; other tabs never hear that it is over.
4. **A reset counts as an open port** (`syn_resets`). `flags & 0x12`, which the comment calls SYN-ACK, is true of the
   answer of a closed port as well. `ResultIsHeard` therefore promises of a SYN scan only that it misses no port.
5. **Nobody scores 0** (`health_bottom`). `health/models.py:22-26` says that a machine that fails everything does,
   and `tests/health/test_scoring.py:44-51` that the weights are made for it. But risky ports, the port count and
   BitLocker only ever warn, Windows Update never fails, checks that raise weigh nothing, and what another operating
   system lacks is skipped. `BottomHolds` proves that no report scores less than 23 on Windows, 50 elsewhere and,
   for a network from the command line, 55.

Modelled as they are, without a run of their own, the first two with a theorem instead:

* SNMP tells the community string: the parser returns the first octet string of the message, which is the community,
  and never enters the PDU where the value is (`snmp.py:133`). `SnmpValuesAreCommunity` proves that no scan reports any
  other value.
* `--concurrency 0` waits for ever: a semaphore of size 0 lets no probe begin, so that no timeout does
  (`discover.py:48`). `OnlyZeroSticks` and `StarvedStays` prove that this is the one way for a discover scan to be stuck,
  and that there is no way out of it.
* Every request starts another scan. The first of two to end tells all tabs that scanning is over, and they offer
  "Rescan" while the other goes on (`server.py:121`, `app.js:57-59`).
* A scan without changes broadcasts nothing (`server.py:246`), so a tab shows the changes of the scan before
  where the page says there would be none (`index.html:165`).
* The report since the baseline includes the baseline's own run (`ChangesSince`).
* A tab that is opened during a scan is not told of it: the cache does not say so.
* An error while the ARP cache is read on Linux ends the scan, and what was found is lost (`RaiseCache`, `RaiseCollect`).
* A single host whose ports were asked for is in the result even if nothing answered.
* `packet_loss` is ok, and its text "No packet loss", when one ping of twenty is lost (`LossStatus`).
* `netscanx health` asks for ten ports, so that the check for more than fifteen never warns; it passes no
  host name, so that its DNS check never runs.
* When no ping is answered the latency is 0 ms and ok (`LatencyStatus`); `SilenceIsAnError` holds because another
  check of the same report sees the loss.
* The loss of the UDP test is negative when more echoes come than were counted; `LossAddsUp` says by how much.

## 5. What is proved

By TLAPS, for every set of sessions, tabs, hosts, replies and values and for every bound, from the
assumptions named beside the constants of the modules and no others:

| Module | Theorem | Statement |
|---|---|---|
| InventoryProofs | `TypeCorrect` | `Spec => []TypeOK` |
| InventorySafety | `TransactionStep` | `TypeInv /\ TransactionInv /\ [Next]_vars => TransactionInv'` |
| | `OnlyOneBaseline` | `Spec => []BaselineUnique` |
| | `IdentitiesApart` | `Spec => []UniquePrimaryMac` |
| | `NothingTakenBack` | `Spec => HistoryAppendOnly` |
| | `BaselineNeverLost` | `Spec => BaselineKept` |
| | `EachStatementCounts` | `Spec => [][WorkRunsOut]_vars`: each statement of a session leaves it fewer |
| | `NoLookupRaises` | `Spec => []LookupsSucceed`: no lookup of a MAC is ambiguous |
| InventoryHistory | `RunsWhole` | `Spec => []RunsComplete` |
| | `RowsFollowSnapshots` | `Spec => []DeviceRowsInSync` |
| | `MacIsIdentity` | `Spec => []MacIdentityStable` |
| | `AddressExpires` | `Spec => []GraceRespected` |
| | `ReportsWhole` | `Spec => []ReportWhole` |
| | `ReportsResolved` | `Spec => []ReportResolved` |
| InventoryRefinement | `InventoryIsLedger` | `Spec => ImplementsLedger` |
| | `HistoryExplains` | `Spec => []EventsReplay` |
| | `RescanIsSilent` | `Spec => []SilentWhenUnchanged`: a run is silent about what it sees unchanged, and about nothing else known |
| | `AbsenceIsRepeated` | `Spec => []GoneAtEveryRun`: every run that misses a device says so again |
| DashboardProofs | `RegistryHolds` | `Spec => []RegisteredIsServed` |
| | `LiveUnlessCutHolds` | `Spec => []LiveUnlessCut` |
| | `TypesHold` | `Spec => []TypeOK` |
| | `TasksOnlyMoveOn` | `Spec => [][TasksMoveOn]_vars`: each step of a task leads further |
| DiscoverProofs | `ArpWinsHolds` | `Spec => []ArpWins` |
| | `VendorHolds` | `Spec => []VendorOfMac` |
| | `NothingDroppedHolds` | `Spec => NothingDropped` |
| | `ResultIsHeardHolds` | `Spec => []ResultIsHeard` |
| | `TypesHold` | `Spec => []TypeOK` |
| | `ScanOnlyMovesOn` | `Spec => [][ScanMoves]_vars`: each step of a scan leads further |
| | `OnlyZeroSticks` | `Spec => []StuckIffStarved`: it waits for what cannot happen with `--concurrency 0` only |
| | `StarvedStays` | `Spec => [][~ Starved]_vars`: and then no step leads on |
| ServicesProofs | `OnceHolds` | `Spec => []OncePerUsn` |
| | `HeardHolds` | `Spec => []HeardIsReported` |
| | `TypesHold` | `Spec => []TypeOK` |
| | `SnmpValuesAreCommunity` | `Spec => []SnmpIsCommunity`: SNMP values are the community string |
| | `ScanOnlyMovesOn` | `Spec => [][ScanMoves]_vars`: each step leads further, or is heard by a listener |
| | `ScanNeverStuck` | `Spec => []NeverStuck`: a scan waits for nothing that cannot happen |
| CommandsProofs | `CommandsAreComponents` | `Spec => MtuSpec /\ SpeedtestSpec /\ CheckupSpec` |
| | `CommandsHold` | the promises of the components, of `Commands!Spec` |
| | `TypesHold` | `Spec => []TypeOK` |
| | `MtuRight` | `MtuSpec => []MtuIsRight` |
| | `SearchEnds` | every turn of the loop shortens its range |
| | `LossHolds` | `SpeedtestSpec => []LossAddsUp` |
| | `ThroughputHolds` | `SpeedtestSpec => []ThroughputWithinWindow` |
| | `TestOnlyMovesOn` | `SpeedtestSpec => [][ClientMovesOn]_testVars`: each step of the client leads it further |
| | `TestNeverStuck` | `SpeedtestSpec => []NobodyStuck`: neither `drain` nor the handler waits for good |
| | `CompleteHolds` | `CheckupSpec => []ReportComplete` |
| | `PerfectHolds` | `CheckupSpec => []PerfectMeansClean` |
| | `SilenceHolds` | `CheckupSpec => []SilenceIsAnError` |
| | `BottomHolds` | `CheckupSpec => []ScoreHasBottom`: no report scores less than `Bottom` |

**Inventory.** `TypeOK` alone is not inductive: that a session in the middle of its hosts has a scan
whose next host exists must be known first (`TypeInv`). `BaselineUnique` and the others speak of the
committed database, which changes only when a transaction commits; so what is needed of the
transaction is that it is *ready to be committed*. `TransactionInv` says so: the sessions
inside a transaction are exactly the holder of the lock, and outside `tx = db` (`LockInv`); the run
being persisted is the next one, the run being pinned exists (`RunInv`); between the two updates of
`mark_baseline`, and only there, a transaction may have lost the baseline (`BaselineInv`); `tx` extends
`db`; MACs are distinct in both. One lemma per repository operation says what it does to a
database (`CreateDeviceEffect`, `AddSnapshotEffect`, ...), four lemmas say what a step without a write,
with a write, at the beginning and at the end of a transaction does to the invariant, and the proof has
one step per action. TLC checks `TransactionInv` in `sessions` as well.

What the tables contain is proved on top of it, from `ContentInv`: both databases are `Sound` between any
two statements (references resolve, rows follow snapshots, identities and the grace period are
respected), and a run counts its snapshots, except the one whose hosts are being written: there
the loop counter does (`UnderWay`), and what the session remembers of its hosts are devices that
exist. That all of it holds in the middle of a transaction is what makes a commit at any point, and a
rollback, harmless. `Recorded` says what a turn of the loop over the hosts adds to a database, and one
lemma for each part of `Sound` says that the part survives it: of `MacIdentityStable` this needs more than the property
itself says, namely that no randomised MAC is the primary MAC of a device (`MacsOk`), and of `GraceRespected` that a
lookup by address found a device whose row, hence its newest snapshot, is recent.

Reports hold no lock. `ReadInv` says what a session knows between its reads; `ReadKept` says that it stays true
when others commit, because what is committed is only extended and no event joins an old run (`ExtendsStep`).

The refinement rests on `LedgerInv`: the snapshots of a transaction are in the order of their runs, and those
it adds belong to no run that was visible before; the events of every run are what `DiffDevices` makes of what was
known before the run and what the run saw (`Explained`); and the dictionary `current` of a session in the loop
over its hosts says of every device what its run has seen last (`Tells`). So `latest_snapshot_per_device`, which
leaves out one run, finds what was known before it (`LatestIsKnown`), although other runs were committed since the scan
began. Then `CommitRun` of a persisting session is `Enter` of the ledger, `CommitPin` is `Pin`, and every other
step leaves the ledger as it is (`LedgerStep`). `EventsReplay` follows from `Explained` and from what
`DiffSnapshots` says of two observations (`PatchesHold`); that the events of members of a set can be told from those
of attributes needs `NoneAssumption`, that `None` is neither a port nor a service.
`RescanIsSilent` and `AbsenceIsRepeated` follow from the same description of the events (`EventsAreDiff`): a comparison finds
nothing if and only if nothing it looks at differs (`SameIsSilent`), and what was last known of a device stays known, so that
every further run that misses the device says once more that it is gone. The second explains, for every set of scans, what the run
`rescan` shows on one (section 4).

`NoLookupRaises` is a consequence of `MacsDistinct`, which the invariant has of the transaction and not only of the committed
database: `scalar_one_or_none` finds at most one device, also among those that the transaction itself has added.

**Dashboard.** `RegisteredIsServed` is not inductive either: `EndBroadcast` takes out of the registry what it
found dead some steps earlier. `TasksInv` says that what a broadcast found dead is lost for good (it is down, and
no connection comes up again), and `LinksInv` that endpoints exist only for connections that were made;
together they are `RegistryInv`.

`LiveUnlessCut` speaks of a moment at which nothing is under way; `LiveInv` says what holds until then. Whatever
a tab shows, or holds as an answer not yet used, is the result of a task that was started, of a kind the server
has a result of (`Genuine`, in `ResultsInv`); and a tab whose connection is served shows a result of every kind
in the cache, unless a broadcast of that kind has it still to visit or some broadcast was cut short
(`ReachInv`). A connection that joins during a broadcast need not be visited, because its cache is sent after it was
registered: that is the step from `Join` to `SendCache`. Which of two results is shown the
invariant does not say, and need not: if one task alone produced results of the kind, both are its own
(`Uncontended`). `TypesInv` adds that the registry is finite and that a tab which has an answer holds it.

**Discover.** `ScanInv`: each host is well formed with the vendor of its MAC (`HostsOk`); what ARP or its cache
told is a MAC of a host in the result, and the cache is not read before the sweeps are over (`MacsHeard`);
`ArpWins` itself. The lemma about merging (`MergeOk`) says that a host keeps what is known of it, and every stage cites it.
For `ResultIsHeard`, `HeardInv` says where what was heard is at any time: told by the hosts, or held by an answered probe of the
batch under way (`SourcesHeard`, `PortsHeard`); and that no host is there without having been told of, but one that was asked
for (`FoundHeard`). A batch is over only when it was merged, so that nothing is held at the end. `TypesInv`
bounds the running probes by the slots: each starts on its own, and only if there is one left.

**Services.** `OnceInv`: the list of the replies has no key twice and only keys that were seen, so that a
reply whose key is unseen may be added; the other lists hold no replies, so that joining them is harmless.
`HeardInv` is that the lists tell what was heard so far, except for the answers the stage has still to add (`Untold`);
that a discovery which raised had heard nothing; and that an SNMP probe is answered if and only if it got a value. The
last rests on `CommunityIsRead`: whatever the agent says, `ParseResponse` returns the community, which it takes for
the value and which is not empty (`CommunityAssumption`). `SnmpValuesAreCommunity` follows from the same lemma, by the
invariant that the results of the probes and the lists hold nothing else (`ParrotsInv`).

**MTU.** `RangeInv` is the loop invariant of a binary search: above the range nothing passes unless something
was lost, and below it something does unless something was misreported.

**Speed test.** `LossAddsUp` is inductive with the types. For the throughput, `ChunksInv` counts the chunks while the
connection is open (what is read and what is under way is what was counted, and one more while `drain`
waits) and bounds them afterwards.

**Diagnostics and health.** A report is a fold of `Add` over the results, of which there are as many as there are checks.
The induction theorems of the library take a predicate as a parameter, which the provers
cannot instantiate; but the same can be said of sets. `LeastNumber` (every set of numbers that is not empty has
a least one) follows from the theorem that `<` is well-founded, whose parameters are sets, and `SetInduction`
from it. `FoldLeft` is by definition a value of a function on sets of indices; `Table` says of a function that it
is one as far as the first *n* indices, `TableExists` finds one for every *n* by `SetInduction`, and `FoldIsTable` equates
the two. What the loop of `run_all` keeps true is a set of numbers of turns: after *k* turns the
report `Tells` of the first *k* results, which means that it lists them, counts those not skipped, that without an error in it there is none among
them, and that if its score is 100 none of them deducted anything. For `ScoreHasBottom` the same induction runs over costs: the
score after *k* turns is at least 100 less what the first *k* checks can deduct (`FoldCosts`).

`CheckupInv` ties the fold to the checks: each is under way or has one of its possible outcomes, and a report is
made when none is under way. `OutcomesSay` and `OutcomesBounded` say what single checks can answer, whatever the
`Times` are: a ping statistic without an answer is an error in two of the checks; risky ports and a count of ports are never an error.
`ChecksKnown` says that every weight of a health check is two at least, so that a warning deducts something although it
deducts half, in whole numbers; that is why a score of 100 hides none.

**Commands.** Each step of an invocation is a step of one component and leaves the others alone; so
the commands satisfy the specification of each, and its theorems.

**That things end.** Liveness under fairness is outside what the prover can do: `JobsFinish`, `TasksEnd`,
`LostIsForgotten`, `ScanEnds`, `ServicesEnd`, `TestEnds` and `HandlerEnds` are only model-checked. Proved are the two facts
about steps and states they rest on; for `LostIsForgotten` that is `RegisteredIsServed` itself: what is registered has an endpoint
that will take it out. *Every step leads further*: `EachStatementCounts` counts the statements left to a session,
which each of its own makes fewer and no other session's makes more; `TasksOnlyMoveOn`, the two
`ScanOnlyMovesOn`, `TestOnlyMovesOn` and `SearchEnds` say the same of tasks, scans, tests and the search for the MTU, by stages, and
within a stage by hosts, connections, probes, OIDs, pings or turns. What may repeat is what others say while a listener listens; that ends with its timeout.
*Nobody waits for what cannot happen*: a probe that runs has a timeout and one that waits gets a slot when they end (`ScanNeverStuck` of
the services scan, whose slots are fixed in the code, and `OnlyZeroSticks` of the discover scan, unless `--concurrency` is 0; of an SNMP
probe it must be known that it has an OID left to ask for, of the batch of ports that its host is still to visit);
`drain`, which has no timeout, waits for a handler that reads or for a reset (`TestNeverStuck`, from `LinkInv`: while the client
writes, the connection has a handler, and it is open or broken). What remains to TLC is that fairness turns the two into an end.

Every invariant and every action property of a passing run is a theorem.

## 6. What is not modelled

* Option parsing, output, paths: no state. The start of the dashboard's web server and its static files.
* `windows_wmi.py` and `remote_checks.py` are stubs; `UDPScanner`, `check_ip_conflict` and
  `get_baseline_snapshot_per_device` are called by nothing. Nothing calls `detect_mtu` either, and
  `mtu_detected` of a speed test is never set; it is modelled as an algorithm the package offers.
* The creation of the tables: they are taken to exist. The race of two processes that create them at
  once fails the first statement of one, which `Fail` covers.
* Time is days in the inventory and absent elsewhere, so that durations cannot be seen: a serial NetBIOS
  batch, a ping process that outlives its timeout, a check that blocks the event loop while other checks measure
  (their times are arbitrary instead). Mbit/s and percentages are computed of counters the models have.
* IPv6 targets: the `/32` that a discover scan makes of a single address would be a network of 2^96.
* The ping and the port scan with which `netscanx health TARGET` begins: the answer to the ping is dropped, and the
  ports are what the checks draw.
* Which of two concurrent scans a tab shows in the end: `LiveUnlessCut` leaves out kinds that two tasks produced.
* `--pings 0`, which makes `ping_stats` report a loss of 100 %.
* Sockets in `Services` receive only what was sent to them, those of the UDP test any datagram.

## 7. Plan

Done: inventory, dashboard, discover and services scans, speed test, MTU, diagnostics and health; proofs
about each of them, of every invariant and action property that is checked, and of the steps and states that
liveness rests on. To come: the composition of the background
scan of the dashboard with `Discover` and `Services` in the place of its stages.
