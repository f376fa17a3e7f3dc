------------------------------- MODULE Checkup -------------------------------
(***************************************************************************)
(* The checks that netscanx diagnose and netscanx health gather into a     *)
(* report (netscanx/diagnostics/checks.py, netscanx/health/).              *)
(*                                                                         *)
(* The checks run at once and end in any order.  What a check finds out is *)
(* drawn from what the system may answer; a check that pings draws what    *)
(* ping_stats (netscanx/scanner/layer3.py) can return.                     *)
(*                                                                         *)
(* Given a target, netscanx health first pings it and scans its ports      *)
(* (cli/health.py:39-46).  That is left out: the answers to the ping are   *)
(* dropped, and the open ports are what _check_risky_ports and             *)
(* _check_open_port_count draw.                                            *)
(***************************************************************************)
EXTENDS Integers, SequencesExt

CONSTANTS
  Times,     \* the averages and jitters that pings may show, in milliseconds
  MaxPorts   \* the ports that netscanx health asks for

ASSUME TimesAssumption == Times \subseteq Nat /\ MaxPorts \in Nat

VARIABLES
  kind,    \* the report that is made, or "none"
  check,   \* the checks under way or done, with their outcomes
  report   \* DiagnosticReport or HealthReport, once run_all has gathered it

checkupVars == <<kind, check, report>>

-----------------------------------------------------------------------------
(* What a check finds out.  An outcome is a status and whether some ping   *)
(* was answered.                                                           *)

Outcome(status, heard) == [status |-> status, heard |-> heard]
Silent(statuses)       == {Outcome(s, FALSE) : s \in statuses}

\* ping_stats: without an answer the times are 0.  The loss is in per cent.
Stats(count) ==
  {[loss |-> 100, avg |-> 0, jitter |-> 0]} \cup
  [loss : {(100 * n) \div count : n \in 0..(count - 1)}, avg : Times, jitter : Times \cup {0}]

GatewayStatus(s) ==
  IF s.loss >= 100 THEN "error" ELSE IF s.loss > 0 \/ s.avg > 100 THEN "warning" ELSE "ok"

\* Slip: without a time there is no loss.
SlipLossStatus(s) ==
  IF s.loss >= 50 /\ s.avg > 0 THEN "error" ELSE IF s.loss > 5 THEN "warning" ELSE "ok"

\* One packet of twenty is five per cent, and no loss.
LossStatus(s) ==
  IF s.loss >= 50 THEN "error" ELSE IF s.loss > 5 THEN "warning" ELSE "ok"

LatencyStatus(s) ==
  IF s.avg > 200 THEN IF s.avg < 500 THEN "warning" ELSE "error"
  ELSE IF s.jitter > 50 THEN "warning" ELSE "ok"

ReachabilityStatus(s) ==
  IF s.loss >= 100 THEN "error" ELSE IF s.loss > 0 \/ s.avg > 200 THEN "warning" ELSE "ok"

PingOutcomes(count, Status(_)) == {Outcome(Status(s), s.loss < 100) : s \in Stats(count)}

\* Three names that may each fail to resolve.
DnsStatus(failed) == IF failed = 3 THEN "error" ELSE IF failed > 0 THEN "warning" ELSE "ok"

\* No valid address, a gateway elsewhere; or an exception instead.
SubnetStatus(issues) == IF issues > 1 THEN "error" ELSE IF issues > 0 THEN "warning" ELSE "ok"

\* Without lease files nothing is known.
DhcpStatus(servers) == IF servers > 1 THEN "warning" ELSE IF servers = 1 THEN "ok" ELSE "skipped"

PortCountStatus(n) == IF n > 15 THEN "warning" ELSE "ok"

FreeSpaceStatus(gb) == IF gb < 5 THEN "error" ELSE IF gb < 15 THEN "warning" ELSE "ok"

LoadStatus(percent, high) ==
  IF percent > 90 THEN "error" ELSE IF percent > high THEN "warning" ELSE "ok"

\* What psutil cannot tell raises, and nothing else does.
Raised == Outcome("raised", FALSE)

DiskOutcomes   == Silent({FreeSpaceStatus(gb) : gb \in {4, 5, 15}}) \cup {Raised}
CpuOutcomes    == Silent({LoadStatus(p, 75) : p \in {75, 76, 91}}) \cup {Raised}
MemoryOutcomes == Silent({LoadStatus(p, 80) : p \in {80, 81, 91}}) \cup {Raised}

\* Windows answers, or the query fails and the check is skipped.
DefenderOutcomes  == Silent({"ok", "error", "skipped"})
BitlockerOutcomes == Silent({"ok", "warning", "skipped"})
UpdateOutcomes    == Silent({"ok", "skipped"})

RiskyPortsOutcomes == Silent({"ok", "warning"})
Ipv6Outcomes       == Silent({"ok", "warning"})

Outcomes == [
  dns          |-> Silent({DnsStatus(n) : n \in 0..3}),
  gateway      |-> Silent({"warning"}) \cup PingOutcomes(5, GatewayStatus),
  packet_loss  |-> PingOutcomes(20, LossStatus),
  latency      |-> PingOutcomes(15, LatencyStatus),
  subnet       |-> Silent({SubnetStatus(n) : n \in 0..2}),
  dhcp         |-> Silent({DhcpStatus(n) : n \in 0..2}),
  ipv6         |-> Ipv6Outcomes,
  disk         |-> DiskOutcomes,
  cpu          |-> CpuOutcomes,
  memory       |-> MemoryOutcomes,
  defender     |-> DefenderOutcomes,
  bitlocker    |-> BitlockerOutcomes,
  update       |-> UpdateOutcomes,
  unavailable  |-> Silent({"skipped"}),
  reachability |-> PingOutcomes(5, ReachabilityStatus),
  ports        |-> RiskyPortsOutcomes,
  port_count   |-> Silent({PortCountStatus(n) : n \in 0..MaxPorts})]

\* The checks of each report in the order of its list, with their weights.
\* netscanx health never knows a host's name: _check_dns_response does not run.
Weighed(name, weight) == [name |-> name, weight |-> weight]

Checks == [
  diagnose |-> <<Weighed("dns", 0), Weighed("gateway", 0), Weighed("packet_loss", 0),
                 Weighed("latency", 0), Weighed("subnet", 0), Weighed("dhcp", 0),
                 Weighed("ipv6", 0)>>,
  windows  |-> <<Weighed("disk", 20), Weighed("cpu", 15), Weighed("memory", 15),
                 Weighed("defender", 20), Weighed("bitlocker", 15), Weighed("update", 15)>>,
  local    |-> <<Weighed("disk", 20), Weighed("cpu", 15), Weighed("memory", 15),
                 Weighed("unavailable", 20), Weighed("unavailable", 15),
                 Weighed("unavailable", 15)>>,
  network  |-> <<Weighed("reachability", 30), Weighed("ports", 30), Weighed("port_count", 20)>>]

-----------------------------------------------------------------------------
(* The report: add, once for each result.                                  *)

EmptyReport == [checks |-> <<>>, ok |-> 0, warning |-> 0, error |-> 0, score |-> 100]

\* Slip: a warning deducts nothing.
SlipDeduction(status, weight) == IF status = "error" THEN weight ELSE 0

Deduction(status, weight) ==
  CASE status = "warning" -> weight \div 2
    [] status = "error"   -> weight
    [] OTHER              -> 0

\* An exception is an error with no weight.
Entry(name, weight, outcome) ==
  IF outcome = Raised THEN [name |-> "internal", status |-> "error", weight |-> 0]
  ELSE [name |-> name, status |-> outcome.status, weight |-> weight]

Count(entry, status) == IF entry.status = status THEN 1 ELSE 0

Floor(score) == IF score < 0 THEN 0 ELSE score

Add(rep, entry) ==
  [checks  |-> Append(rep.checks, entry),
   ok      |-> rep.ok + Count(entry, "ok"),
   warning |-> rep.warning + Count(entry, "warning"),
   error   |-> rep.error + Count(entry, "error"),
   score   |-> Floor(rep.score - Deduction(entry.status, entry.weight))]

-----------------------------------------------------------------------------
(* run_all.                                                                *)

CheckupInit == kind = "none" /\ check = <<>> /\ report = EmptyReport

Running == Outcome("running", FALSE)

StartChecks(k) ==
  /\ kind = "none"
  /\ kind' = k
  /\ check' = [i \in DOMAIN Checks[k] |-> Running]
  /\ UNCHANGED report

EndCheck(i) ==
  /\ check[i] = Running
  /\ \E o \in Outcomes[Checks[kind][i].name] : check' = [check EXCEPT ![i] = o]
  /\ UNCHANGED <<kind, report>>

Gathered == kind # "none" /\ \A i \in DOMAIN check : check[i] # Running

Results == [i \in DOMAIN check |-> Entry(Checks[kind][i].name, Checks[kind][i].weight, check[i])]

\* Slip: an exception is no result.
SlipGather ==
  /\ Gathered /\ report = EmptyReport
  /\ report' = FoldLeft(Add, EmptyReport, SelectSeq(Results, LAMBDA e : e.name # "internal"))
  /\ UNCHANGED <<kind, check>>

\* The results are in the order of the checks, whichever ended first.
Gather ==
  /\ Gathered /\ report = EmptyReport
  /\ report' = FoldLeft(Add, EmptyReport, Results)
  /\ UNCHANGED <<kind, check>>

RunChecks   == (\E i \in DOMAIN check : EndCheck(i)) \/ Gather
CheckupNext == (\E k \in DOMAIN Checks : StartChecks(k)) \/ RunChecks
CheckupSpec == CheckupInit /\ [][CheckupNext]_checkupVars

Reported == report # EmptyReport

-----------------------------------------------------------------------------

\* A report has one entry for each check, in their order, although they end
\* in any order and some of them raise (checks.py:33-42): under its name, or
\* as an error without one.
ReportComplete == Reported =>
  /\ Len(report.checks) = Len(Checks[kind])
  /\ \A i \in DOMAIN report.checks :
       IF check[i] = Raised THEN report.checks[i].status = "error"
       ELSE /\ report.checks[i].name = Checks[kind][i].name
            /\ report.checks[i].status = check[i].status
  /\ report.error + report.warning + report.ok
       = Cardinality({i \in DOMAIN check : check[i].status # "skipped"})

\* A perfect score means that nothing was found (models.py:22-26), unless a
\* check raised: that is an error which costs nothing.
PerfectMeansClean == Reported /\ kind # "diagnose" /\ report.score = 100 =>
  \A i \in DOMAIN check : check[i].status \in {"ok", "skipped", "raised"}

\* A network that answers no ping at all is reported as an error, although
\* its latency is 0 ms and ok (checks.py:139): another check of the report
\* sees the silence.
SilenceIsAnError == Reported /\ kind \in {"diagnose", "network"} =>
  ((\A i \in DOMAIN check : ~ check[i].heard) => report.error > 0)

\* The weights of a set are said to sum to 100, so that a machine that fails
\* everything scores 0 (health/models.py:22-26, test_scoring.py:44-46): so
\* does a report none of whose checks could have deducted more.
Deducts(i, outcome) ==
  LET entry == Entry(Checks[kind][i].name, Checks[kind][i].weight, outcome)
  IN  Deduction(entry.status, entry.weight)

AtWorst == \A i \in DOMAIN check :
  \A o \in Outcomes[Checks[kind][i].name] : Deducts(i, o) <= Deducts(i, check[i])

WorstIsZero == Reported /\ kind # "diagnose" /\ AtWorst => report.score = 0

=============================================================================
