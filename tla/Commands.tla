------------------------------ MODULE Commands ------------------------------
(***************************************************************************)
(* The commands that measure and check: speedtest, diagnose and health     *)
(* (netscanx/cli/), and detect_mtu, which the scanner package offers.  An  *)
(* invocation does one of these things, and the process ends with it.      *)
(***************************************************************************)
EXTENDS Mtu, Speedtest, Checkup

vars == <<mtuVars, testVars, checkupVars>>

Init == MtuInit /\ SpeedtestInit /\ CheckupInit

Invoked == search.at # "idle" \/ client.at # "idle" \/ kind # "none"

Invoke ==
  /\ ~ Invoked
  /\ \/ DetectMtu /\ UNCHANGED <<testVars, checkupVars>>
     \/ RunTest /\ UNCHANGED <<mtuVars, checkupVars>>
     \/ /\ \E k \in DOMAIN Checks : StartChecks(k)
        /\ UNCHANGED <<mtuVars, testVars>>

Proceed ==
  /\ Invoked
  /\ \/ MtuLoop /\ UNCHANGED <<testVars, checkupVars>>
     \/ /\ Measure \/ Handle \/ Reset \/ Travel \/ ServerStops \/ ClientStops
        /\ UNCHANGED <<mtuVars, checkupVars>>
     \/ RunChecks /\ UNCHANGED <<mtuVars, testVars>>

Next == Invoke \/ Proceed

Spec == Init /\ [][Next]_vars

\* The event loops of the client and of the server run what can go on, the
\* timeouts and the deadlines among it, and TCP gives up on a peer that does
\* not read.
FairSpec ==
  /\ Spec
  /\ WF_vars(Measure /\ UNCHANGED <<mtuVars, checkupVars>>)
  /\ WF_vars(Handle /\ UNCHANGED <<mtuVars, checkupVars>>)
  /\ WF_vars(Reset /\ UNCHANGED <<mtuVars, checkupVars>>)

\* The types of the variables.
TypeOK ==
  /\ MtuTypeOK /\ SpeedtestTypeOK
  /\ kind \in DOMAIN Checks \cup {"none"}
  /\ kind # "none" => DOMAIN check = DOMAIN Checks[kind]
  /\ report.score \in 0..100

=============================================================================
