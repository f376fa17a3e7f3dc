---------------------------- MODULE MCDashboard ----------------------------
(***************************************************************************)
(* Browser tabs watch the scan the dashboard starts with, lose their       *)
(* connections, reconnect and ask for more.                                *)
(***************************************************************************)
EXTENDS DashboardProperties, TLC

MCSymmetry == Permutations(Tabs)

\* The sections of a scan in server.py, and the least there is: without
\* hosts nothing is persisted, and the others go as hosts does.
MCSections   == <<"hosts", "services", "diagnostics">>
MCOneSection == <<"hosts">>

=============================================================================
