------------------------------ MODULE MCServices ------------------------------
(***************************************************************************)
(* Services scans of three addresses, run the ways the dashboard and the     *)
(* command line run them.  One device answers the search for two services, *)
(* another without a USN.                                                  *)
(***************************************************************************)
EXTENDS ServicesProperties

CONSTANTS i1, i2, u1, u2

MCReplies == {[ip |-> i1, usn |-> u1], [ip |-> i1, usn |-> u2], [ip |-> i2, usn |-> Nothing]}

Both == [target |-> "range", mdns |-> TRUE, ssdp |-> TRUE, netbios |-> FALSE, snmp |-> FALSE]

\* _background_scan; netscanx services; with --snmp, of one host, of a network
\* larger than 512 addresses; and without multicast.
MCOptions == {Both, [Both EXCEPT !.netbios = TRUE],
              [Both EXCEPT !.netbios = TRUE, !.snmp = TRUE, !.target = "host"],
              [Both EXCEPT !.snmp = TRUE, !.mdns = FALSE, !.target = "other"],
              [Both EXCEPT !.netbios = TRUE, !.snmp = TRUE, !.mdns = FALSE, !.ssdp = FALSE]}

=============================================================================
