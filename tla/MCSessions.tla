----------------------------- MODULE MCSessions -----------------------------
(***************************************************************************)
(* Several sessions work on one inventory: scans, baselines and reports of *)
(* the command line and the dashboard, failing at any statement.           *)
(***************************************************************************)
EXTENDS InventoryProperties

CONSTANTS ip1, ip2, macA

MCHosts == [ip : {ip1, ip2}, mac : {None, [first |-> 0, id |-> macA]}, hostname : {None},
            vendor : {None}, ttl : {None}, open_ports : {{}}]

\* Nothing, a device without a MAC, a device with one, and that one at the
\* other address beside a stranger at its old address.
MCScans ==
  LET Bare(ip)  == [ip |-> ip, mac |-> None, hostname |-> None, vendor |-> None,
                    ttl |-> None, open_ports |-> {}]
      Known(ip) == [Bare(ip) EXCEPT !.mac = [first |-> 0, id |-> macA]]
  IN  [hosts : {<<>>, <<Known(ip1)>>, <<Bare(ip1), Known(ip2)>>}, services : {<<>>}]

=============================================================================
