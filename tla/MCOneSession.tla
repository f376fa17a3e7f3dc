---------------------------- MODULE MCOneSession ----------------------------
(***************************************************************************)
(* One session persists scan after scan: what becomes of identities, and   *)
(* what the change history says of them.  The hosts that wander come and   *)
(* go, move between two addresses, answer without a MAC, with a stable or  *)
(* with a randomised one, in either order; nothing else about them is      *)
(* observed.  The host that changes stays where it is, and every observed  *)
(* attribute of it varies, beside a neighbour that comes and goes.         *)
(***************************************************************************)
EXTENDS InventoryProperties, TLC

CONSTANTS ip1, ip2, macA, macB, macR

\* The first octet of macR has the locally-administered bit.
Macs == {None, [first |-> 0, id |-> macA], [first |-> 0, id |-> macB],
         [first |-> 2, id |-> macR]}

BareHost(ip, mac) == [ip |-> ip, mac |-> mac, hostname |-> None, vendor |-> None,
                      ttl |-> None, open_ports |-> {}]

Wanderers == {BareHost(ip, mac) : ip \in {ip1, ip2}, mac \in Macs}

\* Every list of these hosts that names an address at most once.
WanderingScans ==
  [hosts : {hosts \in UNION {[1..n -> Wanderers] : n \in 0..2} :
              \A i, j \in DOMAIN hosts : hosts[i].ip = hosts[j].ip => i = j},
   services : {<<>>}]

-----------------------------------------------------------------------------

StableMac     == [first |-> 0, id |-> "A"]
RandomizedMac == [first |-> 2, id |-> "R"]

\* The values of each attribute that the heuristics and the diff tell apart.
Changeable ==
  [ip : {"ip3"}, mac : {None, StableMac, RandomizedMac}, hostname : {None, "pc"},
   vendor : {None, "Synology"}, ttl : {None, 64, 100},
   open_ports : {{}, {<<22, "tcp">>, <<631, "tcp">>}, {<<22, "tcp">>, <<3389, "tcp">>}}]

Neighbour == [ip |-> "ip4", mac |-> StableMac, hostname |-> None, vendor |-> None,
              ttl |-> 255, open_ports |-> {}]

Printer  == [name |-> "lp", type |-> "_ipp._tcp", host |-> "pc", ip |-> "ip3",
             source |-> "mdns", sysdescr |-> None]
Gateway  == [name |-> "gw", type |-> "InternetGatewayDevice", host |-> "ip3", ip |-> None,
             source |-> "ssdp", sysdescr |-> None]
Agent    == [name |-> "snmp", type |-> "snmp", host |-> "ip3", ip |-> "ip3",
             source |-> "snmp", sysdescr |-> "v1"]
Upgraded == [Agent EXCEPT !.sysdescr = "v2"]

\* Attributes vary two at a time from a plain host; services come with it.
Plain == [ip |-> "ip3", mac |-> StableMac, hostname |-> "pc", vendor |-> None, ttl |-> 64,
          open_ports |-> {<<22, "tcp">>, <<631, "tcp">>}]

Attributes == {"mac", "hostname", "vendor", "ttl", "open_ports"}

Varied == {h \in Changeable : Cardinality({a \in Attributes : h[a] # Plain[a]}) <= 2}

ServiceLists == {<<>>, <<Printer>>, <<Gateway, Agent>>, <<Upgraded, Agent>>}

ChangingScans ==
  [hosts : {<<h>> : h \in Varied}, services : {<<>>}]
  \cup [hosts : {<<Plain>>, <<Neighbour, Plain>>}, services : ServiceLists]
  \cup [hosts : {<<>>, <<Neighbour>>}, services : {<<>>}]

-----------------------------------------------------------------------------

MCHosts    == Wanderers \cup Changeable \cup {Neighbour}
MCServices == {Printer, Gateway, Agent, Upgraded}
MCScans    == WanderingScans \cup ChangingScans

\* A history is of one kind: either hosts wander, from one day to the next, or
\* the one host changes, within a day.
Addresses ==
  {db.snaps[i].fields.ip : i \in DOMAIN db.snaps}
    \cup UNION {{job[s].scan.hosts[i].ip : i \in DOMAIN job[s].scan.hosts} : s \in RunsUnderWay}

OneKind ==
  \/ Addresses \subseteq {ip1, ip2}
  \/ Addresses \cap {ip1, ip2} = {} /\ today = 0

MCSymmetry == Permutations({ip1, ip2}) \cup Permutations({macA, macB})

=============================================================================
