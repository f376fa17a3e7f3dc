------------------------------ MODULE Identity ------------------------------
(***************************************************************************)
(* Heuristics on what a scan saw of a host: MAC randomisation, operating   *)
(* system family, device type (netscanx/inventory/identity.py and          *)
(* netscanx/enrichment/passive.py), and what persist_results extracts from *)
(* the services a scan saw (netscanx/inventory/service.py).                *)
(*                                                                         *)
(* A MAC address is a record whose field first is its first octet.  The    *)
(* substring tests on vendor names and service types are abstracted to     *)
(* membership in the classes of names that pass them.                      *)
(***************************************************************************)
EXTENDS Integers, Sequences, DriftDiff

CONSTANTS
  NasVendors,       \* vendor names containing one of _NAS_VENDOR_HINTS
  ApVendors,        \* vendor names containing one of _AP_VENDOR_HINTS
  PrinterTypes,     \* service types containing "printer" or "_ipp."
  RouterTypes       \* service types containing one of _ROUTER_TYPE_HINTS

PrinterPorts == {9100, 631}
ServerPorts  == {22, 3306, 5432, 5900, 6379, 8080, 8443, 9200, 27017}

\* The locally-administered bit: second bit of the first octet.
IsMacRandomized(mac) == (mac.first \div 2) % 2 = 1

OsBaselines == <<[ttl |-> 64,  family |-> "linux/unix/macos"],
                 [ttl |-> 128, family |-> "windows"],
                 [ttl |-> 255, family |-> "network-gear"]>>

\* The first baseline within twenty hops above the observed TTL.
GuessOsFamily(ttl) ==
  LET Fits(i) == ttl <= OsBaselines[i].ttl /\ OsBaselines[i].ttl - ttl <= 20
      fits    == {i \in DOMAIN OsBaselines : Fits(i)}
  IN  IF ttl = None \/ fits = {} THEN None
      ELSE OsBaselines[CHOOSE i \in fits : \A j \in fits : i <= j].family

ClassifyDeviceType(host, services) ==
  LET ports == {p[1] : p \in host.open_ports}
      types == {s.type : s \in {t \in services : host.ip \in {t.host, t.ip}}}
  IN  CASE ports \cap PrinterPorts # {} \/ types \cap PrinterTypes # {} -> "printer"
        [] OTHER ->
      CASE host.vendor \in NasVendors -> "nas"
        [] OTHER ->
      CASE types \cap RouterTypes # {} -> "router"
        [] OTHER ->
      CASE host.vendor \in ApVendors /\ ports = {} -> "access-point"
        [] OTHER ->
      CASE 3389 \in ports -> "workstation"
        [] OTHER ->
      CASE ports \cap ServerPorts # {} -> "server"
        [] OTHER ->
      IF host.hostname # None \/ ports # {} THEN "workstation" ELSE None

\* The services a scan attributes to an address: by the service's own
\* address when it has one, by its host name otherwise.
ServicesOf(ip, services) ==
  LET Key(s) == IF s.ip # None THEN s.ip ELSE s.host
  IN  SelectSeq(services, LAMBDA s : Key(s) = ip)

\* The first SNMP answer that carries a sysDescr.
SnmpSysdescr(services) ==
  LET answers == {i \in DOMAIN services :
                    services[i].source = "snmp" /\ services[i].sysdescr # None}
  IN  IF answers = {} THEN None
      ELSE services[CHOOSE i \in answers : \A j \in answers : i <= j].sysdescr

\* What one scan run records of a host: the passive enrichment, the sets of
\* ports and services, and the SNMP description.
ObservedFields(host, services) ==
  LET mine == ServicesOf(host.ip, services)
      all  == {mine[i] : i \in DOMAIN mine}
  IN  [ip |-> host.ip, mac |-> host.mac, hostname |-> host.hostname,
       vendor |-> host.vendor, os_guess |-> GuessOsFamily(host.ttl),
       device_type |-> ClassifyDeviceType(host, all),
       open_ports |-> host.open_ports,
       services |-> {<<s.name, s.type>> : s \in all},
       snmp_sysdescr |-> SnmpSysdescr(mine)]

=============================================================================
