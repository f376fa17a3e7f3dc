-------------------------- MODULE DiscoverProperties --------------------------
(***************************************************************************)
(* What a discover scan promises about its result.                         *)
(***************************************************************************)
EXTENDS Discover

Sources == {"arp", "ping", "icmp", "arp-cache"}
Replies == {"tcp", "syn", "reset"}
Accepts == Replies \ {"reset"}

HostRow == [mac : Macs \cup {Nothing}, vendor : Macs \cup {Nothing},
            via : SUBSET (Sources \cup {"tcp"}), open : SUBSET Ports, name : BOOLEAN]

Stages == {"arp", "ping", "echo", "icmp", "cache", "ports", "syn", "connect", "tcp",
           "vendor", "resolve", "done", "raised"}

\* The types of the variables, and the bound a semaphore sets to a batch: it
\* has a size wherever one is made, whatever --concurrency asks for.
TypeOK ==
  /\ opts \in Options
  /\ stage \in Stages
  /\ DOMAIN probe \subseteq IPs \cup (IPs \X Ports)
  /\ \A j \in DOMAIN probe : probe[j] \in {"queued", "running", "answered", "failed"}
  /\ Limit \in Nat /\ Cardinality(Running) <= Limit
  /\ Found \subseteq IPs
  /\ \A ip \in Found : hosts[ip] \in HostRow
  /\ todo \subseteq IPs
  /\ known \subseteq Macs
  /\ heard \subseteq [ip : IPs, via : Sources \cup Replies \cup {"resolve"},
                      what : Macs \cup Ports \cup {Nothing}]

-----------------------------------------------------------------------------
(* Safety. *)

From(ip, kinds) == {a \in heard : a.ip = ip /\ a.via \in kinds}

\* The ports of a host that took a connection.
Accepted(ip) == {a.what : a \in From(ip, Accepts)}

\* Only root scans ports with SYN segments.
BySyn == opts.syn /\ opts.root

\* The result of a scan that ends is what it heard, in whichever sweep and
\* whatever failed besides: no address that answered is missing, none is there
\* that did not, the sources are those that answered, and every port that
\* accepted is there.  A single host whose ports were asked for is there in any
\* case.  A scan that connects finds no other port; of one that sends SYN
\* segments see OpenMeansSynAck.
ResultIsHeard == stage = "done" =>
  LET answered == {a.ip : a \in {b \in heard : b.via \in Sources \cup Replies}}
      asked == IF opts.target = "host" /\ (opts.ports \/ opts.syn) THEN {Target} ELSE {}
  IN  /\ answered \subseteq Found /\ Found \subseteq answered \cup asked
      /\ \A ip \in Found :
           /\ hosts[ip].via \cap Sources = {a.via : a \in From(ip, Sources)}
           /\ Accepted(ip) \subseteq hosts[ip].open
           /\ ~ BySyn => hosts[ip].open = Accepted(ip)

\* A port that is reported open took a connection, or answered with the
\* SYN-ACK that the comment at scanner/layer4.py:125 says is asked for there.
OpenMeansSynAck == stage = "done" =>
  \A ip \in Found : hosts[ip].open \subseteq Accepted(ip)

\* The MAC of a host is one that an ARP reply carried, if there was any, and
\* else the one in the cache of the operating system.
ArpWins == \A ip \in Found :
  LET arp    == {a.what : a \in From(ip, {"arp"})}
      cached == {a.what : a \in From(ip, {"arp-cache"})}
  IN  hosts[ip].mac \in IF arp # {} THEN arp ELSE IF cached # {} THEN cached ELSE {Nothing}

\* A vendor is the vendor of the MAC it stands beside.
VendorOfMac == \A ip \in Found : hosts[ip].vendor \in {Nothing, hosts[ip].mac}

-----------------------------------------------------------------------------
(* Action properties. *)

\* No step of a scan drops a host, or a MAC, a source or a port of it.
NothingDropped == [][
  \A ip \in Found :
    /\ ip \in DOMAIN hosts'
    /\ hosts[ip].mac # Nothing => hosts'[ip].mac = hosts[ip].mac
    /\ hosts[ip].via \subseteq hosts'[ip].via
    /\ hosts[ip].open \subseteq hosts'[ip].open]_vars

-----------------------------------------------------------------------------
(* Liveness. *)

\* A batch whose semaphore lets nothing through.
Starved == Sweeping /\ Limit = 0 /\ ~ Gathered

\* A scan ends, although no address need ever answer, unless --concurrency is
\* 0 and there is a probe that would need it.
ScanEnds == <>(Over \/ Starved)

=============================================================================
