-------------------------- MODULE ServicesProperties --------------------------
(***************************************************************************)
(* What a services scan promises about its result.                         *)
(***************************************************************************)
EXTENDS Services

Sources == {"mdns", "ssdp", "netbios", "snmp"}
Senders == IPs \cup {r.ip : r \in Replies} \cup {Nothing}
Ids     == Names \cup {r.usn : r \in Replies} \cup {Nothing}

States == {"queued", "running", "answered", "failed"}

\* The types of the variables, and the bound a semaphore sets to a batch.
TypeOK ==
  /\ opts \in Options
  /\ stage \in {"multicast", "collect", "netbios", "snmp", "done", "raised"}
  /\ task \in [{"mdns", "ssdp"} -> {"started", "listening", "over", "raised"}]
  /\ seen \subseteq {Key(r) : r \in Replies}
  /\ DOMAIN probe \subseteq IPs /\ \A ip \in DOMAIN probe : probe[ip] \in States
  /\ DOMAIN asked = DOMAIN probe /\ \A ip \in DOMAIN probe : asked[ip] \in 0..Len(Oids)
  /\ DOMAIN results = DOMAIN probe
  /\ \A ip \in DOMAIN probe : DOMAIN results[ip] \subseteq Range(Oids)
  /\ Cardinality(Running) <= Slots
  /\ heard \subseteq [source : Sources, ip : Senders, id : Ids]
  /\ \A list \in {found.mdns, found.ssdp, services} : \A s \in Range(list) :
       Answer(s.source, s.ip, s.id) \in heard

-----------------------------------------------------------------------------
(* Safety. *)

\* A scan that ends reports all it heard, and nothing else, from whichever
\* discovery, and whichever of them failed besides: a task of the gather that
\* raises costs what it found, not what the others did.
HeardIsReported == stage = "done" =>
  heard = {Answer(s.source, s.ip, s.id) : s \in Range(services)}

\* A device that answers the search more than once, or whose datagram is
\* duplicated, is reported once per USN.
OncePerUsn == \A i, j \in DOMAIN services :
  services[i].source = "ssdp" /\ services[j].source = "ssdp"
    /\ services[i].ip = services[j].ip /\ services[i].id = services[j].id => i = j

-----------------------------------------------------------------------------
(* Liveness. *)

\* A scan ends, although nobody need ever answer, and however often others
\* repeat their datagrams until the deadline.
ServicesEnd == <>(stage \in {"done", "raised"})

=============================================================================
