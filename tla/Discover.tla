------------------------------- MODULE Discover -------------------------------
(***************************************************************************)
(* A discover scan: run_discover_scan (netscanx/cli/discover.py) and the   *)
(* scanners it runs one after the other (netscanx/scanner/).               *)
(*                                                                         *)
(* A sweep is a batch of probes, asyncio.gather over coroutines that share *)
(* a semaphore.  A probe is answered in time or it is not: timeouts and    *)
(* errors look the same to the scan.  What is found is merged into         *)
(* hosts_by_ip when the whole batch is there.                              *)
(*                                                                         *)
(* A vendor is named after the MAC it was looked up for.  Addresses are    *)
(* those of IPv4: the /32 that the scan makes of a single address is that  *)
(* address only there.                                                     *)
(***************************************************************************)
EXTENDS Integers, FiniteSets

CONSTANTS
  IPs,       \* the addresses of the target network
  Target,    \* the address of a scan of a single host
  Macs,
  Ports,     \* the port list
  Slots,     \* what a semaphore lets through whose size is fixed in the code
  Options,   \* the sets of options a scan is run with
  Nothing    \* no MAC, no vendor

ASSUME TargetAssumption == Target \in IPs
ASSUME PortsAssumption == Ports # {}
ASSUME SlotsAssumption == Slots \in Nat \ {0}
ASSUME NothingAssumption == Nothing \notin Macs
ASSUME OptionsAssumption == Options \subseteq
  [target : {"network", "host", "name"}, root : BOOLEAN, arp : BOOLEAN, ping : BOOLEAN,
   cache : BOOLEAN, ports : BOOLEAN, syn : BOOLEAN, vendor : BOOLEAN, hostname : BOOLEAN,
   slots : Int]

VARIABLES
  opts,      \* the options of this scan, and whether it is run by root
  stage,     \* where run_discover_scan is
  probe,     \* the batch under way: the state of each of its probes
  hosts,     \* hosts_by_ip
  todo,      \* the hosts a loop over them has still to visit
  known,     \* the MACs in the vendor cache
  heard      \* all answers in time: no variable of the program

vars == <<opts, stage, probe, hosts, todo, known, heard>>

NoBatch    == [j \in {} |-> "queued"]
Batch(S)   == [j \in S |-> "queued"]
Running    == {j \in DOMAIN probe : probe[j] = "running"}
Answered   == {j \in DOMAIN probe : probe[j] = "answered"}
Gathered   == \A j \in DOMAIN probe : probe[j] \in {"answered", "failed"}

Found == DOMAIN hosts
Over  == stage \in {"done", "raised"}

\* What the semaphore of a batch lets through: for echo requests and ports it
\* is --concurrency, which may be any integer.
Limit == IF stage \in {"icmp", "tcp"} THEN opts.slots ELSE Slots

\* The addresses a sweep probes: one of a /32.
Swept == IF opts.target = "host" THEN {Target} ELSE IPs

Init ==
  /\ opts \in Options
  /\ stage = "arp"
  /\ probe = NoBatch
  /\ hosts = [ip \in {} |-> Nothing]
  /\ todo = {}
  /\ known = {}
  /\ heard = {}

-----------------------------------------------------------------------------
(* Merging. *)

NewHost(mac, vendor, via) == [mac |-> mac, vendor |-> vendor, via |-> via, open |-> {}, name |-> FALSE]

\* Slip: what is heard last is right.
SlipMerged(old, new) ==
  [old EXCEPT !.mac = IF new.mac # Nothing THEN new.mac ELSE @, !.via = @ \cup new.via]

\* A host found before keeps its MAC and its vendor.
Merged(old, new) ==
  [old EXCEPT !.mac = IF @ = Nothing THEN new.mac ELSE @, !.via = @ \cup new.via]

Merge(news) ==
  hosts' = [ip \in Found \cup DOMAIN news |->
             IF ip \notin Found THEN news[ip]
             ELSE IF ip \in DOMAIN news THEN Merged(hosts[ip], news[ip]) ELSE hosts[ip]]

Answer(ip, via, what) == [ip |-> ip, via |-> via, what |-> what]

-----------------------------------------------------------------------------
(* Batches. *)

Sweeping == stage \in {"ping", "icmp", "tcp", "resolve"}

\* Slip: the semaphore is made for each probe anew.
SlipStarts(j) ==
  /\ Sweeping
  /\ probe[j] = "queued"
  /\ probe' = [probe EXCEPT ![j] = "running"]
  /\ UNCHANGED <<opts, stage, hosts, todo, known, heard>>

StartProbe(j) ==
  /\ Sweeping
  /\ probe[j] = "queued"
  /\ Cardinality(Running) < Limit
  /\ probe' = [probe EXCEPT ![j] = "running"]
  /\ UNCHANGED <<opts, stage, hosts, todo, known, heard>>

\* What an answer to this probe shows.
Shown(j) == IF stage = "tcp" THEN Answer(j[1], "tcp", j[2]) ELSE Answer(j, stage, Nothing)

AnswerProbe(j) ==
  /\ Sweeping
  /\ probe[j] = "running"
  /\ probe' = [probe EXCEPT ![j] = "answered"]
  /\ heard' = heard \cup {Shown(j)}
  /\ UNCHANGED <<opts, stage, hosts, todo, known>>

\* Slip: a probe without an answer is waited for.
SlipWaits(j) == FALSE /\ UNCHANGED vars

\* A timeout, an error or a refusal.
FailProbe(j) ==
  /\ Sweeping
  /\ probe[j] = "running"
  /\ probe' = [probe EXCEPT ![j] = "failed"]
  /\ UNCHANGED <<opts, stage, hosts, todo, known, heard>>

-----------------------------------------------------------------------------
(* ARP, ICMP, and the ARP cache of the operating system.                   *)

\* A single host is not swept with ARP.
SkipArp ==
  /\ stage = "arp"
  /\ ~ opts.arp \/ opts.target = "host"
  /\ stage' = "echo"
  /\ UNCHANGED <<opts, probe, hosts, todo, known, heard>>

\* srp returns: several answers may come from one address, and the first
\* wins.  Vendors are looked up one by one, and not every lookup succeeds.
SweepArp ==
  /\ stage = "arp" /\ opts.arp /\ opts.target # "host" /\ opts.root
  /\ \E ips \in SUBSET IPs :
       \E mac \in [ips -> Macs], looked \in SUBSET (IF opts.vendor THEN ips ELSE {}) :
         /\ Merge([ip \in ips |->
              NewHost(mac[ip], IF ip \in looked THEN mac[ip] ELSE Nothing, {"arp"})])
         /\ known' = known \cup {mac[ip] : ip \in looked}
         /\ heard' = heard \cup {Answer(ip, "arp", mac[ip]) : ip \in ips}
  /\ stage' = "echo"
  /\ UNCHANGED <<opts, probe, todo>>

\* Without privileges, or after an exception, addresses are pinged instead.
FallBack ==
  /\ stage = "arp" /\ opts.arp /\ opts.target = "network"
  /\ stage' = "ping"
  /\ probe' = Batch(IPs)
  /\ UNCHANGED <<opts, hosts, todo, known, heard>>

\* A name is not a network: an exception that is no PermissionError.
RaiseArp ==
  /\ stage = "arp" /\ opts.arp /\ opts.target = "name"
  /\ stage' = "raised"
  /\ UNCHANGED <<opts, probe, hosts, todo, known, heard>>

\* Slip: what a sweep found replaces what was found before.
SlipReplaces(next) ==
  /\ Gathered
  /\ hosts' = [ip \in Answered |-> NewHost(Nothing, Nothing, {stage})]
  /\ probe' = NoBatch
  /\ stage' = next
  /\ UNCHANGED <<opts, todo, known, heard>>

MergeSweep(next) ==
  /\ Gathered
  /\ Merge([ip \in Answered |-> NewHost(Nothing, Nothing, {stage})])
  /\ probe' = NoBatch
  /\ stage' = next
  /\ UNCHANGED <<opts, todo, known, heard>>

EndFallBack == stage = "ping" /\ MergeSweep("echo")

\* The error a name causes here is reported, as is that of a semaphore of
\* negative size, and the scan goes on.
SkipIcmp ==
  /\ stage = "echo"
  /\ ~ opts.ping \/ opts.target = "name" \/ opts.slots < 0
  /\ stage' = "cache"
  /\ UNCHANGED <<opts, probe, hosts, todo, known, heard>>

SweepIcmp ==
  /\ stage = "echo" /\ opts.ping /\ opts.target # "name" /\ opts.slots >= 0
  /\ stage' = "icmp"
  /\ probe' = Batch(Swept)
  /\ UNCHANGED <<opts, hosts, todo, known, heard>>

EndIcmp == stage = "icmp" /\ MergeSweep("cache")

\* get_arp_cache, on any system: complete entries of some addresses, and none
\* when the command for it fails.
CacheContents == UNION {[ips -> Macs] : ips \in SUBSET IPs}

\* Entries of the cache complete what was found, or with --cache add to it.
ReadCache ==
  /\ stage = "cache"
  /\ \E mac \in CacheContents :
       LET used == IF opts.cache THEN DOMAIN mac ELSE DOMAIN mac \cap Found
       IN  /\ Merge([ip \in used |-> NewHost(mac[ip], Nothing, {"arp-cache"})])
           /\ heard' = heard \cup {Answer(ip, "arp-cache", mac[ip]) : ip \in used}
  /\ stage' = "ports"
  /\ UNCHANGED <<opts, probe, todo, known>>

\* On Linux the cache is a file, and what reading it raises ends the scan.
RaiseCache ==
  /\ stage = "cache"
  /\ stage' = "raised"
  /\ UNCHANGED <<opts, probe, hosts, todo, known, heard>>

-----------------------------------------------------------------------------
(* Ports. *)

\* parse_port_spec: a part of the list is no number.
RaisePorts ==
  /\ stage = "ports" /\ opts.ports
  /\ stage' = "raised"
  /\ UNCHANGED <<opts, probe, hosts, todo, known, heard>>

SkipPorts ==
  /\ stage = "ports"
  /\ ~ opts.ports /\ ~ opts.syn
  /\ stage' = "vendor"
  /\ todo' = {ip \in Found : hosts[ip].mac # Nothing /\ hosts[ip].vendor = Nothing}
  /\ UNCHANGED <<opts, probe, hosts, known, heard>>

\* The hosts found, or the single host that was asked for.
ScanPorts ==
  /\ stage = "ports"
  /\ opts.ports \/ opts.syn
  /\ stage' = IF opts.syn /\ opts.root THEN "syn" ELSE "connect"
  /\ todo' = IF Found = {} /\ opts.target = "host" THEN {Target} ELSE Found
  /\ UNCHANGED <<opts, probe, hosts, known, heard>>

\* hosts_by_ip.setdefault(ip, Host(ip)), its ports extended.
WithPorts(ip, open, via) ==
  [i \in Found \cup {ip} |->
    LET h == IF i \in Found THEN hosts[i] ELSE NewHost(Nothing, Nothing, {})
    IN  IF i = ip THEN [h EXCEPT !.open = @ \cup open, !.via = @ \cup via] ELSE h]

\* A SYN or an ACK in the answer counts as open, so that a reset does too.
ScanSyn ==
  /\ stage = "syn"
  /\ \E ip \in todo, open, closed \in SUBSET Ports :
       /\ open \cap closed = {}
       /\ hosts' = WithPorts(ip, open \cup closed, {})
       /\ heard' = heard \cup {Answer(ip, "syn", p) : p \in open}
                         \cup {Answer(ip, "reset", p) : p \in closed}
       /\ todo' = todo \ {ip}
  /\ UNCHANGED <<opts, stage, probe, known>>

SynRaises ==
  /\ stage = "syn"
  /\ \E ip \in todo : todo' = todo \ {ip}
  /\ UNCHANGED <<opts, stage, probe, hosts, known, heard>>

\* One host after the other, its ports at a time.
ConnectPorts ==
  /\ stage = "connect" /\ opts.slots >= 0
  /\ \E ip \in todo : probe' = Batch({ip} \X Ports)
  /\ stage' = "tcp"
  /\ UNCHANGED <<opts, hosts, todo, known, heard>>

\* There is no semaphore of negative size, and nothing handles the error.
RaiseConnect ==
  /\ stage = "connect" /\ opts.slots < 0 /\ todo # {}
  /\ stage' = "raised"
  /\ UNCHANGED <<opts, probe, hosts, todo, known, heard>>

EndConnect ==
  /\ stage = "tcp"
  /\ Gathered
  /\ \E ip \in todo :
       /\ DOMAIN probe = {ip} \X Ports
       /\ hosts' = WithPorts(ip, {j[2] : j \in Answered}, {"tcp"})
       /\ todo' = todo \ {ip}
  /\ probe' = NoBatch
  /\ stage' = "connect"
  /\ UNCHANGED <<opts, known, heard>>

EndPorts ==
  /\ stage \in {"syn", "connect"}
  /\ todo = {}
  /\ stage' = "vendor"
  /\ todo' = {ip \in Found : hosts[ip].mac # Nothing /\ hosts[ip].vendor = Nothing}
  /\ UNCHANGED <<opts, probe, hosts, known, heard>>

-----------------------------------------------------------------------------
(* Vendors and names. *)

\* A vendor in the cache costs no request; a request may fail.
LookUpVendor ==
  /\ stage = "vendor" /\ opts.vendor
  /\ \E ip \in todo :
       /\ \/ /\ hosts' = [hosts EXCEPT ![ip].vendor = hosts[ip].mac]
             /\ known' = known \cup {hosts[ip].mac}
          \/ /\ hosts[ip].mac \notin known
             /\ UNCHANGED <<hosts, known>>
       /\ todo' = todo \ {ip}
  /\ UNCHANGED <<opts, stage, probe, heard>>

ResolveNames ==
  /\ stage = "vendor"
  /\ ~ opts.vendor \/ todo = {}
  /\ todo' = {}
  /\ IF opts.hostname /\ Found # {} THEN stage' = "resolve" /\ probe' = Batch(Found)
     ELSE stage' = "done" /\ UNCHANGED probe
  /\ UNCHANGED <<opts, hosts, known, heard>>

EndResolve ==
  /\ stage = "resolve"
  /\ Gathered
  /\ hosts' = [ip \in Found |-> IF ip \in Answered THEN [hosts[ip] EXCEPT !.name = TRUE] ELSE hosts[ip]]
  /\ probe' = NoBatch
  /\ stage' = "done"
  /\ UNCHANGED <<opts, todo, known, heard>>

-----------------------------------------------------------------------------

Sweep == SkipArp \/ SweepArp \/ FallBack \/ RaiseArp \/ EndFallBack
         \/ SkipIcmp \/ SweepIcmp \/ EndIcmp \/ ReadCache \/ RaiseCache

Detail == SkipPorts \/ ScanPorts \/ RaisePorts \/ ScanSyn \/ SynRaises \/ ConnectPorts
          \/ RaiseConnect \/ EndConnect \/ EndPorts \/ LookUpVendor \/ ResolveNames \/ EndResolve

Next ==
  \/ Sweep
  \/ Detail
  \/ \E j \in DOMAIN probe : StartProbe(j) \/ AnswerProbe(j) \/ FailProbe(j)

Spec == Init /\ [][Next]_vars

\* The event loop runs what can go on, and every probe that has begun has a
\* timeout; that it is answered is up to the network.
FairSpec ==
  /\ Spec
  /\ WF_vars(Sweep \/ Detail)
  /\ WF_vars(\E j \in DOMAIN probe : StartProbe(j))
  /\ WF_vars(\E j \in DOMAIN probe : FailProbe(j))

=============================================================================
