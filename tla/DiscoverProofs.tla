--------------------------- MODULE DiscoverProofs ---------------------------
(***************************************************************************)
(* What the merges of a discover scan keep, and that its result is what it *)
(* heard, for every network and every order of the answers.                *)
(***************************************************************************)
EXTENDS DiscoverProperties, FiniteSetTheorems, TLAPS

-----------------------------------------------------------------------------
(* Hosts.                                                                  *)

IsHost(h) ==
  h = [mac |-> h.mac, vendor |-> h.vendor, via |-> h.via, open |-> h.open, name |-> h.name]

\* A host whose vendor is that of its MAC.
HostOk(h) == IsHost(h) /\ h.vendor \in {Nothing, h.mac}

HostsOk == \A ip \in Found : HostOk(hosts[ip])

\* What is known of a host is still known.
Kept(old, new) ==
  /\ old.mac # Nothing => new.mac = old.mac
  /\ old.via \subseteq new.via
  /\ old.open \subseteq new.open

\* A step keeps the hosts, and what is known of them.
HostsKept == \A ip \in Found : ip \in Found' /\ Kept(hosts[ip], hosts'[ip])

LEMMA NewHostOk ==
  ASSUME NEW mac, NEW vendor \in {Nothing, mac}, NEW via
  PROVE  HostOk(NewHost(mac, vendor, via)) /\ NewHost(mac, vendor, via).mac = mac
BY DEF HostOk, IsHost, NewHost

LEMMA MergedOk ==
  ASSUME NEW old, NEW new, HostOk(old), HostOk(new)
  PROVE  /\ HostOk(Merged(old, new))
         /\ Kept(old, Merged(old, new))
         /\ Merged(old, new).mac = IF old.mac = Nothing THEN new.mac ELSE old.mac
         /\ Merged(old, new).via = old.via \cup new.via /\ Merged(old, new).open = old.open
<1> DEFINE mac == IF old.mac = Nothing THEN new.mac ELSE old.mac
           via == old.via \cup new.via
           met == [old EXCEPT !.mac = mac]
<1>1. Merged(old, new) = [met EXCEPT !.via = via]
  BY DEF Merged, HostOk, IsHost
<1>2. IsHost(met) /\ met.mac = mac /\ met.vendor = old.vendor /\ met.via = old.via
      /\ met.open = old.open
  BY DEF HostOk, IsHost
<1> HIDE DEF met, via
<1>3. /\ IsHost(Merged(old, new)) /\ Merged(old, new).mac = mac
      /\ Merged(old, new).vendor = old.vendor /\ Merged(old, new).via = via
      /\ Merged(old, new).open = old.open
  BY <1>1, <1>2 DEF IsHost
<1>4. old.vendor \in {Nothing, mac}
  BY DEF HostOk
<1> QED BY <1>3, <1>4 DEF HostOk, Kept, via

\* Merging keeps what was found.
LEMMA MergeOk ==
  ASSUME HostsOk, NEW news, \A ip \in DOMAIN news : HostOk(news[ip]), Merge(news)
  PROVE  /\ Found' = Found \cup DOMAIN news
         /\ HostsOk' /\ HostsKept
         /\ \A ip \in DOMAIN news : hosts'[ip].mac =
              IF ip \in Found /\ hosts[ip].mac # Nothing THEN hosts[ip].mac ELSE news[ip].mac
         /\ \A ip \in Found \ DOMAIN news : hosts'[ip] = hosts[ip]
         /\ \A ip \in DOMAIN news \ Found : hosts'[ip] = news[ip]
         /\ \A ip \in DOMAIN news \cap Found :
              /\ hosts'[ip].via = hosts[ip].via \cup news[ip].via
              /\ hosts'[ip].open = hosts[ip].open
<1>1. Found' = Found \cup DOMAIN news
  BY DEF Merge, Found
<1>2. ASSUME NEW ip \in DOMAIN news \ Found PROVE hosts'[ip] = news[ip]
  BY DEF Merge
<1>3. ASSUME NEW ip \in DOMAIN news \cap Found PROVE hosts'[ip] = Merged(hosts[ip], news[ip])
  BY DEF Merge
<1>4. ASSUME NEW ip \in Found \ DOMAIN news PROVE hosts'[ip] = hosts[ip]
  BY DEF Merge
<1>5. ASSUME NEW ip \in Found' PROVE HostOk(hosts'[ip])
  BY <1>1, <1>2, <1>3, <1>4, MergedOk DEF HostsOk
<1>6. ASSUME NEW ip \in Found PROVE ip \in Found' /\ Kept(hosts[ip], hosts'[ip])
  BY <1>1, <1>3, <1>4, MergedOk DEF HostsOk, Kept
<1>7. ASSUME NEW ip \in DOMAIN news
      PROVE  hosts'[ip].mac =
               IF ip \in Found /\ hosts[ip].mac # Nothing THEN hosts[ip].mac ELSE news[ip].mac
  BY <1>2, <1>3, MergedOk DEF HostsOk
<1>8. ASSUME NEW ip \in DOMAIN news \cap Found
      PROVE  /\ hosts'[ip].via = hosts[ip].via \cup news[ip].via
             /\ hosts'[ip].open = hosts[ip].open
  BY <1>3, MergedOk DEF HostsOk
<1> QED BY <1>1, <1>2, <1>4, <1>5, <1>6, <1>7, <1>8 DEF HostsOk, HostsKept

\* Ports are added to a host, which a scan of a single host may bring with it.
LEMMA WithPortsOk ==
  ASSUME HostsOk, NEW ip, NEW open, NEW via, hosts' = WithPorts(ip, open, via)
  PROVE  /\ Found' = Found \cup {ip}
         /\ HostsOk' /\ HostsKept
         /\ \A i \in Found : hosts'[i].mac = hosts[i].mac
         /\ ip \notin Found => hosts'[ip].mac = Nothing
         /\ \A i \in Found \ {ip} : hosts'[i].via = hosts[i].via /\ hosts'[i].open = hosts[i].open
         /\ hosts'[ip].via = (IF ip \in Found THEN hosts[ip].via ELSE {}) \cup via
         /\ hosts'[ip].open = (IF ip \in Found THEN hosts[ip].open ELSE {}) \cup open
<1> DEFINE old(i) == IF i \in Found THEN hosts[i] ELSE NewHost(Nothing, Nothing, {})
<1>1. Found' = Found \cup {ip}
  BY DEF WithPorts, Found
<1>2. ASSUME NEW i \in Found'
      PROVE  hosts'[i] = IF i = ip THEN [old(i) EXCEPT !.open = @ \cup open, !.via = @ \cup via]
                         ELSE old(i)
  BY <1>1, <1>2 DEF WithPorts
<1>3. ASSUME NEW i \in Found' PROVE HostOk(old(i))
  BY NewHostOk DEF HostsOk
<1> HIDE DEF old
<1>4. ASSUME NEW h, HostOk(h)
      PROVE  LET new == [h EXCEPT !.open = @ \cup open, !.via = @ \cup via]
             IN  /\ HostOk(new) /\ Kept(h, new) /\ new.mac = h.mac
                 /\ new.via = h.via \cup via /\ new.open = h.open \cup open
  <2> DEFINE opened == [h EXCEPT !.open = @ \cup open]
             more   == h.via \cup via
             new    == [opened EXCEPT !.via = more]
  <2>1. [h EXCEPT !.open = @ \cup open, !.via = @ \cup via] = new
    BY <1>4 DEF HostOk, IsHost
  <2>2. IsHost(opened) /\ opened.mac = h.mac /\ opened.vendor = h.vendor
        /\ opened.via = h.via /\ opened.open = h.open \cup open
    BY <1>4 DEF HostOk, IsHost
  <2> HIDE DEF opened, more
  <2>3. IsHost(new) /\ new.mac = h.mac /\ new.vendor = h.vendor
        /\ new.via = more /\ new.open = h.open \cup open
    BY <2>2 DEF IsHost
  <2> HIDE DEF new
  <2> QED BY <1>4, <2>1, <2>3 DEF HostOk, Kept, more
<1>5. ASSUME NEW i \in Found'
      PROVE  HostOk(hosts'[i]) /\ Kept(old(i), hosts'[i]) /\ hosts'[i].mac = old(i).mac
  <2>1. CASE i = ip
    <3>1. hosts'[i] = [old(i) EXCEPT !.open = @ \cup open, !.via = @ \cup via]
      BY <1>2, <1>5, <2>1
    <3> QED BY <1>3, <1>4, <1>5, <3>1
  <2>2. CASE i # ip
    BY <1>2, <1>3, <1>5, <2>2 DEF Kept
  <2> QED BY <2>1, <2>2
<1>6. (\A i \in Found : old(i) = hosts[i])
      /\ (ip \notin Found => old(ip).mac = Nothing /\ old(ip).via = {} /\ old(ip).open = {})
  BY DEF old, NewHost
<1>7. \A i \in Found' \ {ip} : hosts'[i] = old(i)
  BY <1>2
<1>8. hosts'[ip].via = old(ip).via \cup via /\ hosts'[ip].open = old(ip).open \cup open
  BY <1>1, <1>2, <1>3, <1>4
<1>9. HostsOk' /\ HostsKept
  BY <1>1, <1>5, <1>6 DEF HostsOk, HostsKept
<1> QED BY <1>1, <1>5, <1>6, <1>7, <1>8, <1>9

-----------------------------------------------------------------------------
(* Every step keeps the hosts.                                             *)

LEMMA SameHosts ==
  ASSUME HostsOk, UNCHANGED hosts
  PROVE  HostsOk' /\ HostsKept /\ Found' = Found
BY DEF HostsOk, HostsKept, Kept, Found

LEMMA MergeSweepOk ==
  ASSUME HostsOk, NEW next, MergeSweep(next)
  PROVE  /\ HostsOk' /\ HostsKept /\ Found \subseteq Found'
         /\ \A ip \in Found : hosts'[ip].mac = hosts[ip].mac
         /\ \A ip \in Found' \ Found : hosts'[ip].mac = Nothing
<1> DEFINE news == [ip \in Answered |-> NewHost(Nothing, Nothing, {stage})]
<1>1. DOMAIN news = Answered /\ Merge(news)
  BY DEF MergeSweep
<1>2. \A ip \in DOMAIN news : HostOk(news[ip]) /\ news[ip].mac = Nothing
  BY NewHostOk
<1> HIDE DEF news
<1> QED BY <1>1, <1>2, MergeOk

LEMMA SweepArpOk ==
  ASSUME HostsOk, Found = {}, SweepArp
  PROVE  /\ HostsOk' /\ HostsKept
         /\ \E mac \in [Found' -> Macs] :
              /\ \A ip \in Found' : hosts'[ip].mac = mac[ip]
              /\ heard' = heard \cup {Answer(ip, "arp", mac[ip]) : ip \in Found'}
<1>1. PICK ips \in SUBSET IPs :
        \E mac \in [ips -> Macs], looked \in SUBSET (IF opts.vendor THEN ips ELSE {}) :
          /\ Merge([ip \in ips |->
               NewHost(mac[ip], IF ip \in looked THEN mac[ip] ELSE Nothing, {"arp"})])
          /\ heard' = heard \cup {Answer(ip, "arp", mac[ip]) : ip \in ips}
  BY Zenon DEF SweepArp
<1>0. PICK mac \in [ips -> Macs], looked \in SUBSET (IF opts.vendor THEN ips ELSE {}) :
        /\ Merge([ip \in ips |->
             NewHost(mac[ip], IF ip \in looked THEN mac[ip] ELSE Nothing, {"arp"})])
        /\ heard' = heard \cup {Answer(ip, "arp", mac[ip]) : ip \in ips}
  BY <1>1
<1> DEFINE news == [ip \in ips |->
             NewHost(mac[ip], IF ip \in looked THEN mac[ip] ELSE Nothing, {"arp"})]
<1>2. DOMAIN news = ips /\ Merge(news)
  BY <1>0
<1>3. \A ip \in ips : HostOk(news[ip]) /\ news[ip].mac = mac[ip]
  <2> TAKE ip \in ips
  <2> DEFINE vendor == IF ip \in looked THEN mac[ip] ELSE Nothing
  <2>1. news[ip] = NewHost(mac[ip], vendor, {"arp"}) /\ vendor \in {Nothing, mac[ip]}
    OBVIOUS
  <2> HIDE DEF news, vendor
  <2> QED BY <2>1, NewHostOk
<1> HIDE DEF news
<1>4. /\ Found' = ips /\ HostsOk' /\ HostsKept
      /\ \A ip \in ips : hosts'[ip].mac = mac[ip]
  BY <1>2, <1>3, MergeOk
<1> QED BY <1>0, <1>4

LEMMA ReadCacheOk ==
  ASSUME HostsOk, ReadCache
  PROVE  /\ HostsOk' /\ HostsKept
         /\ \E used \in SUBSET IPs : \E mac \in [used -> Macs] :
              /\ Found' = Found \cup used
              /\ heard' = heard \cup {Answer(ip, "arp-cache", mac[ip]) : ip \in used}
              /\ \A ip \in used : hosts'[ip].mac =
                   IF ip \in Found /\ hosts[ip].mac # Nothing THEN hosts[ip].mac ELSE mac[ip]
              /\ \A ip \in Found \ used : hosts'[ip].mac = hosts[ip].mac
<1>1. PICK ips, mac, used :
        /\ ips \in SUBSET IPs /\ mac \in [ips -> Macs] /\ used \in SUBSET ips
        /\ Merge([ip \in used |-> NewHost(mac[ip], Nothing, {"arp-cache"})])
        /\ heard' = heard \cup {Answer(ip, "arp-cache", mac[ip]) : ip \in used}
  <2>1. PICK mac \in CacheContents :
          LET used == IF opts.cache THEN DOMAIN mac ELSE DOMAIN mac \cap Found
          IN  /\ Merge([ip \in used |-> NewHost(mac[ip], Nothing, {"arp-cache"})])
              /\ heard' = heard \cup {Answer(ip, "arp-cache", mac[ip]) : ip \in used}
    BY DEF ReadCache
  <2>2. PICK ips : ips \in SUBSET IPs /\ mac \in [ips -> Macs]
    BY DEF CacheContents
  <2> DEFINE entries == IF opts.cache THEN DOMAIN mac ELSE DOMAIN mac \cap Found
  <2>3. entries \in SUBSET ips
    BY <2>2
  <2>4. /\ Merge([ip \in entries |-> NewHost(mac[ip], Nothing, {"arp-cache"})])
        /\ heard' = heard \cup {Answer(ip, "arp-cache", mac[ip]) : ip \in entries}
    BY <2>1
  <2> HIDE DEF entries
  <2> QED BY <2>2, <2>3, <2>4
<1> DEFINE news == [ip \in used |-> NewHost(mac[ip], Nothing, {"arp-cache"})]
           seen == [ip \in used |-> mac[ip]]
<1>2. DOMAIN news = used /\ Merge(news)
  BY <1>1
<1>3. \A ip \in used : HostOk(news[ip]) /\ news[ip].mac = mac[ip]
  BY NewHostOk
<1>4. seen \in [used -> Macs] /\ \A ip \in used : seen[ip] = mac[ip]
  BY <1>1
<1> HIDE DEF news, seen
<1>5. /\ Found' = Found \cup used /\ HostsOk' /\ HostsKept
      /\ \A ip \in used : hosts'[ip].mac =
           IF ip \in Found /\ hosts[ip].mac # Nothing THEN hosts[ip].mac ELSE mac[ip]
      /\ \A ip \in Found \ used : hosts'[ip].mac = hosts[ip].mac
  BY <1>2, <1>3, MergeOk
<1>6. heard' = heard \cup {Answer(ip, "arp-cache", seen[ip]) : ip \in used}
  BY <1>1, <1>4
<1>7. \A ip \in used : hosts'[ip].mac =
        IF ip \in Found /\ hosts[ip].mac # Nothing THEN hosts[ip].mac ELSE seen[ip]
  BY <1>4, <1>5
<1>8. used \in SUBSET IPs
  BY <1>1
<1> QED BY <1>4, <1>5, <1>6, <1>7, <1>8

\* The steps that learn of no MAC.
Macless ==
  /\ HostsOk' /\ HostsKept /\ Found \subseteq Found'
  /\ \A ip \in Found : hosts'[ip].mac = hosts[ip].mac
  /\ \A ip \in Found' \ Found : hosts'[ip].mac = Nothing

LEMMA SameHostsMacless == ASSUME HostsOk, UNCHANGED hosts PROVE Macless
BY SameHosts DEF Macless

LEMMA PortsMacless ==
  ASSUME HostsOk, ScanSyn \/ EndConnect
  PROVE  Macless
<1>1. PICK ip, open, via : hosts' = WithPorts(ip, open, via)
  BY DEF ScanSyn, EndConnect
<1> QED BY <1>1, WithPortsOk DEF Macless

LEMMA VendorMacless ==
  ASSUME HostsOk, LookUpVendor
  PROVE  Macless
<1>1. PICK ip : UNCHANGED hosts \/ hosts' = [hosts EXCEPT ![ip].vendor = hosts[ip].mac]
  BY DEF LookUpVendor
<1>2. CASE UNCHANGED hosts
  BY <1>2, SameHostsMacless
<1>3. CASE hosts' = [hosts EXCEPT ![ip].vendor = hosts[ip].mac]
  <2>1. Found' = Found
    BY <1>3 DEF Found
  <2>2. ASSUME NEW i \in Found, i # ip PROVE hosts'[i] = hosts[i]
    BY <1>3, <2>2 DEF Found
  <2>3. ASSUME ip \in Found
        PROVE  HostOk(hosts'[ip]) /\ Kept(hosts[ip], hosts'[ip]) /\ hosts'[ip].mac = hosts[ip].mac
    <3> DEFINE mac == hosts[ip].mac
    <3>1. hosts'[ip] = [hosts[ip] EXCEPT !.vendor = mac]
      BY <1>3, <2>3 DEF Found
    <3> HIDE DEF mac
    <3>2. /\ IsHost(hosts'[ip]) /\ hosts'[ip].mac = hosts[ip].mac /\ hosts'[ip].vendor = mac
          /\ hosts'[ip].via = hosts[ip].via /\ hosts'[ip].open = hosts[ip].open
      BY <2>3, <3>1 DEF HostsOk, HostOk, IsHost
    <3> QED BY <3>2 DEF HostOk, Kept, mac
  <2> QED BY <2>1, <2>2, <2>3 DEF Macless, HostsOk, HostsKept, Kept
<1> QED BY <1>1, <1>2, <1>3

LEMMA NamesMacless ==
  ASSUME HostsOk, EndResolve
  PROVE  Macless
<1>1. Found' = Found
  BY DEF EndResolve, Found
<1>2. ASSUME NEW ip \in Found
      PROVE  HostOk(hosts'[ip]) /\ Kept(hosts[ip], hosts'[ip]) /\ hosts'[ip].mac = hosts[ip].mac
  <2>1. hosts'[ip] = hosts[ip] \/ hosts'[ip] = [hosts[ip] EXCEPT !.name = TRUE]
    BY DEF EndResolve, Found
  <2>2. /\ IsHost(hosts'[ip]) /\ hosts'[ip].mac = hosts[ip].mac
        /\ hosts'[ip].vendor = hosts[ip].vendor
        /\ hosts'[ip].via = hosts[ip].via /\ hosts'[ip].open = hosts[ip].open
    BY <2>1 DEF HostsOk, HostOk, IsHost
  <2> QED BY <2>2 DEF HostsOk, HostOk, Kept
<1> QED BY <1>1, <1>2 DEF Macless, HostsOk, HostsKept

Early == {"arp", "ping", "echo", "icmp", "cache"}

\* What such a step adds to the answers, and where it leads.
NoMacHeard ==
  /\ \A a : a.via \in {"arp", "arp-cache"} => (a \in heard' <=> a \in heard)
  /\ stage' \in Early => stage \in Early
  /\ stage' = "arp" => stage = "arp" /\ UNCHANGED <<hosts, heard>>

LEMMA SweepsMacless ==
  ASSUME HostsOk, SkipArp \/ FallBack \/ RaiseArp \/ RaiseCache \/ EndFallBack \/ SkipIcmp
                  \/ SweepIcmp \/ EndIcmp
  PROVE  Macless /\ NoMacHeard
<1>1. CASE SkipArp \/ FallBack \/ RaiseArp \/ RaiseCache \/ SkipIcmp \/ SweepIcmp
  <2>1. UNCHANGED <<hosts, heard>> /\ stage \in Early /\ stage' # "arp"
    BY <1>1 DEF SkipArp, FallBack, RaiseArp, RaiseCache, SkipIcmp, SweepIcmp, Early
  <2> QED BY <2>1, SameHostsMacless DEF NoMacHeard
<1>2. CASE EndFallBack \/ EndIcmp
  <2>1. PICK next : MergeSweep(next) /\ next # "arp"
    BY <1>2 DEF EndFallBack, EndIcmp
  <2>2. heard' = heard /\ stage' # "arp" /\ stage \in Early
    BY <1>2, <2>1 DEF MergeSweep, EndFallBack, EndIcmp, Early
  <2> QED BY <2>1, <2>2, MergeSweepOk DEF Macless, NoMacHeard
<1> QED BY <1>1, <1>2

LEMMA DetailMacless ==
  ASSUME HostsOk, Detail
  PROVE  Macless /\ NoMacHeard
<1>1. CASE SkipPorts \/ ScanPorts \/ RaisePorts \/ RaiseConnect \/ SynRaises \/ ConnectPorts
           \/ EndPorts \/ ResolveNames
  <2>1. UNCHANGED <<hosts, heard>> /\ stage' \notin Early
    BY <1>1 DEF SkipPorts, ScanPorts, RaisePorts, RaiseConnect, SynRaises, ConnectPorts,
                EndPorts, ResolveNames, Early
  <2> QED BY <2>1, SameHostsMacless DEF NoMacHeard, Early
<1>2. CASE LookUpVendor \/ EndConnect \/ EndResolve
  <2>1. heard' = heard /\ stage' \notin Early
    BY <1>2 DEF LookUpVendor, EndConnect, EndResolve, Early
  <2> QED BY <1>2, <2>1, VendorMacless, PortsMacless, NamesMacless DEF NoMacHeard, Early
<1>3. CASE ScanSyn
  <2>1. PICK ip, open, closed :
          heard' = heard \cup {Answer(ip, "syn", p) : p \in open}
                         \cup {Answer(ip, "reset", p) : p \in closed}
    BY <1>3 DEF ScanSyn
  <2>2. stage' \notin Early
    BY <1>3 DEF ScanSyn, Early
  <2>3. \A a : a.via \in {"arp", "arp-cache"} => (a \in heard' <=> a \in heard)
    BY <2>1 DEF Answer
  <2> QED BY <1>3, <2>2, <2>3, PortsMacless DEF NoMacHeard, Early
<1> QED BY <1>1, <1>2, <1>3 DEF Detail

LEMMA ProbesMacless ==
  ASSUME HostsOk, NEW j, StartProbe(j) \/ AnswerProbe(j) \/ FailProbe(j)
  PROVE  Macless /\ NoMacHeard
<1>1. UNCHANGED <<hosts, stage>> /\ stage # "arp"
  BY DEF StartProbe, AnswerProbe, FailProbe, Sweeping
<1>2. heard' = heard \/ heard' = heard \cup {Shown(j)}
  BY DEF StartProbe, AnswerProbe, FailProbe
<1>3. Shown(j).via \notin {"arp", "arp-cache"}
  BY DEF StartProbe, AnswerProbe, FailProbe, Sweeping, Shown, Answer
<1> QED BY <1>1, <1>2, <1>3, SameHostsMacless DEF NoMacHeard

-----------------------------------------------------------------------------
(* The MAC of a host, and where it was heard.  That an ARP reply wins over *)
(* the cache depends on the order of the stages: the replies come before   *)
(* any host is found, and the cache is read after all sweeps.              *)

MacsHeard ==
  /\ stage = "arp" => Found = {} /\ heard = {}
  /\ \A a \in heard : a.via \in {"arp", "arp-cache"} => a.ip \in Found /\ a.what \in Macs
  /\ stage \in Early => \A a \in heard : a.via # "arp-cache"

ScanInv == HostsOk /\ MacsHeard /\ ArpWins

Arp(ip)   == {a.what : a \in From(ip, {"arp"})}
Cache(ip) == {a.what : a \in From(ip, {"arp-cache"})}

MacOk(ip) == hosts[ip].mac \in
  IF Arp(ip) # {} THEN Arp(ip) ELSE IF Cache(ip) # {} THEN Cache(ip) ELSE {Nothing}

LEMMA ArpWinsIs == ArpWins <=> \A ip \in Found : MacOk(ip)
BY DEF ArpWins, MacOk, Arp, Cache

LEMMA MaclessInv ==
  ASSUME ScanInv, Macless, NoMacHeard
  PROVE  ScanInv'
<1>1. MacsHeard'
  BY DEF ScanInv, MacsHeard, Macless, NoMacHeard, Found
<1>2. ASSUME NEW ip PROVE Arp(ip)' = Arp(ip) /\ Cache(ip)' = Cache(ip)
  <2>1. \A a : a \in From(ip, {"arp"})' <=> a \in From(ip, {"arp"})
    BY DEF NoMacHeard, From
  <2>2. \A a : a \in From(ip, {"arp-cache"})' <=> a \in From(ip, {"arp-cache"})
    BY DEF NoMacHeard, From
  <2> QED BY <2>1, <2>2 DEF Arp, Cache
<1>3. ASSUME NEW ip \in Found PROVE MacOk(ip)'
  BY <1>2, <1>3, ArpWinsIs DEF ScanInv, Macless, MacOk
<1>4. ASSUME NEW ip \in Found' \ Found PROVE MacOk(ip)'
  <2>1. Arp(ip) = {} /\ Cache(ip) = {}
    BY <1>4 DEF ScanInv, MacsHeard, Arp, Cache, From
  <2> QED BY <1>2, <1>4, <2>1 DEF Macless, MacOk
<1>5. ArpWins'
  BY <1>3, <1>4 DEF ArpWins, MacOk, Arp, Cache
<1> QED BY <1>1, <1>5 DEF ScanInv, Macless

LEMMA SweepArpInv ==
  ASSUME ScanInv, SweepArp
  PROVE  ScanInv' /\ HostsKept
<1>1. Found = {} /\ heard = {} /\ stage = "arp" /\ stage' = "echo"
  BY DEF SweepArp, ScanInv, MacsHeard
<1>2. PICK mac \in [Found' -> Macs] :
        /\ \A ip \in Found' : hosts'[ip].mac = mac[ip]
        /\ heard' = heard \cup {Answer(ip, "arp", mac[ip]) : ip \in Found'}
  BY <1>1, SweepArpOk DEF ScanInv
<1>3. heard' = {Answer(ip, "arp", mac[ip]) : ip \in Found'}
  BY <1>1, <1>2
<1>4. MacsHeard'
  BY <1>1, <1>3 DEF MacsHeard, Answer, Early
<1>5. ASSUME NEW ip \in Found' PROVE MacOk(ip)'
  <2>1. Answer(ip, "arp", mac[ip]) \in From(ip, {"arp"})'
    BY <1>3 DEF From, Answer
  <2>2. mac[ip] \in Arp(ip)'
    BY <2>1 DEF Arp, Answer
  <2> QED BY <1>2, <2>2 DEF MacOk
<1>6. ArpWins'
  BY <1>5 DEF ArpWins, MacOk, Arp, Cache
<1> QED BY <1>1, <1>4, <1>6, SweepArpOk DEF ScanInv

LEMMA ReadCacheInv ==
  ASSUME ScanInv, ReadCache, Nothing \notin Macs
  PROVE  ScanInv' /\ HostsKept
<1>1. stage = "cache" /\ stage' = "ports"
  BY DEF ReadCache
<1>2. PICK used \in SUBSET IPs : \E mac \in [used -> Macs] :
        /\ Found' = Found \cup used
        /\ heard' = heard \cup {Answer(ip, "arp-cache", mac[ip]) : ip \in used}
        /\ \A ip \in used : hosts'[ip].mac =
             IF ip \in Found /\ hosts[ip].mac # Nothing THEN hosts[ip].mac ELSE mac[ip]
        /\ \A ip \in Found \ used : hosts'[ip].mac = hosts[ip].mac
  BY ReadCacheOk DEF ScanInv
<1>3. PICK mac \in [used -> Macs] :
        /\ Found' = Found \cup used
        /\ heard' = heard \cup {Answer(ip, "arp-cache", mac[ip]) : ip \in used}
        /\ \A ip \in used : hosts'[ip].mac =
             IF ip \in Found /\ hosts[ip].mac # Nothing THEN hosts[ip].mac ELSE mac[ip]
        /\ \A ip \in Found \ used : hosts'[ip].mac = hosts[ip].mac
  BY <1>2
<1>4. MacsHeard'
  BY <1>1, <1>3 DEF ScanInv, MacsHeard, Answer, Early
<1>5. ASSUME NEW ip
      PROVE  /\ Arp(ip)' = Arp(ip) /\ Cache(ip) = {}
             /\ Cache(ip)' = IF ip \in used THEN {mac[ip]} ELSE {}
  <2>1. \A a : a \in From(ip, {"arp"})' <=> a \in From(ip, {"arp"})
    BY <1>3 DEF From, Answer
  <2>2. From(ip, {"arp-cache"}) = {}
    BY <1>1 DEF From, ScanInv, MacsHeard, Early
  <2>3. From(ip, {"arp-cache"})' = IF ip \in used THEN {Answer(ip, "arp-cache", mac[ip])} ELSE {}
    BY <1>3, <2>2 DEF From, Answer
  <2>4. Answer(ip, "arp-cache", mac[ip]).what = mac[ip]
    BY DEF Answer
  <2> QED BY <2>1, <2>2, <2>3, <2>4 DEF Arp, Cache
<1>6. ASSUME NEW ip \in Found PROVE MacOk(ip)'
  <2>1. MacOk(ip)
    BY ArpWinsIs DEF ScanInv
  <2>2. Nothing \notin Arp(ip)
    BY DEF Arp, From, ScanInv, MacsHeard
  <2>3. CASE ip \in used
    BY <1>3, <1>5, <2>1, <2>2, <2>3 DEF MacOk
  <2>4. CASE ip \notin used
    BY <1>3, <1>5, <2>1, <2>4 DEF MacOk
  <2> QED BY <2>3, <2>4
<1>7. ASSUME NEW ip \in used \ Found PROVE MacOk(ip)'
  <2>1. Arp(ip) = {}
    BY <1>7 DEF Arp, From, ScanInv, MacsHeard
  <2> QED BY <1>3, <1>5, <1>7, <2>1 DEF MacOk
<1>8. ArpWins'
  BY <1>3, <1>6, <1>7 DEF ArpWins, MacOk, Arp, Cache
<1> QED BY <1>4, <1>8, ReadCacheOk DEF ScanInv

-----------------------------------------------------------------------------

LEMMA ScanInit == Init => ScanInv
BY DEF Init, ScanInv, HostsOk, MacsHeard, ArpWins, Found

LEMMA ScanNext ==
  ASSUME ScanInv, [Next]_vars
  PROVE  ScanInv' /\ HostsKept
<1>1. HostsOk
  BY DEF ScanInv
<1>2. ASSUME Macless, NoMacHeard PROVE ScanInv' /\ HostsKept
  BY <1>2, MaclessInv DEF Macless
<1>3. CASE SweepArp
  BY <1>3, SweepArpInv
<1>4. CASE ReadCache
  BY <1>4, ReadCacheInv, NothingAssumption
<1>5. CASE Sweep /\ ~ SweepArp /\ ~ ReadCache
  BY <1>1, <1>2, <1>5, SweepsMacless DEF Sweep
<1>6. CASE Detail
  BY <1>1, <1>2, <1>6, DetailMacless
<1>7. CASE \E j \in DOMAIN probe : StartProbe(j) \/ AnswerProbe(j) \/ FailProbe(j)
  BY <1>1, <1>2, <1>7, ProbesMacless
<1>8. CASE UNCHANGED vars
  BY <1>1, <1>2, <1>8, SameHostsMacless DEF vars, NoMacHeard
<1> QED BY <1>3, <1>4, <1>5, <1>6, <1>7, <1>8 DEF Next

LEMMA ScanInvHolds == Spec => []ScanInv
<1>1. ScanInv /\ [Next]_vars => ScanInv'
  BY ScanNext
<1> QED BY <1>1, ScanInit, PTL DEF Spec

\* The MAC of a host comes from an ARP reply if there was any, and else from
\* the cache of the operating system, however many sweeps found the host.
THEOREM ArpWinsHolds == Spec => []ArpWins
<1>1. ScanInv => ArpWins
  BY DEF ScanInv
<1> QED BY <1>1, ScanInvHolds, PTL

\* No vendor is that of another MAC, although MACs and vendors are merged
\* from sweeps, the cache and requests of their own.
THEOREM VendorHolds == Spec => []VendorOfMac
<1>1. ScanInv => VendorOfMac
  BY DEF ScanInv, HostsOk, HostOk, VendorOfMac
<1> QED BY <1>1, ScanInvHolds, PTL

\* No step drops what an earlier one found.
THEOREM NothingDroppedHolds == Spec => NothingDropped
<1> DEFINE kept == \A ip \in Found :
             /\ ip \in DOMAIN hosts'
             /\ hosts[ip].mac # Nothing => hosts'[ip].mac = hosts[ip].mac
             /\ hosts[ip].via \subseteq hosts'[ip].via
             /\ hosts[ip].open \subseteq hosts'[ip].open
<1>1. ScanInv /\ [Next]_vars => kept
  BY ScanNext DEF HostsKept, Kept, Found
<1>2. Spec => [][kept]_vars
  BY <1>1, ScanInvHolds, PTL DEF Spec
<1> QED BY <1>2 DEF NothingDropped

-----------------------------------------------------------------------------
(* The result is what was heard: at any time, what was heard is in the     *)
(* hosts, or an answer to a probe of the batch under way.                  *)

Tells(ip, via)    == ip \in Found /\ via \in hosts[ip].via
TellsPort(ip, p)  == ip \in Found /\ p \in hosts[ip].open
Held(ip, via)     == stage = via /\ ip \in Answered
HeldPort(ip, p)   == stage = "tcp" /\ <<ip, p>> \in Answered
Reached(ip, via)  == \E a \in heard : a.ip = ip /\ a.via = via
Replied(ip, p)    == \E a \in heard : a.ip = ip /\ a.via \in Replies /\ a.what = p

SourcesHeard == \A ip : \A via \in Sources : Reached(ip, via) <=> Tells(ip, via) \/ Held(ip, via)
PortsHeard   == \A ip, p : Replied(ip, p) <=> TellsPort(ip, p) \/ HeldPort(ip, p)

\* The host that is in the result because its ports were asked for.
Asked == IF opts.target = "host" /\ (opts.ports \/ opts.syn) THEN {Target} ELSE {}

FoundHeard ==
  /\ \A ip \in Found : \/ ip \in Asked
                       \/ \E via \in Sources : Tells(ip, via)
                       \/ \E p : TellsPort(ip, p)
  /\ stage \in {"syn", "connect", "tcp"} => todo \subseteq Found \cup Asked

Batches ==
  /\ ~ Sweeping /\ stage # "tcp" => DOMAIN probe = {}
  /\ stage = "tcp" => \A j \in DOMAIN probe : j = <<j[1], j[2]>>

HeardInv == SourcesHeard /\ PortsHeard /\ FoundHeard /\ Batches

\* The hosts tell of a step no more and no less than before.
SameTold ==
  /\ Found' = Found
  /\ \A ip \in Found : hosts'[ip].via = hosts[ip].via /\ hosts'[ip].open = hosts[ip].open

LEMMA SameToldIs ==
  ASSUME SameTold
  PROVE  /\ \A ip, via : Tells(ip, via)' <=> Tells(ip, via)
         /\ \A ip, p : TellsPort(ip, p)' <=> TellsPort(ip, p)
BY DEF SameTold, Tells, TellsPort

LEMMA SameHeardIs ==
  ASSUME UNCHANGED heard
  PROVE  /\ \A ip, via : Reached(ip, via)' <=> Reached(ip, via)
         /\ \A ip, p : Replied(ip, p)' <=> Replied(ip, p)
BY DEF Reached, Replied

\* No answer of a batch is still to be merged.
NothingHeld == (\A ip : \A via \in Sources : ~ Held(ip, via)) /\ (\A ip, p : ~ HeldPort(ip, p))

LEMMA NoneHeld ==
  ASSUME Answered = {} \/ stage \notin {"arp", "ping", "icmp", "arp-cache", "tcp"}
  PROVE  NothingHeld
BY DEF NothingHeld, Held, HeldPort, Sources

\* A step between two batches, or one that begins a batch.
LEMMA QuietHeard ==
  ASSUME SourcesHeard, PortsHeard, SameTold, UNCHANGED heard, NothingHeld, NothingHeld'
  PROVE  SourcesHeard' /\ PortsHeard'
<1>1. /\ \A ip, via : Reached(ip, via)' <=> Reached(ip, via)
      /\ \A ip, p : Replied(ip, p)' <=> Replied(ip, p)
  BY SameHeardIs
<1>2. /\ \A ip, via : Tells(ip, via)' <=> Tells(ip, via)
      /\ \A ip, p : TellsPort(ip, p)' <=> TellsPort(ip, p)
  BY SameToldIs
<1>3. /\ \A ip : \A via \in Sources : Reached(ip, via) <=> Tells(ip, via)
      /\ \A ip, p : Replied(ip, p) <=> TellsPort(ip, p)
  BY DEF SourcesHeard, PortsHeard, NothingHeld
<1>4. /\ \A ip : \A via \in Sources : ~ Held(ip, via)'
      /\ \A ip, p : ~ HeldPort(ip, p)'
  BY DEF NothingHeld
<1>5. \A ip : \A via \in Sources : Reached(ip, via)' <=> Tells(ip, via)' \/ Held(ip, via)'
  BY <1>1, <1>2, <1>3, <1>4
<1>6. \A ip, p : Replied(ip, p)' <=> TellsPort(ip, p)' \/ HeldPort(ip, p)'
  BY <1>1, <1>2, <1>3, <1>4
<1> QED BY <1>5, <1>6 DEF SourcesHeard, PortsHeard

\* Who is found stays told of, if nothing is forgotten.
LEMMA StillHeard ==
  ASSUME FoundHeard, HostsKept, UNCHANGED opts,
         \A ip \in Found' \ Found : \/ ip \in Asked
                                    \/ \E via \in Sources : Tells(ip, via)'
                                    \/ \E p : TellsPort(ip, p)',
         stage' \in {"syn", "connect", "tcp"} => todo' \subseteq Found \cup Asked
  PROVE  FoundHeard'
<1>1. Found \subseteq Found' /\ Asked' = Asked
  BY DEF HostsKept, Asked
<1>2. /\ \A ip, via : Tells(ip, via) => Tells(ip, via)'
      /\ \A ip, p : TellsPort(ip, p) => TellsPort(ip, p)'
  BY DEF HostsKept, Kept, Tells, TellsPort
<1>3. \A ip \in Found' : \/ ip \in Asked'
                         \/ \E via \in Sources : Tells(ip, via)'
                         \/ \E p : TellsPort(ip, p)'
  BY <1>1, <1>2 DEF FoundHeard
<1> QED BY <1>1, <1>3 DEF FoundHeard

\* The steps of the scan that merge nothing.
LEMMA QuietStages ==
  ASSUME HostsOk, HeardInv,
         \/ SkipArp \/ RaiseArp \/ RaiseCache \/ FallBack \/ SkipIcmp \/ SweepIcmp
         \/ SkipPorts \/ ScanPorts \/ RaisePorts \/ RaiseConnect \/ SynRaises \/ ConnectPorts
         \/ EndPorts \/ ResolveNames
  PROVE  HeardInv'
<1>1. /\ UNCHANGED <<opts, hosts, heard>> /\ DOMAIN probe = {}
      /\ stage \notin {"ping", "icmp", "tcp", "resolve"}
  BY DEF HeardInv, Batches, Sweeping, SkipArp, RaiseArp, RaiseCache, FallBack, SkipIcmp, SweepIcmp,
         SkipPorts, ScanPorts, RaisePorts, RaiseConnect, SynRaises, ConnectPorts, EndPorts,
         ResolveNames
<1>2. \/ DOMAIN probe' = {} /\ stage' \notin {"ping", "icmp", "tcp", "resolve"}
      \/ (\E S : probe' = Batch(S)) /\ stage' \in {"ping", "icmp", "resolve"}
      \/ (\E ip : probe' = Batch({ip} \X Ports)) /\ stage' = "tcp"
  BY <1>1 DEF SkipArp, RaiseArp, RaiseCache, FallBack, SkipIcmp, SweepIcmp,
         SkipPorts, ScanPorts, RaisePorts, RaiseConnect, SynRaises, ConnectPorts, EndPorts,
         ResolveNames
<1>3. Answered = {} /\ Answered' = {}
  BY <1>1, <1>2 DEF Answered, Batch
<1>4. NothingHeld /\ NothingHeld'
  BY <1>3, NoneHeld DEF NothingHeld, Held, HeldPort
<1>5. SameTold /\ HostsKept
  BY <1>1, SameHosts DEF SameTold, Found
<1>6. SourcesHeard' /\ PortsHeard'
  BY <1>1, <1>4, <1>5, QuietHeard DEF HeardInv
<1>7. stage' \in {"syn", "connect", "tcp"} => todo' \subseteq Found \cup Asked
  BY DEF HeardInv, FoundHeard, Asked, SkipArp, RaiseArp, RaiseCache, FallBack, SkipIcmp, SweepIcmp,
         SkipPorts, ScanPorts, RaisePorts, RaiseConnect, SynRaises, ConnectPorts, EndPorts,
         ResolveNames
<1>8. FoundHeard'
  <2>1. Found' \ Found = {}
    BY <1>5 DEF SameTold
  <2>2. FoundHeard /\ UNCHANGED opts
    BY <1>1 DEF HeardInv
  <2> QED BY <1>5, <1>7, <2>1, <2>2, StillHeard
<1>9. Batches'
  <2>1. CASE stage' = "tcp"
    <3>1. PICK ip : DOMAIN probe' = {ip} \X Ports
      BY <1>2, <2>1 DEF Batch
    <3>2. \A j \in {ip} \X Ports : j = <<j[1], j[2]>>
      OBVIOUS
    <3> QED BY <2>1, <3>1, <3>2 DEF Batches
  <2>2. CASE stage' # "tcp"
    BY <1>2, <2>2 DEF Batches, Sweeping
  <2> QED BY <2>1, <2>2
<1> QED BY <1>6, <1>8, <1>9 DEF HeardInv

\* The steps that change a vendor or a name.
LEMMA NamingStages ==
  ASSUME HostsOk, HeardInv, LookUpVendor \/ EndResolve
  PROVE  HeardInv'
<1>1. /\ UNCHANGED <<opts, heard>> /\ stage \in {"vendor", "resolve"}
      /\ stage' \in {"vendor", "done"} /\ DOMAIN probe' = {}
  BY DEF HeardInv, Batches, Sweeping, LookUpVendor, EndResolve, NoBatch
<1>2. HostsKept
  BY VendorMacless, NamesMacless DEF Macless
<1>3. SameTold
  <2>1. Found' = Found
    BY DEF LookUpVendor, EndResolve, Found
  <2>2. ASSUME NEW ip \in Found
        PROVE  \/ hosts'[ip] = hosts[ip]
               \/ \E v : hosts'[ip] = [hosts[ip] EXCEPT !.vendor = v]
               \/ hosts'[ip] = [hosts[ip] EXCEPT !.name = TRUE]
    BY DEF LookUpVendor, EndResolve, Found
  <2>3. ASSUME NEW ip \in Found
        PROVE  hosts'[ip].via = hosts[ip].via /\ hosts'[ip].open = hosts[ip].open
    BY <2>2, <2>3 DEF HostsOk, HostOk, IsHost
  <2> QED BY <2>1, <2>3 DEF SameTold
<1>4. NothingHeld /\ NothingHeld'
  BY <1>1 DEF NothingHeld, Held, HeldPort, Sources
<1>5. SourcesHeard' /\ PortsHeard'
  BY <1>1, <1>3, <1>4, QuietHeard DEF HeardInv
<1>6. FoundHeard'
  BY <1>1, <1>2, <1>3, StillHeard DEF HeardInv, SameTold
<1>7. Batches'
  BY <1>1 DEF Batches, Sweeping
<1> QED BY <1>5, <1>6, <1>7 DEF HeardInv

\* A probe begins, or fails, or is answered: the answer is held from then on.
LEMMA ProbesHeard ==
  ASSUME HostsOk, HeardInv, NEW j \in DOMAIN probe, StartProbe(j) \/ AnswerProbe(j) \/ FailProbe(j)
  PROVE  HeardInv'
<1>1. /\ UNCHANGED <<opts, stage, hosts, todo>> /\ Sweeping
      /\ DOMAIN probe' = DOMAIN probe
  BY DEF StartProbe, AnswerProbe, FailProbe
<1>2. SameTold /\ HostsKept
  BY <1>1, SameHosts DEF SameTold, Found
<1>3. FoundHeard'
  <2>1. Found' \ Found = {}
    BY <1>2 DEF SameTold
  <2>2. FoundHeard /\ UNCHANGED opts
    BY <1>1 DEF HeardInv
  <2>3. stage' \in {"syn", "connect", "tcp"} => todo' \subseteq Found \cup Asked
    BY <1>1 DEF HeardInv, FoundHeard
  <2> QED BY <1>2, <2>1, <2>2, <2>3, StillHeard
<1>4. Batches'
  BY <1>1 DEF HeardInv, Batches, Sweeping
<1>5. /\ \A ip, via : Tells(ip, via)' <=> Tells(ip, via)
      /\ \A ip, p : TellsPort(ip, p)' <=> TellsPort(ip, p)
  BY <1>2, SameToldIs
<1>6. CASE StartProbe(j) \/ FailProbe(j)
  <2>1. Answered' = Answered /\ UNCHANGED heard
    BY <1>6 DEF StartProbe, FailProbe, Answered
  <2>2. /\ \A ip, via : (Held(ip, via)' <=> Held(ip, via)) /\ (Reached(ip, via)' <=> Reached(ip, via))
        /\ \A ip, p : (HeldPort(ip, p)' <=> HeldPort(ip, p)) /\ (Replied(ip, p)' <=> Replied(ip, p))
    BY <1>1, <2>1 DEF Held, HeldPort, Reached, Replied
  <2>3. SourcesHeard' /\ PortsHeard'
    BY <1>5, <2>2 DEF HeardInv, SourcesHeard, PortsHeard
  <2> QED BY <1>3, <1>4, <2>3 DEF HeardInv
<1>7. CASE AnswerProbe(j)
  <2>1. Answered' = Answered \cup {j} /\ heard' = heard \cup {Shown(j)}
    BY <1>7 DEF AnswerProbe, Answered
  <2>2. Shown(j) = IF stage = "tcp" THEN Answer(j[1], "tcp", j[2]) ELSE Answer(j, stage, Nothing)
    BY DEF Shown
  <2>3. ASSUME NEW ip, NEW via \in Sources
        PROVE  /\ Held(ip, via)' <=> Held(ip, via) \/ (stage = via /\ ip = j)
               /\ Reached(ip, via)' <=> Reached(ip, via) \/ (stage = via /\ ip = j)
    <3>1. Held(ip, via)' <=> Held(ip, via) \/ (stage = via /\ ip = j)
      BY <1>1, <2>1 DEF Held
    <3>2. Reached(ip, via)' <=> Reached(ip, via) \/ (Shown(j).ip = ip /\ Shown(j).via = via)
      BY <2>1 DEF Reached
    <3>3. (Shown(j).ip = ip /\ Shown(j).via = via) <=> (stage = via /\ ip = j)
      BY <2>2 DEF Answer, Sources
    <3> QED BY <3>1, <3>2, <3>3
  <2>4. ASSUME NEW ip, NEW p
        PROVE  /\ HeldPort(ip, p)' <=> HeldPort(ip, p) \/ (stage = "tcp" /\ <<ip, p>> = j)
               /\ Replied(ip, p)' <=> Replied(ip, p) \/ (stage = "tcp" /\ <<ip, p>> = j)
    <3>1. HeldPort(ip, p)' <=> HeldPort(ip, p) \/ (stage = "tcp" /\ <<ip, p>> = j)
      BY <1>1, <2>1 DEF HeldPort
    <3>2. Replied(ip, p)' <=> \/ Replied(ip, p)
                              \/ Shown(j).ip = ip /\ Shown(j).via \in Replies /\ Shown(j).what = p
      BY <2>1 DEF Replied
    <3>3. CASE stage = "tcp"
      <4>1. j = <<j[1], j[2]>>
        BY <3>3 DEF HeardInv, Batches
      <4>2. Shown(j).ip = j[1] /\ Shown(j).via \in Replies /\ Shown(j).what = j[2]
        BY <2>2, <3>3 DEF Answer, Replies
      <4>3. (j[1] = ip /\ j[2] = p) <=> <<ip, p>> = j
        BY <4>1
      <4> QED BY <3>1, <3>2, <3>3, <4>2, <4>3
    <3>4. CASE stage # "tcp"
      <4>1. Shown(j).via \notin Replies
        BY <1>1, <2>2, <3>4 DEF Answer, Replies, Sweeping
      <4> QED BY <3>1, <3>2, <3>4, <4>1
    <3> QED BY <3>3, <3>4
  <2>5. SourcesHeard'
    BY <1>5, <2>3 DEF HeardInv, SourcesHeard
  <2>6. PortsHeard'
    BY <1>5, <2>4 DEF HeardInv, PortsHeard
  <2> QED BY <1>3, <1>4, <2>5, <2>6 DEF HeardInv
<1> QED BY <1>6, <1>7

\* A merge tells of the sources it is from, and of no port.
LEMMA MergeTells ==
  ASSUME HostsOk, NEW news, NEW via, \A ip \in DOMAIN news : HostOk(news[ip]), Merge(news),
         \A ip \in DOMAIN news : news[ip].via = {via} /\ news[ip].open = {}
  PROVE  /\ \A ip, v : Tells(ip, v)' <=> Tells(ip, v) \/ (ip \in DOMAIN news /\ v = via)
         /\ \A ip, p : TellsPort(ip, p)' <=> TellsPort(ip, p)
<1>1. /\ Found' = Found \cup DOMAIN news
      /\ \A ip \in Found \ DOMAIN news : hosts'[ip] = hosts[ip]
      /\ \A ip \in DOMAIN news \ Found : hosts'[ip].via = {via} /\ hosts'[ip].open = {}
      /\ \A ip \in DOMAIN news \cap Found :
           /\ hosts'[ip].via = hosts[ip].via \cup {via}
           /\ hosts'[ip].open = hosts[ip].open
  BY MergeOk
<1>2. ASSUME NEW ip \in Found \ DOMAIN news
      PROVE  /\ \A v : Tells(ip, v)' <=> Tells(ip, v)
             /\ \A p : TellsPort(ip, p)' <=> TellsPort(ip, p)
  BY <1>1, <1>2 DEF Tells, TellsPort
<1>3. ASSUME NEW ip \in DOMAIN news \ Found
      PROVE  /\ \A v : Tells(ip, v)' <=> v = via
             /\ \A p : ~ TellsPort(ip, p)'
  BY <1>1, <1>3 DEF Tells, TellsPort
<1>4. ASSUME NEW ip \in DOMAIN news \cap Found
      PROVE  /\ \A v : Tells(ip, v)' <=> Tells(ip, v) \/ v = via
             /\ \A p : TellsPort(ip, p)' <=> TellsPort(ip, p)
  BY <1>1, <1>4 DEF Tells, TellsPort
<1>5. ASSUME NEW ip, ip \notin Found \cup DOMAIN news
      PROVE  /\ \A v : ~ Tells(ip, v)' /\ \A p : ~ TellsPort(ip, p)'
  BY <1>1, <1>5 DEF Tells, TellsPort
<1> QED BY <1>2, <1>3, <1>4, <1>5 DEF Tells, TellsPort

\* After a merge nothing is held, if the batch is over with it.
LEMMA MergeHeard ==
  ASSUME HostsOk, HeardInv, UNCHANGED opts, NothingHeld', Batches',
         NEW news, NEW via \in Sources, \A ip \in DOMAIN news : HostOk(news[ip]), Merge(news),
         \A ip \in DOMAIN news : news[ip].via = {via} /\ news[ip].open = {},
         \A ip : \A v \in Sources :
           Reached(ip, v)' <=> Tells(ip, v) \/ (ip \in DOMAIN news /\ v = via),
         \A ip, p : Replied(ip, p)' <=> TellsPort(ip, p),
         stage' \notin {"syn", "connect", "tcp"}
  PROVE  HeardInv'
<1>1. /\ \A ip, v : Tells(ip, v)' <=> Tells(ip, v) \/ (ip \in DOMAIN news /\ v = via)
      /\ \A ip, p : TellsPort(ip, p)' <=> TellsPort(ip, p)
  BY MergeTells
<1>2. /\ \A ip : \A v \in Sources : ~ Held(ip, v)'
      /\ \A ip, p : ~ HeldPort(ip, p)'
  BY DEF NothingHeld
<1>3. \A ip : \A v \in Sources : Reached(ip, v)' <=> Tells(ip, v)' \/ Held(ip, v)'
  BY <1>1, <1>2
<1>4. \A ip, p : Replied(ip, p)' <=> TellsPort(ip, p)' \/ HeldPort(ip, p)'
  BY <1>1, <1>2
<1>5. HostsKept /\ Found' = Found \cup DOMAIN news
  BY MergeOk
<1>6. \A ip \in Found' \ Found : \E v \in Sources : Tells(ip, v)'
  BY <1>1, <1>5
<1>7. FoundHeard'
  BY <1>5, <1>6, StillHeard DEF HeardInv
<1> QED BY <1>3, <1>4, <1>7 DEF HeardInv, SourcesHeard, PortsHeard

LEMMA SweepsHeard ==
  ASSUME HostsOk, HeardInv, EndFallBack \/ EndIcmp
  PROVE  HeardInv'
<1>1. PICK next : /\ MergeSweep(next) /\ stage \in {"ping", "icmp"}
                  /\ next \in {"echo", "cache"}
  BY DEF EndFallBack, EndIcmp
<1> DEFINE news == [ip \in Answered |-> NewHost(Nothing, Nothing, {stage})]
<1>2. /\ Merge(news) /\ DOMAIN news = Answered
      /\ UNCHANGED <<opts, heard>> /\ stage' = next /\ DOMAIN probe' = {}
  BY <1>1 DEF MergeSweep, NoBatch
<1>3. \A ip \in DOMAIN news : /\ HostOk(news[ip])
                              /\ news[ip].via = {stage} /\ news[ip].open = {}
  BY NewHostOk DEF NewHost
<1> HIDE DEF news
<1>4. NothingHeld' /\ Batches'
  BY <1>1, <1>2 DEF NothingHeld, Held, HeldPort, Batches, Sources, Sweeping
<1>5. \A ip : \A v \in Sources :
        Reached(ip, v)' <=> Tells(ip, v) \/ (ip \in DOMAIN news /\ v = stage)
  BY <1>2, SameHeardIs DEF HeardInv, SourcesHeard, Held
<1>6. \A ip, p : Replied(ip, p)' <=> TellsPort(ip, p)
  BY <1>1, <1>2, SameHeardIs DEF HeardInv, PortsHeard, HeldPort
<1>7. stage \in Sources /\ stage' \notin {"syn", "connect", "tcp"}
  BY <1>1, <1>2 DEF Sources
<1> QED BY <1>2, <1>3, <1>4, <1>5, <1>6, <1>7, MergeHeard

\* What is told of one source by name is heard of it.
LEMMA ToldAtOnce ==
  ASSUME HostsOk, HeardInv, UNCHANGED <<opts, probe>>, ~ Sweeping, ~ Sweeping',
         stage # "tcp", stage' \notin {"syn", "connect", "tcp"},
         NEW news, NEW via \in Sources, \A ip \in DOMAIN news : HostOk(news[ip]), Merge(news),
         \A ip \in DOMAIN news : news[ip].via = {via} /\ news[ip].open = {},
         NEW mac, heard' = heard \cup {Answer(ip, via, mac[ip]) : ip \in DOMAIN news}
  PROVE  HeardInv'
<1>1. /\ DOMAIN probe = {} /\ NothingHeld
      /\ DOMAIN probe' = {} /\ NothingHeld'
  BY DEF HeardInv, Batches, NothingHeld, Held, HeldPort, Answered
<1>2. Batches'
  BY <1>1 DEF Batches
<1>3. ASSUME NEW ip, NEW v \in Sources
      PROVE  Reached(ip, v)' <=> Tells(ip, v) \/ (ip \in DOMAIN news /\ v = via)
  <2>1. Reached(ip, v)' <=> Reached(ip, v) \/ (ip \in DOMAIN news /\ v = via)
    <3>1. \A a : a \in heard' <=> a \in heard \/ \E i \in DOMAIN news : a = Answer(i, via, mac[i])
      OBVIOUS
    <3>2. \A i : Answer(i, via, mac[i]).ip = i /\ Answer(i, via, mac[i]).via = via
      BY DEF Answer
    <3> QED BY <3>1, <3>2 DEF Reached
  <2>2. Reached(ip, v) <=> Tells(ip, v)
    BY <1>1 DEF HeardInv, SourcesHeard, NothingHeld
  <2> QED BY <2>1, <2>2
<1>4. ASSUME NEW ip, NEW p
      PROVE  Replied(ip, p)' <=> TellsPort(ip, p)
  <2>1. Replied(ip, p)' <=> Replied(ip, p)
    BY DEF Replied, Answer, Sources, Replies
  <2>2. Replied(ip, p) <=> TellsPort(ip, p)
    BY <1>1 DEF HeardInv, PortsHeard, NothingHeld
  <2> QED BY <2>1, <2>2
<1> QED BY <1>1, <1>2, <1>3, <1>4, MergeHeard

LEMMA ArpHeard ==
  ASSUME HostsOk, HeardInv, SweepArp
  PROVE  HeardInv'
<1>1. PICK ips \in SUBSET IPs :
        \E mac \in [ips -> Macs], looked \in SUBSET (IF opts.vendor THEN ips ELSE {}) :
          /\ Merge([ip \in ips |->
               NewHost(mac[ip], IF ip \in looked THEN mac[ip] ELSE Nothing, {"arp"})])
          /\ heard' = heard \cup {Answer(ip, "arp", mac[ip]) : ip \in ips}
  BY Zenon DEF SweepArp
<1>2. PICK mac \in [ips -> Macs], looked \in SUBSET (IF opts.vendor THEN ips ELSE {}) :
        /\ Merge([ip \in ips |->
             NewHost(mac[ip], IF ip \in looked THEN mac[ip] ELSE Nothing, {"arp"})])
        /\ heard' = heard \cup {Answer(ip, "arp", mac[ip]) : ip \in ips}
  BY <1>1
<1> DEFINE news == [ip \in ips |->
             NewHost(mac[ip], IF ip \in looked THEN mac[ip] ELSE Nothing, {"arp"})]
<1>3. DOMAIN news = ips /\ Merge(news)
  BY <1>2
<1>4. \A ip \in ips : HostOk(news[ip]) /\ news[ip].via = {"arp"} /\ news[ip].open = {}
  <2> TAKE ip \in ips
  <2> DEFINE vendor == IF ip \in looked THEN mac[ip] ELSE Nothing
  <2>1. news[ip] = NewHost(mac[ip], vendor, {"arp"}) /\ vendor \in {Nothing, mac[ip]}
    OBVIOUS
  <2> HIDE DEF news, vendor
  <2> QED BY <2>1, NewHostOk DEF NewHost
<1> HIDE DEF news
<1>5. /\ UNCHANGED <<opts, probe>> /\ stage = "arp" /\ stage' = "echo"
  BY DEF SweepArp
<1>6. "arp" \in Sources /\ ~ Sweeping /\ ~ Sweeping'
  BY <1>5 DEF Sources, Sweeping
<1> QED BY <1>2, <1>3, <1>4, <1>5, <1>6, ToldAtOnce

LEMMA CacheHeard ==
  ASSUME HostsOk, HeardInv, ReadCache
  PROVE  HeardInv'
<1>1. PICK mac \in CacheContents :
        LET used == IF opts.cache THEN DOMAIN mac ELSE DOMAIN mac \cap Found
        IN  /\ Merge([ip \in used |-> NewHost(mac[ip], Nothing, {"arp-cache"})])
            /\ heard' = heard \cup {Answer(ip, "arp-cache", mac[ip]) : ip \in used}
  BY DEF ReadCache
<1> DEFINE used == IF opts.cache THEN DOMAIN mac ELSE DOMAIN mac \cap Found
           news == [ip \in used |-> NewHost(mac[ip], Nothing, {"arp-cache"})]
<1>2. /\ DOMAIN news = used /\ Merge(news)
      /\ heard' = heard \cup {Answer(ip, "arp-cache", mac[ip]) : ip \in used}
  BY <1>1
<1> HIDE DEF used
<1>3. \A ip \in used : HostOk(news[ip]) /\ news[ip].via = {"arp-cache"} /\ news[ip].open = {}
  BY NewHostOk DEF NewHost
<1> HIDE DEF news
<1>4. /\ UNCHANGED <<opts, probe>> /\ stage = "cache" /\ stage' = "ports"
  BY DEF ReadCache
<1>5. "arp-cache" \in Sources /\ ~ Sweeping /\ ~ Sweeping'
  BY <1>4 DEF Sources, Sweeping
<1> QED BY <1>2, <1>3, <1>4, <1>5, ToldAtOnce

\* The ports of one host are added to it, and to no other.
LEMMA PortsTell ==
  ASSUME HostsOk, NEW ip, NEW open, NEW via, via \cap Sources = {},
         hosts' = WithPorts(ip, open, via)
  PROVE  /\ \A i : \A v \in Sources : Tells(i, v)' <=> Tells(i, v)
         /\ \A i, p : TellsPort(i, p)' <=> TellsPort(i, p) \/ (i = ip /\ p \in open)
         /\ HostsKept /\ Found' = Found \cup {ip}
<1>1. /\ Found' = Found \cup {ip} /\ HostsKept
      /\ \A i \in Found \ {ip} : hosts'[i].via = hosts[i].via /\ hosts'[i].open = hosts[i].open
      /\ hosts'[ip].via = (IF ip \in Found THEN hosts[ip].via ELSE {}) \cup via
      /\ hosts'[ip].open = (IF ip \in Found THEN hosts[ip].open ELSE {}) \cup open
  BY WithPortsOk
<1>2. ASSUME NEW i, i # ip
      PROVE  /\ \A v : Tells(i, v)' <=> Tells(i, v)
             /\ \A p : TellsPort(i, p)' <=> TellsPort(i, p)
  BY <1>1, <1>2 DEF Tells, TellsPort
<1>3. /\ \A v \in Sources : Tells(ip, v)' <=> Tells(ip, v)
      /\ \A p : TellsPort(ip, p)' <=> TellsPort(ip, p) \/ p \in open
  BY <1>1 DEF Tells, TellsPort
<1> QED BY <1>1, <1>2, <1>3

LEMMA SynHeard ==
  ASSUME HostsOk, HeardInv, ScanSyn
  PROVE  HeardInv'
<1>1. PICK ip \in todo : \E open, closed \in SUBSET Ports :
        /\ hosts' = WithPorts(ip, open \cup closed, {})
        /\ heard' = heard \cup {Answer(ip, "syn", p) : p \in open}
                          \cup {Answer(ip, "reset", p) : p \in closed}
        /\ todo' = todo \ {ip}
  BY DEF ScanSyn
<1>2. PICK open, closed :
        /\ hosts' = WithPorts(ip, open \cup closed, {})
        /\ heard' = heard \cup {Answer(ip, "syn", p) : p \in open}
                          \cup {Answer(ip, "reset", p) : p \in closed}
        /\ todo' = todo \ {ip}
  BY <1>1
<1>3. /\ UNCHANGED <<opts, stage, probe>> /\ stage = "syn"
  BY DEF ScanSyn
<1>4. /\ \A i : \A v \in Sources : Tells(i, v)' <=> Tells(i, v)
      /\ \A i, p : TellsPort(i, p)' <=> TellsPort(i, p) \/ (i = ip /\ p \in open \cup closed)
      /\ HostsKept /\ Found' = Found \cup {ip}
  BY <1>2, PortsTell
<1>5. NothingHeld /\ NothingHeld' /\ Batches'
  BY <1>3 DEF HeardInv, Batches, NothingHeld, Held, HeldPort, Sources, Sweeping
<1>6. ASSUME NEW i, NEW v \in Sources PROVE Reached(i, v)' <=> Reached(i, v)
  BY <1>2 DEF Reached, Answer, Sources
<1>7. ASSUME NEW i, NEW p
      PROVE  Replied(i, p)' <=> Replied(i, p) \/ (i = ip /\ p \in open \cup closed)
  <2>1. \A a : a \in heard' <=> \/ a \in heard
                                \/ \E q \in open : a = Answer(ip, "syn", q)
                                \/ \E q \in closed : a = Answer(ip, "reset", q)
    BY <1>2
  <2>2. \A via, q : /\ Answer(ip, via, q).ip = ip /\ Answer(ip, via, q).via = via
                    /\ Answer(ip, via, q).what = q
    BY DEF Answer
  <2>3. "syn" \in Replies /\ "reset" \in Replies
    BY DEF Replies
  <2> QED BY <2>1, <2>2, <2>3 DEF Replied
<1>8. SourcesHeard'
  BY <1>4, <1>5, <1>6 DEF HeardInv, SourcesHeard, NothingHeld
<1>9. PortsHeard'
  BY <1>4, <1>5, <1>7 DEF HeardInv, PortsHeard, NothingHeld
<1>10. todo \subseteq Found \cup Asked
  BY <1>3 DEF HeardInv, FoundHeard
<1>11. FoundHeard'
  BY <1>1, <1>2, <1>3, <1>4, <1>10, StillHeard DEF HeardInv
<1> QED BY <1>5, <1>8, <1>9, <1>11 DEF HeardInv

LEMMA ConnectHeard ==
  ASSUME HostsOk, HeardInv, EndConnect
  PROVE  HeardInv'
<1>1. PICK ip \in todo : /\ DOMAIN probe = {ip} \X Ports
                         /\ hosts' = WithPorts(ip, {j[2] : j \in Answered}, {"tcp"})
                         /\ todo' = todo \ {ip}
  BY DEF EndConnect
<1> DEFINE open == {j[2] : j \in Answered}
<1>2. /\ UNCHANGED <<opts, heard>> /\ stage = "tcp" /\ stage' = "connect" /\ DOMAIN probe' = {}
  BY DEF EndConnect, NoBatch
<1>3. {"tcp"} \cap Sources = {} /\ hosts' = WithPorts(ip, open, {"tcp"})
  BY <1>1 DEF Sources
<1>4. \A i, p : HeldPort(i, p) <=> i = ip /\ p \in open
  <2>1. \A j \in Answered : j \in {ip} \X Ports
    BY <1>1 DEF Answered
  <2>2. \A j \in {ip} \X Ports : j = <<ip, j[2]>>
    OBVIOUS
  <2>3. \A p : <<ip, p>> \in Answered <=> p \in open
    BY <2>1, <2>2
  <2>4. \A i, p : <<i, p>> \in Answered => i = ip
    BY <2>1
  <2> QED BY <1>2, <2>3, <2>4 DEF HeldPort
<1> HIDE DEF open
<1>5. /\ \A i : \A v \in Sources : Tells(i, v)' <=> Tells(i, v)
      /\ \A i, p : TellsPort(i, p)' <=> TellsPort(i, p) \/ (i = ip /\ p \in open)
      /\ HostsKept /\ Found' = Found \cup {ip}
  BY <1>3, PortsTell
<1>6. /\ NothingHeld' /\ Batches'
      /\ \A i : \A v \in Sources : ~ Held(i, v)
  BY <1>2 DEF Batches, NothingHeld, Held, HeldPort, Sources, Sweeping
<1>7. SourcesHeard'
  BY <1>2, <1>5, <1>6, SameHeardIs DEF HeardInv, SourcesHeard, NothingHeld
<1>8. PortsHeard'
  BY <1>2, <1>4, <1>5, <1>6, SameHeardIs DEF HeardInv, PortsHeard, NothingHeld
<1>9. todo \subseteq Found \cup Asked
  BY <1>2 DEF HeardInv, FoundHeard
<1>10. FoundHeard'
  BY <1>1, <1>2, <1>5, <1>9, StillHeard DEF HeardInv
<1> QED BY <1>6, <1>7, <1>8, <1>10 DEF HeardInv

-----------------------------------------------------------------------------

LEMMA HeardInit == Init => HeardInv
BY DEF Init, HeardInv, SourcesHeard, PortsHeard, FoundHeard, Batches, NoBatch, Found, Answered,
       Tells, TellsPort, Held, HeldPort, Reached, Replied

LEMMA HeardNext ==
  ASSUME HostsOk, HeardInv, [Next]_vars
  PROVE  HeardInv'
<1>1. CASE Sweep
  BY <1>1, QuietStages, ArpHeard, SweepsHeard, CacheHeard DEF Sweep
<1>2. CASE Detail
  BY <1>2, QuietStages, NamingStages, SynHeard, ConnectHeard DEF Detail
<1>3. CASE \E j \in DOMAIN probe : StartProbe(j) \/ AnswerProbe(j) \/ FailProbe(j)
  BY <1>3, ProbesHeard
<1>4. CASE UNCHANGED vars
  BY <1>4 DEF vars, HeardInv, SourcesHeard, PortsHeard, FoundHeard, Batches, Found, Answered,
       Tells, TellsPort, Held, HeldPort, Reached, Replied, Asked, Sweeping
<1> QED BY <1>1, <1>2, <1>3, <1>4 DEF Next

\* Resets are answers to SYN segments.
ResetsInv ==
  /\ stage = "syn" => BySyn
  /\ \A a \in heard : a.via = "reset" => BySyn

LEMMA ResetsNext == ASSUME ResetsInv, [Next]_vars PROVE ResetsInv'
<1>1. UNCHANGED opts /\ BySyn' = BySyn
  BY DEF BySyn, Next, vars, Sweep, Detail, StartProbe, AnswerProbe, FailProbe,
       SkipArp, SweepArp, FallBack, RaiseArp, RaiseCache, EndFallBack, MergeSweep, SkipIcmp,
       SweepIcmp, EndIcmp, ReadCache, SkipPorts, ScanPorts, RaisePorts, RaiseConnect, ScanSyn,
       SynRaises, ConnectPorts, EndConnect, EndPorts, LookUpVendor, ResolveNames, EndResolve
<1>2. stage' = "syn" => BySyn
  BY DEF ResetsInv, BySyn, Next, vars, Sweep, Detail, StartProbe, AnswerProbe, FailProbe,
       SkipArp, SweepArp, FallBack, RaiseArp, RaiseCache, EndFallBack, MergeSweep, SkipIcmp,
       SweepIcmp, EndIcmp, ReadCache, SkipPorts, ScanPorts, RaisePorts, RaiseConnect, ScanSyn,
       SynRaises, ConnectPorts, EndConnect, EndPorts, LookUpVendor, ResolveNames, EndResolve
<1>3. CASE ScanSyn
  BY <1>1, <1>2, <1>3 DEF ResetsInv, ScanSyn
<1>4. ASSUME UNCHANGED heard PROVE ResetsInv'
  BY <1>1, <1>2, <1>4 DEF ResetsInv
<1>5. CASE Detail /\ ~ ScanSyn
  BY <1>4, <1>5 DEF Detail, SkipPorts, ScanPorts, RaisePorts, RaiseConnect, SynRaises,
                    ConnectPorts, EndConnect, EndPorts, LookUpVendor, ResolveNames, EndResolve
<1>6. CASE SweepArp \/ ReadCache
  <2>1. \A a \in heard' \ heard : a.via \in {"arp", "arp-cache"}
    <3>1. ASSUME SweepArp PROVE \A a \in heard' \ heard : a.via = "arp"
      <4>1. PICK ips \in SUBSET IPs : \E mac \in [ips -> Macs] :
              heard' = heard \cup {Answer(ip, "arp", mac[ip]) : ip \in ips}
        BY <3>1, Zenon DEF SweepArp
      <4> QED BY <4>1 DEF Answer
    <3>2. ASSUME ReadCache PROVE \A a \in heard' \ heard : a.via = "arp-cache"
      BY <3>2 DEF ReadCache, Answer
    <3> QED BY <1>6, <3>1, <3>2
  <2> QED BY <1>1, <1>2, <2>1 DEF ResetsInv
<1>7. CASE Sweep /\ ~ SweepArp /\ ~ ReadCache
  BY <1>4, <1>7 DEF Sweep, SkipArp, FallBack, RaiseArp, RaiseCache, EndFallBack, MergeSweep,
                    SkipIcmp, SweepIcmp, EndIcmp
<1>8. CASE \E j \in DOMAIN probe : StartProbe(j) \/ AnswerProbe(j) \/ FailProbe(j)
  <2>1. \A a \in heard' \ heard : a.via # "reset"
    BY <1>8 DEF StartProbe, AnswerProbe, FailProbe, Shown, Answer, Sweeping
  <2> QED BY <1>1, <1>2, <2>1 DEF ResetsInv
<1>9. CASE UNCHANGED vars
  BY <1>4, <1>9 DEF vars
<1> QED BY <1>3, <1>5, <1>6, <1>7, <1>8, <1>9 DEF Next

\* The result of a scan that ends is what it heard, whatever the number of
\* hosts and ports, the order of the answers and the stages that failed; but
\* for the ports of a SYN scan, of which it is only shown that none is missing.
THEOREM ResultIsHeardHolds == Spec => []ResultIsHeard
<1>1. ScanInv /\ HeardInv /\ [Next]_vars => HeardInv'
  BY HeardNext DEF ScanInv
<1>2. HeardInv /\ ResetsInv => ResultIsHeard
  <2> SUFFICES ASSUME HeardInv, ResetsInv, stage = "done" PROVE ResultIsHeard
    BY DEF ResultIsHeard
  <2> DEFINE answered == {a.ip : a \in {b \in heard : b.via \in Sources \cup Replies}}
  <2>1. NothingHeld
    BY NoneHeld
  <2>2. /\ \A ip : \A via \in Sources : Reached(ip, via) <=> Tells(ip, via)
        /\ \A ip, p : Replied(ip, p) <=> TellsPort(ip, p)
    BY <2>1 DEF HeardInv, SourcesHeard, PortsHeard, NothingHeld
  <2>3. answered \subseteq Found
    <3>1. ASSUME NEW a \in heard, a.via \in Sources PROVE a.ip \in Found
      BY <2>2, <3>1 DEF Reached, Tells
    <3>2. ASSUME NEW a \in heard, a.via \in Replies PROVE a.ip \in Found
      BY <2>2, <3>2 DEF Replied, TellsPort
    <3> QED BY <3>1, <3>2
  <2>4. Found \subseteq answered \cup Asked
    <3>1. ASSUME NEW ip, NEW via \in Sources, Reached(ip, via) PROVE ip \in answered
      BY <3>1 DEF Reached
    <3>2. ASSUME NEW ip, NEW p, Replied(ip, p) PROVE ip \in answered
      BY <3>2 DEF Replied
    <3> HIDE DEF answered
    <3> QED BY <2>2, <3>1, <3>2 DEF HeardInv, FoundHeard
  <2>5. ASSUME NEW ip \in Found
        PROVE  /\ hosts[ip].via \cap Sources = {a.via : a \in From(ip, Sources)}
               /\ Accepted(ip) \subseteq hosts[ip].open
               /\ ~ BySyn => hosts[ip].open = Accepted(ip)
    <3>1. \A via : via \in hosts[ip].via \cap Sources <=> via \in {a.via : a \in From(ip, Sources)}
      BY <2>2, <2>5 DEF Reached, Tells, From
    <3>2. \A p : p \in hosts[ip].open <=> Replied(ip, p)
      BY <2>2, <2>5 DEF TellsPort
    <3>3. \A p : p \in Accepted(ip) => Replied(ip, p)
      BY DEF Accepted, Accepts, From, Replied
    <3>4. ASSUME ~ BySyn, NEW p, Replied(ip, p) PROVE p \in Accepted(ip)
      <4>1. PICK a \in heard : a.ip = ip /\ a.via \in Replies /\ a.what = p
        BY <3>4 DEF Replied
      <4>2. a.via \in Accepts
        BY <3>4, <4>1 DEF ResetsInv, Accepts
      <4> QED BY <4>1, <4>2 DEF Accepted, From
    <3> QED BY <3>1, <3>2, <3>3, <3>4
  <2> QED BY <2>3, <2>4, <2>5 DEF ResultIsHeard, Asked
<1>3. Init => ResetsInv
  BY DEF Init, ResetsInv
<1>4. ResetsInv /\ [Next]_vars => ResetsInv'
  BY ResetsNext
<1> QED BY <1>1, <1>2, <1>3, <1>4, HeardInit, ScanInvHolds, PTL DEF Spec

-----------------------------------------------------------------------------
(* Types.  The vendor loop looks up the MACs of hosts that have one; the   *)
(* slots bound the running probes because a probe starts on its own.       *)

HostTyped(h) ==
  /\ h.mac \in Macs \cup {Nothing}
  /\ h.via \subseteq Sources \cup {"tcp"}
  /\ h.open \subseteq Ports
  /\ h.name \in BOOLEAN

FoundTyped == Found \subseteq IPs /\ \A ip \in Found : HostTyped(hosts[ip])

TodoTyped ==
  /\ todo \subseteq IPs
  /\ stage = "vendor" => todo \subseteq {ip \in Found : hosts[ip].mac # Nothing}

ProbeStates == {"queued", "running", "answered", "failed"}

ProbesTyped ==
  /\ DOMAIN probe \subseteq IF stage = "tcp" THEN IPs \X Ports ELSE IPs
  /\ \A j \in DOMAIN probe : probe[j] \in ProbeStates
  /\ IsFiniteSet(Running) /\ Limit \in Nat /\ Cardinality(Running) <= Limit

AnswerType == [ip : IPs, via : Sources \cup Replies \cup {"resolve"},
               what : Macs \cup Ports \cup {Nothing}]

TypesInv ==
  /\ opts \in Options /\ stage \in Stages /\ known \subseteq Macs
  /\ FoundTyped /\ TodoTyped /\ ProbesTyped
  /\ heard \subseteq AnswerType

LEMMA NewHostTyped ==
  ASSUME NEW mac \in Macs \cup {Nothing}, NEW vendor, NEW via \in SUBSET (Sources \cup {"tcp"})
  PROVE  HostTyped(NewHost(mac, vendor, via))
BY DEF HostTyped, NewHost

LEMMA MergedTyped ==
  ASSUME NEW old, NEW new, HostOk(old), HostOk(new), HostTyped(old), HostTyped(new)
  PROVE  HostTyped(Merged(old, new))
<1> DEFINE mac == IF old.mac = Nothing THEN new.mac ELSE old.mac
           via == old.via \cup new.via
           met == [old EXCEPT !.mac = mac]
<1>1. Merged(old, new) = [met EXCEPT !.via = via]
  BY DEF Merged, HostOk, IsHost
<1>2. IsHost(met) /\ met.name = old.name
  BY DEF HostOk, IsHost
<1> HIDE DEF met, via
<1>3. Merged(old, new).name = old.name
  BY <1>1, <1>2 DEF IsHost
<1> QED BY <1>3, MergedOk DEF HostTyped

LEMMA MergeTyped ==
  ASSUME HostsOk, FoundTyped, NEW news, DOMAIN news \subseteq IPs, Merge(news),
         \A ip \in DOMAIN news : HostOk(news[ip]) /\ HostTyped(news[ip])
  PROVE  FoundTyped'
<1>1. Found' = Found \cup DOMAIN news
  BY DEF Merge, Found
<1>2. ASSUME NEW ip \in DOMAIN news \ Found PROVE hosts'[ip] = news[ip]
  BY DEF Merge
<1>3. ASSUME NEW ip \in DOMAIN news \cap Found PROVE hosts'[ip] = Merged(hosts[ip], news[ip])
  BY DEF Merge
<1>4. ASSUME NEW ip \in Found \ DOMAIN news PROVE hosts'[ip] = hosts[ip]
  BY DEF Merge
<1>5. ASSUME NEW ip \in Found' PROVE HostTyped(hosts'[ip])
  BY <1>1, <1>2, <1>3, <1>4, MergedTyped DEF HostsOk, FoundTyped
<1>6. \A ip \in Found' : HostTyped(hosts[ip])'
  BY <1>5 DEF HostTyped
<1> QED BY <1>1, <1>6 DEF FoundTyped

LEMMA WithPortsTyped ==
  ASSUME HostsOk, FoundTyped, NEW ip \in IPs, NEW open \in SUBSET Ports,
         NEW via \in SUBSET {"tcp"}, hosts' = WithPorts(ip, open, via)
  PROVE  FoundTyped'
<1> DEFINE old(i) == IF i \in Found THEN hosts[i] ELSE NewHost(Nothing, Nothing, {})
<1>1. Found' = Found \cup {ip}
  BY DEF WithPorts, Found
<1>2. ASSUME NEW i \in Found'
      PROVE  hosts'[i] = IF i = ip THEN [old(i) EXCEPT !.open = @ \cup open, !.via = @ \cup via]
                         ELSE old(i)
  BY <1>1, <1>2 DEF WithPorts
<1>3. ASSUME NEW i \in Found' PROVE HostOk(old(i)) /\ HostTyped(old(i))
  BY NewHostOk, NewHostTyped DEF HostsOk, FoundTyped
<1> HIDE DEF old
<1>4. ASSUME NEW h, HostOk(h), HostTyped(h)
      PROVE  HostTyped([h EXCEPT !.open = @ \cup open, !.via = @ \cup via])
  <2> DEFINE opened == [h EXCEPT !.open = @ \cup open]
             more   == h.via \cup via
             new    == [opened EXCEPT !.via = more]
  <2>1. [h EXCEPT !.open = @ \cup open, !.via = @ \cup via] = new
    BY <1>4 DEF HostOk, IsHost
  <2>2. IsHost(opened) /\ opened.mac = h.mac /\ opened.name = h.name
        /\ opened.open = h.open \cup open
    BY <1>4 DEF HostOk, IsHost
  <2> HIDE DEF opened, more
  <2>3. new.mac = h.mac /\ new.name = h.name /\ new.via = more /\ new.open = h.open \cup open
    BY <2>2 DEF IsHost
  <2> HIDE DEF new
  <2> QED BY <1>4, <2>1, <2>3 DEF HostTyped, more
<1>5. ASSUME NEW i \in Found' PROVE HostTyped(hosts'[i])
  <2>1. CASE i = ip
    <3>1. hosts'[i] = [old(i) EXCEPT !.open = @ \cup open, !.via = @ \cup via]
      BY <1>2, <2>1
    <3> QED BY <1>3, <1>4, <3>1
  <2>2. CASE i # ip
    BY <1>2, <1>3, <2>2
  <2> QED BY <2>1, <2>2
<1>6. \A i \in Found' : HostTyped(hosts[i])'
  BY <1>5 DEF HostTyped
<1> QED BY <1>1, <1>6 DEF FoundTyped

LEMMA SameTyped == ASSUME FoundTyped, UNCHANGED hosts PROVE FoundTyped'
BY DEF FoundTyped, HostTyped, Found

-----------------------------------------------------------------------------

LEMMA SweepTyped ==
  ASSUME HostsOk, TypesInv, Sweep
  PROVE  FoundTyped' /\ known' \subseteq Macs /\ heard' \subseteq AnswerType
<1>1. CASE SkipArp \/ FallBack \/ RaiseArp \/ RaiseCache \/ SkipIcmp \/ SweepIcmp
  BY <1>1, SameTyped DEF TypesInv, SkipArp, FallBack, RaiseArp, RaiseCache, SkipIcmp, SweepIcmp
<1>2. CASE EndFallBack \/ EndIcmp
  <2>1. PICK next : MergeSweep(next) /\ stage \in {"ping", "icmp"}
    BY <1>2 DEF EndFallBack, EndIcmp
  <2> DEFINE news == [ip \in Answered |-> NewHost(Nothing, Nothing, {stage})]
  <2>2. Merge(news) /\ DOMAIN news = Answered /\ UNCHANGED <<known, heard>>
    BY <2>1 DEF MergeSweep
  <2>3. Answered \subseteq IPs
    BY <2>1 DEF TypesInv, ProbesTyped, Answered
  <2>4. \A ip \in DOMAIN news : HostOk(news[ip]) /\ HostTyped(news[ip])
    BY <2>1, NewHostOk, NewHostTyped DEF Sources
  <2> HIDE DEF news
  <2> QED BY <2>2, <2>3, <2>4, MergeTyped DEF TypesInv
<1>3. CASE SweepArp
  <2>1. PICK ips \in SUBSET IPs :
          \E mac \in [ips -> Macs], looked \in SUBSET (IF opts.vendor THEN ips ELSE {}) :
            /\ Merge([ip \in ips |->
                 NewHost(mac[ip], IF ip \in looked THEN mac[ip] ELSE Nothing, {"arp"})])
            /\ known' = known \cup {mac[ip] : ip \in looked}
            /\ heard' = heard \cup {Answer(ip, "arp", mac[ip]) : ip \in ips}
    BY <1>3, Zenon DEF SweepArp
  <2>2. PICK mac \in [ips -> Macs], looked \in SUBSET (IF opts.vendor THEN ips ELSE {}) :
            /\ Merge([ip \in ips |->
                 NewHost(mac[ip], IF ip \in looked THEN mac[ip] ELSE Nothing, {"arp"})])
            /\ known' = known \cup {mac[ip] : ip \in looked}
            /\ heard' = heard \cup {Answer(ip, "arp", mac[ip]) : ip \in ips}
    BY <2>1
  <2> DEFINE news == [ip \in ips |->
               NewHost(mac[ip], IF ip \in looked THEN mac[ip] ELSE Nothing, {"arp"})]
  <2>3. Merge(news) /\ DOMAIN news = ips
    BY <2>2
  <2>4. ASSUME NEW ip \in ips PROVE HostOk(news[ip]) /\ HostTyped(news[ip])
    <3> DEFINE vendor == IF ip \in looked THEN mac[ip] ELSE Nothing
    <3>1. /\ news[ip] = NewHost(mac[ip], vendor, {"arp"})
          /\ vendor \in {Nothing, mac[ip]} /\ mac[ip] \in Macs
      OBVIOUS
    <3> HIDE DEF news, vendor
    <3>2. mac[ip] \in Macs \cup {Nothing} /\ {"arp"} \in SUBSET (Sources \cup {"tcp"})
      BY <3>1 DEF Sources
    <3>3. HostOk(news[ip])
      BY <3>1, NewHostOk
    <3>4. HostTyped(news[ip])
      BY <3>1, <3>2, NewHostTyped
    <3> QED BY <3>3, <3>4
  <2> HIDE DEF news
  <2>5. FoundTyped'
    BY <2>3, <2>4, MergeTyped DEF TypesInv
  <2>6. known' \subseteq Macs
    BY <2>2 DEF TypesInv
  <2>7. heard' \subseteq AnswerType
    <3>1. \A ip \in ips : Answer(ip, "arp", mac[ip]) \in AnswerType
      BY DEF Answer, AnswerType, Sources
    <3> QED BY <2>2, <3>1 DEF TypesInv
  <2> QED BY <2>5, <2>6, <2>7
<1>4. CASE ReadCache
  <2>1. PICK mac \in CacheContents :
          LET used == IF opts.cache THEN DOMAIN mac ELSE DOMAIN mac \cap Found
          IN  /\ Merge([ip \in used |-> NewHost(mac[ip], Nothing, {"arp-cache"})])
              /\ heard' = heard \cup {Answer(ip, "arp-cache", mac[ip]) : ip \in used}
    BY <1>4 DEF ReadCache
  <2> DEFINE used == IF opts.cache THEN DOMAIN mac ELSE DOMAIN mac \cap Found
             news == [ip \in used |-> NewHost(mac[ip], Nothing, {"arp-cache"})]
  <2>2. Merge(news) /\ DOMAIN news = used
        /\ heard' = heard \cup {Answer(ip, "arp-cache", mac[ip]) : ip \in used}
    BY <2>1
  <2>3. used \subseteq IPs /\ \A ip \in used : mac[ip] \in Macs
    BY DEF CacheContents
  <2> HIDE DEF used
  <2>4. \A ip \in used : HostOk(news[ip]) /\ HostTyped(news[ip])
    BY <2>3, NewHostOk, NewHostTyped DEF Sources
  <2> HIDE DEF news
  <2>5. FoundTyped'
    BY <2>2, <2>3, <2>4, MergeTyped DEF TypesInv
  <2>6. \A ip \in used : Answer(ip, "arp-cache", mac[ip]) \in AnswerType
    BY <2>3 DEF Answer, AnswerType, Sources
  <2> QED BY <1>4, <2>2, <2>5, <2>6 DEF TypesInv, ReadCache
<1> QED BY <1>1, <1>2, <1>3, <1>4 DEF Sweep

LEMMA DetailTyped ==
  ASSUME HostsOk, TypesInv, Detail
  PROVE  FoundTyped' /\ known' \subseteq Macs /\ heard' \subseteq AnswerType
<1>1. CASE SkipPorts \/ ScanPorts \/ RaisePorts \/ RaiseConnect \/ SynRaises \/ ConnectPorts
           \/ EndPorts \/ ResolveNames
  BY <1>1, SameTyped
     DEF TypesInv, SkipPorts, ScanPorts, RaisePorts, RaiseConnect, SynRaises, ConnectPorts,
         EndPorts, ResolveNames
<1>2. CASE ScanSyn
  <2>1. PICK ip \in todo : \E open, closed \in SUBSET Ports :
          /\ hosts' = WithPorts(ip, open \cup closed, {})
          /\ heard' = heard \cup {Answer(ip, "syn", p) : p \in open}
                            \cup {Answer(ip, "reset", p) : p \in closed}
    BY <1>2 DEF ScanSyn
  <2>2. PICK open, closed \in SUBSET Ports :
          /\ hosts' = WithPorts(ip, open \cup closed, {})
          /\ heard' = heard \cup {Answer(ip, "syn", p) : p \in open}
                            \cup {Answer(ip, "reset", p) : p \in closed}
    BY <2>1
  <2>3. ip \in IPs
    BY DEF TypesInv, TodoTyped
  <2>4. FoundTyped'
    BY <2>2, <2>3, WithPortsTyped DEF TypesInv
  <2>5. \A p \in Ports : /\ Answer(ip, "syn", p) \in AnswerType
                         /\ Answer(ip, "reset", p) \in AnswerType
    BY <2>3 DEF Answer, AnswerType, Replies
  <2>6. heard' \subseteq AnswerType
    BY <2>2, <2>5 DEF TypesInv
  <2> QED BY <1>2, <2>4, <2>6 DEF TypesInv, ScanSyn
<1>3. CASE EndConnect
  <2>1. PICK ip \in todo : hosts' = WithPorts(ip, {j[2] : j \in Answered}, {"tcp"})
    BY <1>3 DEF EndConnect
  <2>2. ip \in IPs /\ {j[2] : j \in Answered} \subseteq Ports
    BY <1>3 DEF TypesInv, TodoTyped, ProbesTyped, Answered, EndConnect
  <2>3. FoundTyped'
    BY <2>1, <2>2, WithPortsTyped DEF TypesInv
  <2> QED BY <1>3, <2>3 DEF TypesInv, EndConnect
<1>4. CASE LookUpVendor
  <2>1. PICK ip \in todo :
          \/ hosts' = [hosts EXCEPT ![ip].vendor = hosts[ip].mac] /\ known' = known \cup {hosts[ip].mac}
          \/ UNCHANGED <<hosts, known>>
    BY <1>4 DEF LookUpVendor
  <2>2. ip \in Found /\ hosts[ip].mac \in Macs
    BY <1>4 DEF TypesInv, TodoTyped, FoundTyped, HostTyped, LookUpVendor
  <2>3. known' \subseteq Macs
    BY <2>1, <2>2 DEF TypesInv
  <2>4. CASE hosts' = [hosts EXCEPT ![ip].vendor = hosts[ip].mac]
    <3>1. Found' = Found /\ (\A i \in Found \ {ip} : hosts'[i] = hosts[i])
      BY <2>4 DEF Found
    <3> DEFINE mac == hosts[ip].mac
    <3>2. hosts'[ip] = [hosts[ip] EXCEPT !.vendor = mac]
      BY <2>2, <2>4 DEF Found
    <3> HIDE DEF mac
    <3>3. /\ hosts'[ip].mac = hosts[ip].mac /\ hosts'[ip].via = hosts[ip].via
          /\ hosts'[ip].open = hosts[ip].open /\ hosts'[ip].name = hosts[ip].name
      BY <2>2, <3>2 DEF HostsOk, HostOk, IsHost
    <3> QED BY <1>4, <2>2, <2>3, <3>1, <3>3 DEF TypesInv, FoundTyped, HostTyped, LookUpVendor
  <2>5. CASE UNCHANGED hosts
    BY <1>4, <2>3, <2>5, SameTyped DEF TypesInv, LookUpVendor
  <2> QED BY <2>1, <2>4, <2>5
<1>5. CASE EndResolve
  <2>1. Found' = Found
    BY <1>5 DEF EndResolve, Found
  <2>2. ASSUME NEW ip \in Found PROVE HostTyped(hosts'[ip])
    <3>1. hosts'[ip] = hosts[ip] \/ hosts'[ip] = [hosts[ip] EXCEPT !.name = TRUE]
      BY <1>5, <2>2 DEF EndResolve, Found
    <3>2. /\ hosts'[ip].mac = hosts[ip].mac /\ hosts'[ip].via = hosts[ip].via
          /\ hosts'[ip].open = hosts[ip].open
          /\ hosts'[ip].name = hosts[ip].name \/ hosts'[ip].name = TRUE
      BY <2>2, <3>1 DEF HostsOk, HostOk, IsHost
    <3> QED BY <2>2, <3>2 DEF TypesInv, FoundTyped, HostTyped
  <2>3. FoundTyped'
    BY <2>1, <2>2 DEF TypesInv, FoundTyped, HostTyped
  <2> QED BY <1>5, <2>3 DEF TypesInv, EndResolve
<1> QED BY <1>1, <1>2, <1>3, <1>4, <1>5 DEF Detail

LEMMA ProbeTyped ==
  ASSUME TypesInv, NEW j \in DOMAIN probe, StartProbe(j) \/ AnswerProbe(j) \/ FailProbe(j)
  PROVE  FoundTyped' /\ known' \subseteq Macs /\ heard' \subseteq AnswerType
<1>1. UNCHANGED <<hosts, known>> /\ (heard' = heard \/ heard' = heard \cup {Shown(j)}) /\ Sweeping
  BY DEF StartProbe, AnswerProbe, FailProbe
<1>2. Shown(j) \in AnswerType
  BY <1>1 DEF TypesInv, ProbesTyped, Sweeping, Shown, Answer, AnswerType, Sources, Replies
<1> QED BY <1>1, <1>2, SameTyped DEF TypesInv

LEMMA StageTyped == ASSUME TypesInv, [Next]_vars PROVE (opts \in Options /\ stage \in Stages)'
BY DEF TypesInv, Next, vars, Sweep, Detail, Stages, StartProbe, AnswerProbe, FailProbe,
       SkipArp, SweepArp, FallBack, RaiseArp, RaiseCache, EndFallBack, MergeSweep, SkipIcmp,
       SweepIcmp,
       EndIcmp, ReadCache, SkipPorts, ScanPorts, RaisePorts, RaiseConnect, ScanSyn, SynRaises,
       ConnectPorts, EndConnect,
       EndPorts, LookUpVendor, ResolveNames, EndResolve

LEMMA TodoStep ==
  ASSUME HostsOk, TypesInv, [Next]_vars
  PROVE  TodoTyped'
<1>1. CASE Sweep
  BY <1>1 DEF TypesInv, TodoTyped, Sweep, SkipArp, SweepArp, FallBack, RaiseArp, RaiseCache,
              EndFallBack,
              MergeSweep, SkipIcmp, SweepIcmp, EndIcmp, ReadCache
<1>2. CASE SkipPorts \/ EndPorts
  BY <1>2 DEF TypesInv, TodoTyped, FoundTyped, Found, SkipPorts, EndPorts
<1>3. CASE ScanPorts \/ RaisePorts \/ RaiseConnect \/ ScanSyn \/ SynRaises \/ ConnectPorts
           \/ EndConnect
  BY <1>3, TargetAssumption
     DEF TypesInv, TodoTyped, FoundTyped, ScanPorts, RaisePorts, RaiseConnect, ScanSyn,
         SynRaises, ConnectPorts, EndConnect
<1>4. CASE LookUpVendor
  <2>1. Macless
    BY <1>4, VendorMacless
  <2>2. stage = "vendor" /\ todo' \subseteq todo
    BY <1>4 DEF LookUpVendor
  <2> QED BY <2>1, <2>2 DEF TypesInv, TodoTyped, Macless
<1>5. CASE ResolveNames \/ EndResolve
  BY <1>5 DEF TypesInv, TodoTyped, ResolveNames, EndResolve
<1>6. CASE \E j \in DOMAIN probe : StartProbe(j) \/ AnswerProbe(j) \/ FailProbe(j)
  BY <1>6 DEF TypesInv, TodoTyped, Found, StartProbe, AnswerProbe, FailProbe
<1>7. CASE UNCHANGED vars
  BY <1>7 DEF TypesInv, TodoTyped, Found, vars
<1> QED BY <1>1, <1>2, <1>3, <1>4, <1>5, <1>6, <1>7 DEF Next, Detail

\* No more probes run than before, or one more where there was a slot.
LEMMA FewerRunning ==
  ASSUME ProbesTyped, Running' \subseteq Running, UNCHANGED Limit
  PROVE  (IsFiniteSet(Running) /\ Limit \in Nat /\ Cardinality(Running) <= Limit)'
<1>1. /\ IsFiniteSet(Running) /\ Cardinality(Running) \in Nat
      /\ Limit \in Nat /\ Cardinality(Running) <= Limit
  BY FS_CardinalityType DEF ProbesTyped
<1>2. IsFiniteSet(Running') /\ Cardinality(Running') <= Cardinality(Running)
      /\ Cardinality(Running') \in Nat
  BY <1>1, FS_Subset, FS_CardinalityType
<1> QED BY <1>1, <1>2

LEMMA BatchTyped ==
  ASSUME NEW S, probe' = Batch(S) \/ probe' = NoBatch, Limit' \in Nat,
         S \subseteq IF stage' = "tcp" THEN IPs \X Ports ELSE IPs
  PROVE  ProbesTyped'
<1>1. /\ DOMAIN probe' \subseteq IF stage' = "tcp" THEN IPs \X Ports ELSE IPs
      /\ \A j \in DOMAIN probe' : probe'[j] = "queued"
  BY DEF Batch, NoBatch
<1>2. Running' = {}
  BY <1>1 DEF Running
<1>3. IsFiniteSet(Running') /\ Cardinality(Running') = 0
  BY <1>2, FS_EmptySet
<1>4. (IsFiniteSet(Running) /\ Limit \in Nat /\ Cardinality(Running) <= Limit)'
  BY <1>3
<1> QED BY <1>1, <1>4 DEF ProbesTyped, ProbeStates

\* --concurrency bounds a batch only where it is no negative number.
LEMMA LimitTyped ==
  ASSUME TypesInv, UNCHANGED opts, stage' \in {"icmp", "tcp"} => opts.slots >= 0
  PROVE  Limit' \in Nat
<1>1. opts.slots \in Int
  BY OptionsAssumption DEF TypesInv
<1> QED BY <1>1, SlotsAssumption DEF Limit

LEMMA ProbesStep ==
  ASSUME HeardInv, TypesInv, [Next]_vars
  PROVE  ProbesTyped'
<1>1. ASSUME UNCHANGED probe, stage' \notin {"icmp", "tcp"}, stage \notin {"icmp", "tcp"}
      PROVE  ProbesTyped'
  BY <1>1 DEF TypesInv, ProbesTyped, Running, Limit
<1>2. CASE SkipArp \/ SweepArp \/ RaiseArp \/ RaiseCache \/ SkipIcmp \/ ReadCache
           \/ SkipPorts \/ ScanPorts \/ RaisePorts \/ RaiseConnect
           \/ ScanSyn \/ SynRaises \/ EndPorts \/ LookUpVendor
  BY <1>1, <1>2 DEF SkipArp, SweepArp, RaiseArp, RaiseCache, SkipIcmp, ReadCache, SkipPorts,
                    ScanPorts, RaisePorts, RaiseConnect,
                    ScanSyn, SynRaises, EndPorts, LookUpVendor
<1>3. CASE FallBack \/ EndFallBack \/ SweepIcmp \/ EndIcmp \/ EndConnect \/ EndResolve
  <2>1. PICK S \in {IPs, Swept, {}} : probe' = Batch(S) \/ probe' = NoBatch
    BY <1>3 DEF FallBack, EndFallBack, MergeSweep, SweepIcmp, EndIcmp, EndConnect, EndResolve
  <2>2. stage' # "tcp" /\ S \subseteq IPs
    BY <1>3, TargetAssumption DEF Swept, FallBack, EndFallBack, MergeSweep, SweepIcmp, EndIcmp,
                                  EndConnect, EndResolve
  <2>3. UNCHANGED opts /\ (stage' \in {"icmp", "tcp"} => opts.slots >= 0)
    BY <1>3 DEF FallBack, EndFallBack, MergeSweep, SweepIcmp, EndIcmp, EndConnect, EndResolve
  <2> QED BY <2>1, <2>2, <2>3, LimitTyped, BatchTyped
<1>4. CASE ConnectPorts
  <2>1. PICK ip \in todo : probe' = Batch({ip} \X Ports)
    BY <1>4 DEF ConnectPorts
  <2>2. stage' = "tcp" /\ {ip} \X Ports \subseteq IPs \X Ports
    BY <1>4 DEF TypesInv, TodoTyped, ConnectPorts
  <2>3. Limit' \in Nat
    BY <1>4, LimitTyped DEF ConnectPorts
  <2> QED BY <2>1, <2>2, <2>3, BatchTyped
<1>5. CASE ResolveNames
  <2>1. /\ stage' \notin {"icmp", "tcp"} /\ stage \notin {"icmp", "tcp"}
        /\ UNCHANGED opts /\ (probe' = Batch(Found) \/ UNCHANGED probe)
    BY <1>5 DEF ResolveNames
  <2>2. Found \subseteq IPs /\ Limit' \in Nat
    BY <2>1, LimitTyped DEF TypesInv, FoundTyped
  <2> QED BY <1>1, <2>1, <2>2, BatchTyped
<1>6. CASE \E j \in DOMAIN probe : StartProbe(j) \/ AnswerProbe(j) \/ FailProbe(j)
  <2>1. PICK j \in DOMAIN probe : StartProbe(j) \/ AnswerProbe(j) \/ FailProbe(j)
    BY <1>6
  <2>2. CASE StartProbe(j)
    <3>1. /\ Running' = Running \cup {j} /\ j \notin Running
          /\ probe' = [probe EXCEPT ![j] = "running"] /\ UNCHANGED <<stage, Limit>>
          /\ Cardinality(Running) < Limit
      BY <2>2 DEF StartProbe, Running, Limit
    <3>2. IsFiniteSet(Running) /\ Cardinality(Running) \in Nat /\ Limit \in Nat
      BY FS_CardinalityType DEF TypesInv, ProbesTyped
    <3>3. IsFiniteSet(Running') /\ Cardinality(Running') = Cardinality(Running) + 1
      BY <3>1, <3>2, FS_AddElement
    <3>4. Limit' \in Nat /\ Cardinality(Running') <= Limit'
      BY <3>1, <3>2, <3>3
    <3> QED BY <3>1, <3>3, <3>4 DEF TypesInv, ProbesTyped, ProbeStates
  <2>3. CASE AnswerProbe(j) \/ FailProbe(j)
    <3>1. PICK p \in {"answered", "failed"} :
            probe' = [probe EXCEPT ![j] = p] /\ UNCHANGED <<stage, Limit>>
      BY <2>3 DEF AnswerProbe, FailProbe, Limit
    <3>2. Running' \subseteq Running
      BY <3>1 DEF Running
    <3> QED BY <3>1, <3>2, FewerRunning DEF TypesInv, ProbesTyped, ProbeStates
  <2> QED BY <2>1, <2>2, <2>3
<1>7. CASE UNCHANGED vars
  BY <1>7 DEF vars, TypesInv, ProbesTyped, Running, Limit
<1> QED BY <1>2, <1>3, <1>4, <1>5, <1>6, <1>7 DEF Next, Sweep, Detail

LEMMA TypesNext ==
  ASSUME HostsOk, HeardInv, TypesInv, [Next]_vars
  PROVE  TypesInv'
<1>1. FoundTyped' /\ known' \subseteq Macs /\ heard' \subseteq AnswerType
  <2>1. CASE Sweep
    BY <2>1, SweepTyped
  <2>2. CASE Detail
    BY <2>2, DetailTyped
  <2>3. CASE \E j \in DOMAIN probe : StartProbe(j) \/ AnswerProbe(j) \/ FailProbe(j)
    BY <2>3, ProbeTyped
  <2>4. CASE UNCHANGED vars
    BY <2>4, SameTyped DEF vars, TypesInv
  <2> QED BY <2>1, <2>2, <2>3, <2>4 DEF Next
<1>2. TodoTyped' /\ ProbesTyped' /\ (opts \in Options /\ stage \in Stages)'
  BY TodoStep, ProbesStep, StageTyped
<1> QED BY <1>1, <1>2 DEF TypesInv, AnswerType

LEMMA TypesInit == Init => TypesInv
<1> SUFFICES ASSUME Init PROVE TypesInv
  OBVIOUS
<1>1. DOMAIN probe = {} /\ Found = {} /\ Running = {}
  BY DEF Init, NoBatch, Found, Running
<1>2. IsFiniteSet(Running) /\ Limit \in Nat /\ Cardinality(Running) <= Limit
  BY <1>1, FS_EmptySet, SlotsAssumption DEF Init, Limit
<1> QED BY <1>1, <1>2 DEF Init, TypesInv, FoundTyped, TodoTyped, ProbesTyped, Stages

LEMMA TypesInvHolds == Spec => [](ScanInv /\ HeardInv /\ TypesInv)
<1>1. ScanInv /\ HeardInv /\ [Next]_vars => HeardInv'
  BY HeardNext DEF ScanInv
<1>2. ScanInv /\ HeardInv /\ TypesInv /\ [Next]_vars => TypesInv'
  BY TypesNext DEF ScanInv
<1> QED BY <1>1, <1>2, HeardInit, TypesInit, ScanInvHolds, PTL DEF Spec

\* The variables have their types, and no more probes of a batch run than its
\* semaphore lets through, for every network, port list and --concurrency.
THEOREM TypesHold == Spec => []TypeOK
<1>1. ScanInv /\ TypesInv => TypeOK
  <2> SUFFICES ASSUME ScanInv, TypesInv PROVE TypeOK
    OBVIOUS
  <2>1. ASSUME NEW ip \in Found PROVE hosts[ip] \in HostRow
    <3>1. HostOk(hosts[ip]) /\ HostTyped(hosts[ip])
      BY DEF ScanInv, HostsOk, TypesInv, FoundTyped
    <3> QED BY <3>1 DEF HostOk, IsHost, HostTyped, HostRow
  <2> QED BY <2>1 DEF TypeOK, TypesInv, FoundTyped, TodoTyped, ProbesTyped, ProbeStates, AnswerType
<1> QED BY <1>1, TypesInvHolds, PTL

-----------------------------------------------------------------------------
(* A scan only moves on, and nothing it waits for can hold it up for good  *)
(* as long as every probe has a timeout.                                   *)

Rank(s) ==
  CASE s = "arp" -> 1 [] s = "ping" -> 2 [] s = "echo" -> 3 [] s = "icmp" -> 4
    [] s = "cache" -> 5 [] s = "ports" -> 6 [] s \in {"syn", "connect", "tcp"} -> 7
    [] s = "vendor" -> 8 [] s = "resolve" -> 9 [] s \in {"done", "raised"} -> 10

\* One probe of the batch moves on, and the others stay.
ProbeMoves == \E j \in DOMAIN probe :
  /\ DOMAIN probe' = DOMAIN probe
  /\ \A i \in DOMAIN probe \ {j} : probe'[i] = probe[i]
  /\ \/ probe[j] = "queued" /\ probe'[j] = "running"
     \/ probe[j] = "running" /\ probe'[j] \in {"answered", "failed"}

\* A later stage, fewer hosts to visit in a loop over them, the ports of one of them,
\* or a probe that moves on.
ScanMoves ==
  \/ Rank(stage') > Rank(stage)
  \/ Rank(stage') = Rank(stage) /\ todo' \subseteq todo /\ todo' # todo
  \/ stage = "connect" /\ stage' = "tcp" /\ todo' = todo
  \/ UNCHANGED <<stage, todo>> /\ ProbeMoves

LEMMA SweepMoves == ASSUME Sweep PROVE Rank(stage') > Rank(stage)
BY DEF Sweep, SkipArp, SweepArp, FallBack, RaiseArp, RaiseCache, EndFallBack, MergeSweep,
       SkipIcmp, SweepIcmp,
       EndIcmp, ReadCache, Rank

LEMMA DetailMoves == ASSUME Detail PROVE ScanMoves
<1>1. CASE SkipPorts \/ ScanPorts \/ RaisePorts \/ RaiseConnect \/ EndPorts \/ ResolveNames
           \/ EndResolve
  <2>1. Rank(stage') > Rank(stage)
    BY <1>1 DEF SkipPorts, ScanPorts, RaisePorts, RaiseConnect, EndPorts, ResolveNames,
                EndResolve, Rank
  <2> QED BY <2>1 DEF ScanMoves
<1>2. CASE ScanSyn \/ SynRaises \/ EndConnect \/ LookUpVendor
  <2>1. todo' \subseteq todo /\ todo' # todo
    BY <1>2 DEF ScanSyn, SynRaises, EndConnect, LookUpVendor
  <2>2. Rank(stage') = Rank(stage)
    BY <1>2 DEF ScanSyn, SynRaises, EndConnect, LookUpVendor, Rank
  <2> QED BY <2>1, <2>2 DEF ScanMoves
<1>3. CASE ConnectPorts
  BY <1>3 DEF ConnectPorts, ScanMoves
<1> QED BY <1>1, <1>2, <1>3 DEF Detail

\* Every step of a scan leads further: with fair turns and the timeouts of the
\* probes, which TLC's run assumes, a scan of a finite network ends.
THEOREM ScanOnlyMovesOn == Spec => [][ScanMoves]_vars
<1>1. [Next]_vars => [ScanMoves]_vars
  <2> SUFFICES ASSUME Next PROVE ScanMoves
    OBVIOUS
  <2>1. CASE Sweep
    BY <2>1, SweepMoves DEF ScanMoves
  <2>2. ASSUME NEW j \in DOMAIN probe, StartProbe(j) \/ AnswerProbe(j) \/ FailProbe(j)
        PROVE  UNCHANGED <<stage, todo>> /\ ProbeMoves
    BY <2>2 DEF StartProbe, AnswerProbe, FailProbe, ProbeMoves
  <2> QED BY <2>1, <2>2, DetailMoves DEF Next, ScanMoves
<1> QED BY <1>1, PTL DEF Spec

\* The batch of a host belongs to the host.
BatchOfHost == stage = "tcp" => \E ip \in todo : DOMAIN probe = {ip} \X Ports

LEMMA BatchStep == ASSUME BatchOfHost, [Next]_vars PROVE BatchOfHost'
<1>1. CASE UNCHANGED <<stage, todo>> /\ DOMAIN probe' = DOMAIN probe
  BY <1>1 DEF BatchOfHost
<1>2. CASE ConnectPorts
  BY <1>2 DEF ConnectPorts, BatchOfHost, Batch
<1>3. CASE stage' # "tcp"
  BY <1>3 DEF BatchOfHost
<1>4. CASE Sweep
  BY <1>3, <1>4 DEF Sweep, SkipArp, SweepArp, FallBack, RaiseArp, RaiseCache, EndFallBack,
                    MergeSweep, SkipIcmp,
                    SweepIcmp, EndIcmp, ReadCache
<1>5. CASE Detail
  BY <1>2, <1>3, <1>5 DEF Detail, SkipPorts, ScanPorts, RaisePorts, RaiseConnect, ScanSyn,
                          SynRaises, EndConnect, EndPorts,
                          LookUpVendor, ResolveNames, EndResolve
<1>6. CASE \E j \in DOMAIN probe : StartProbe(j) \/ AnswerProbe(j) \/ FailProbe(j)
  BY <1>1, <1>6 DEF StartProbe, AnswerProbe, FailProbe
<1>7. CASE UNCHANGED vars
  BY <1>1, <1>7 DEF vars
<1> QED BY <1>4, <1>5, <1>6, <1>7 DEF Next

\* A batch that is not yet there has a probe that runs, so that its timeout
\* ends it, or one that a slot is free for, unless it is starved, and then it
\* has neither; and the ports that are asked for are those of a host the loop
\* has still to visit.
StuckIffStarved ==
  /\ Sweeping /\ ~ Gathered =>
       (~ Starved <=>
         \/ Running # {}
         \/ \E j \in DOMAIN probe : probe[j] = "queued" /\ Cardinality(Running) < Limit)
  /\ BatchOfHost

\* A scan waits for what cannot happen exactly where --concurrency is 0 and
\* there is a probe that takes a slot of it.
THEOREM OnlyZeroSticks == Spec => []StuckIffStarved
<1>1. Init => BatchOfHost
  BY DEF Init, BatchOfHost
<1>2. BatchOfHost /\ [Next]_vars => BatchOfHost'
  BY BatchStep
<1>3. TypesInv /\ BatchOfHost => StuckIffStarved
  <2> SUFFICES ASSUME TypesInv, Sweeping, ~ Gathered
               PROVE  ~ Starved <=>
                        \/ Running # {}
                        \/ \E j \in DOMAIN probe :
                             probe[j] = "queued" /\ Cardinality(Running) < Limit
    BY DEF StuckIffStarved
  <2>1. IsFiniteSet(Running) /\ Cardinality(Running) \in Nat
        /\ Limit \in Nat /\ Cardinality(Running) <= Limit
    BY FS_CardinalityType DEF TypesInv, ProbesTyped
  <2>2. Starved <=> Limit = 0
    BY DEF Starved
  <2>3. CASE Limit = 0
    BY <2>1, <2>2, <2>3, FS_EmptySet
  <2>4. CASE Limit # 0 /\ Running = {}
    <3>1. PICK j \in DOMAIN probe : probe[j] \notin {"answered", "failed"}
      BY DEF Gathered
    <3>2. probe[j] = "queued"
      BY <2>4, <3>1 DEF TypesInv, ProbesTyped, ProbeStates, Running
    <3>3. Cardinality(Running) < Limit
      BY <2>1, <2>4, FS_EmptySet
    <3> QED BY <2>2, <2>4, <3>2, <3>3
  <2> QED BY <2>2, <2>3, <2>4
<1> QED BY <1>1, <1>2, <1>3, TypesInvHolds, PTL DEF Spec

\* A starved scan stays where it is: no step begins in such a state.
THEOREM StarvedStays == Spec => [][~ Starved]_vars
<1>1. TypesInv /\ Next => ~ Starved
  <2> SUFFICES ASSUME TypesInv, Next, Starved PROVE FALSE
    OBVIOUS
  <2>1. Running = {} /\ Limit = 0 /\ Sweeping /\ ~ Gathered
    BY FS_EmptySet, FS_CardinalityType DEF Starved, TypesInv, ProbesTyped
  <2>2. Cardinality(Running) = 0
    BY <2>1, FS_EmptySet
  <2>3. CASE Sweep
    BY <2>1, <2>3 DEF Sweep, Sweeping, SkipArp, SweepArp, FallBack, RaiseArp, RaiseCache,
                      EndFallBack,
                      MergeSweep, SkipIcmp, SweepIcmp, EndIcmp, ReadCache
  <2>4. CASE Detail
    BY <2>1, <2>4 DEF Detail, Sweeping, SkipPorts, ScanPorts, RaisePorts, RaiseConnect, ScanSyn,
                      SynRaises, ConnectPorts, EndConnect, EndPorts, LookUpVendor, ResolveNames,
                      EndResolve
  <2>5. CASE \E j \in DOMAIN probe : StartProbe(j) \/ AnswerProbe(j) \/ FailProbe(j)
    BY <2>1, <2>2, <2>5 DEF StartProbe, AnswerProbe, FailProbe, Running
  <2> QED BY <2>3, <2>4, <2>5 DEF Next
<1>2. TypesInv /\ [Next]_vars => [~ Starved]_vars
  BY <1>1
<1> QED BY <1>2, TypesInvHolds, PTL DEF Spec

=============================================================================
