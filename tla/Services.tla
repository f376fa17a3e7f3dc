------------------------------- MODULE Services -------------------------------
(***************************************************************************)
(* A services scan: run_services_scan (netscanx/cli/services.py) and the   *)
(* four discoveries it runs (netscanx/discovery/).                         *)
(*                                                                         *)
(* mDNS and SSDP listen side by side, each until its timeout, to whoever   *)
(* speaks: announcements and datagrams come in any order, come again, or   *)
(* do not come.  NetBIOS and then SNMP ask the addresses of the target     *)
(* one by one, a semaphore bounding how many at a time.                    *)
(***************************************************************************)
EXTENDS Naturals, FiniteSets, SequencesExt

CONSTANTS
  IPs,         \* the addresses of the target range, those of the ARP cache too
  Target,      \* the address of a scan of a single host
  Names,       \* the services that mDNS announces
  Replies,     \* the SSDP replies: who sends, and the USN or Nothing
  Slots,       \* what a semaphore lets through at a time: fixed in the code
  Options,     \* the sets of options a scan is run with
  Community,   \* the SNMP community string
  MaxNotices,  \* bound: the announcements that are resolved
  Nothing      \* no address, no name, no value

ASSUME IPsAssumption == IsFiniteSet(IPs)
ASSUME TargetAssumption == Target \in IPs
ASSUME SlotsAssumption == Slots \in Nat \ {0}
ASSUME CommunityAssumption == Community # Nothing
ASSUME OptionsAssumption == Options \subseteq
  [target : {"range", "host", "other"}, mdns : BOOLEAN, ssdp : BOOLEAN,
   netbios : BOOLEAN, snmp : BOOLEAN]

VARIABLES
  opts,      \* the options of this scan
  stage,     \* where run_services_scan is
  task,      \* the state of the tasks of the gather
  found,     \* what these tasks have collected
  seen,      \* the keys SSDP has seen
  probe,     \* the batch under way: the state of each of its probes
  asked,     \* how many OIDs an SNMP probe has asked for
  results,   \* the values an SNMP probe has got
  services,  \* all_services
  heard      \* all that was answered: no variable of the program

vars == <<opts, stage, task, found, seen, probe, asked, results, services, heard>>
multicast == <<task, found, seen>>
unicast   == <<probe, asked, results>>

Oids == <<"sysDescr", "sysName", "sysLocation", "sysContact">>

NoValues == [oid \in {} |-> Nothing]
NoBatch  == [ip \in {} |-> "queued"]
Running  == {ip \in DOMAIN probe : probe[ip] = "running"}
Answered == {ip \in DOMAIN probe : probe[ip] = "answered"}
Gathered == \A ip \in DOMAIN probe : probe[ip] \in {"answered", "failed"}

Service(source, ip, id, properties) ==
  [source |-> source, ip |-> ip, id |-> id, properties |-> properties]
Answer(source, ip, id) == [source |-> source, ip |-> ip, id |-> id]

Init ==
  /\ opts \in Options
  /\ stage = "multicast"
  /\ task = [mdns |-> IF opts.mdns THEN "started" ELSE "over",
             ssdp |-> IF opts.ssdp THEN "started" ELSE "over"]
  /\ found = [mdns |-> <<>>, ssdp |-> <<>>]
  /\ seen = {}
  /\ probe = NoBatch
  /\ asked = [ip \in {} |-> 0]
  /\ results = [ip \in {} |-> NoValues]
  /\ services = <<>>
  /\ heard = {}

-----------------------------------------------------------------------------
(* mDNS: a listener in threads of zeroconf, until the timeout.             *)

StartBrowsing ==
  /\ task.mdns = "started"
  /\ task' = [task EXCEPT !.mdns = "listening"]
  /\ UNCHANGED <<opts, stage, found, seen, unicast, services, heard>>

\* add_service: an announcement whose details arrive.  One that is withdrawn
\* and made again is added again.
AddService(name) ==
  /\ task.mdns = "listening"
  /\ Len(found.mdns) < MaxNotices
  /\ found' = [found EXCEPT !.mdns = Append(@, Service("mdns", Nothing, name, NoValues))]
  /\ heard' = heard \cup {Answer("mdns", Nothing, name)}
  /\ UNCHANGED <<opts, stage, task, seen, unicast, services>>

\* The timeout, an import that fails, or an exception: the list so far.
StopBrowsing ==
  /\ task.mdns \in {"started", "listening"}
  /\ task' = [task EXCEPT !.mdns = "over"]
  /\ UNCHANGED <<opts, stage, found, seen, unicast, services, heard>>

-----------------------------------------------------------------------------
(* SSDP: an M-SEARCH, then replies until the deadline.                     *)

\* The socket cannot be made: the exception is the result of the task.
NoSocket ==
  /\ task.ssdp = "started"
  /\ task' = [task EXCEPT !.ssdp = "raised"]
  /\ UNCHANGED <<opts, stage, found, seen, unicast, services, heard>>

SendSearch ==
  /\ task.ssdp = "started"
  /\ task' = [task EXCEPT !.ssdp = "listening"]
  /\ UNCHANGED <<opts, stage, found, seen, unicast, services, heard>>

Key(r) == <<r.ip, r.usn>>

\* Slip: the key is not remembered.
SlipReceiveReply(r) ==
  /\ task.ssdp = "listening"
  /\ Len(found.ssdp) < 2 * Cardinality(Replies)
  /\ found' = [found EXCEPT !.ssdp = Append(@, Service("ssdp", r.ip, r.usn, NoValues))]
  /\ heard' = heard \cup {Answer("ssdp", r.ip, r.usn)}
  /\ UNCHANGED <<opts, stage, task, seen, unicast, services>>

\* A reply whose key was seen changes nothing: datagrams come more than once.
ReceiveReply(r) ==
  /\ task.ssdp = "listening"
  /\ heard' = heard \cup {Answer("ssdp", r.ip, r.usn)}
  /\ IF Key(r) \in seen THEN UNCHANGED <<seen, found>>
     ELSE /\ seen' = seen \cup {Key(r)}
          /\ found' = [found EXCEPT !.ssdp = Append(@, Service("ssdp", r.ip, r.usn, NoValues))]
  /\ UNCHANGED <<opts, stage, task, unicast, services>>

\* The deadline, a search that cannot be sent, or an exception: the list so far.
StopListening ==
  /\ task.ssdp \in {"started", "listening"}
  /\ task' = [task EXCEPT !.ssdp = "over"]
  /\ UNCHANGED <<opts, stage, found, seen, unicast, services, heard>>

-----------------------------------------------------------------------------
(* The gather, and the addresses that are asked one by one.                *)

\* What is asked next: NetBIOS names, then SNMP values, then nothing.
Ask(next, ips) ==
  /\ stage' = next
  /\ probe' = [ip \in ips |-> "queued"]
  /\ asked' = [ip \in ips |-> 0]
  /\ results' = [ip \in ips |-> NoValues]

\* Slip: the gather raises what one of its tasks raised.
SlipEndMulticast ==
  /\ stage = "multicast"
  /\ \A t \in DOMAIN task : task[t] \in {"over", "raised"}
  /\ services' = IF task.ssdp = "raised" THEN <<>> ELSE found.mdns \o found.ssdp
  /\ stage' = IF task.ssdp # "raised" /\ (opts.netbios \/ opts.snmp) THEN "collect" ELSE "done"
  /\ UNCHANGED <<opts, multicast, unicast, heard>>

\* The lists of the tasks that returned one, mDNS first.
EndMulticast ==
  /\ stage = "multicast"
  /\ \A t \in DOMAIN task : task[t] \in {"over", "raised"}
  /\ services' = found.mdns \o (IF task.ssdp = "raised" THEN <<>> ELSE found.ssdp)
  /\ stage' = IF opts.netbios \/ opts.snmp THEN "collect" ELSE "done"
  /\ UNCHANGED <<opts, multicast, unicast, heard>>

\* _collect_ips: a range of up to 512 addresses, or what the ARP cache holds.
Collected ==
  CASE opts.target = "range" -> {IPs}
    [] opts.target = "host"  -> {{Target}}
    [] opts.target = "other" -> SUBSET IPs

CollectIps ==
  /\ stage = "collect"
  /\ \E ips \in Collected :
       Ask(IF ips = {} THEN "done" ELSE IF opts.netbios THEN "netbios" ELSE "snmp", ips)
  /\ UNCHANGED <<opts, multicast, services, heard>>

\* Reading the ARP cache may raise, on Linux, and what multicast found is lost.
RaiseCollect ==
  /\ stage = "collect" /\ opts.target = "other"
  /\ stage' = "raised"
  /\ UNCHANGED <<opts, multicast, unicast, services, heard>>

\* Slip: the semaphore is made for each probe anew.
SlipStartProbe(ip) ==
  /\ probe[ip] = "queued"
  /\ probe' = [probe EXCEPT ![ip] = "running"]
  /\ UNCHANGED <<opts, stage, multicast, asked, results, services, heard>>

StartProbe(ip) ==
  /\ probe[ip] = "queued"
  /\ Cardinality(Running) < Slots
  /\ probe' = [probe EXCEPT ![ip] = "running"]
  /\ UNCHANGED <<opts, stage, multicast, asked, results, services, heard>>

-----------------------------------------------------------------------------
(* NetBIOS. *)

AnswerName(ip) ==
  /\ stage = "netbios" /\ probe[ip] = "running"
  /\ probe' = [probe EXCEPT ![ip] = "answered"]
  /\ heard' = heard \cup {Answer("netbios", ip, Nothing)}
  /\ UNCHANGED <<opts, stage, multicast, asked, results, services>>

\* No reply, or one that is no name list.
FailName(ip) ==
  /\ stage = "netbios" /\ probe[ip] = "running"
  /\ probe' = [probe EXCEPT ![ip] = "failed"]
  /\ UNCHANGED <<opts, stage, multicast, asked, results, services, heard>>

EndNetbios ==
  /\ stage = "netbios"
  /\ Gathered
  /\ services' = services \o SetToSeq({Service("netbios", ip, Nothing, NoValues) : ip \in Answered})
  /\ IF opts.snmp THEN Ask("snmp", DOMAIN probe) ELSE Ask("done", {})
  /\ UNCHANGED <<opts, multicast, heard>>

-----------------------------------------------------------------------------
(* SNMP. *)

\* What an agent says an object is.
Value(ip, oid) == <<ip, oid>>

\* A GetResponse: the elements of the outer sequence.  The value is in the PDU.
Response(ip, oid) ==
  <<[tag |-> "INTEGER", value |-> "version"],
    [tag |-> "OCTET STRING", value |-> Community],
    [tag |-> "PDU", value |-> Value(ip, oid)]>>

\* The first octet string among the elements: it does not enter the PDU.
ParseResponse(message) ==
  LET strings == {i \in DOMAIN message : message[i].tag = "OCTET STRING"}
  IN  IF strings = {} THEN Nothing ELSE message[Min(strings)].value

\* Slip: a probe whose last request fails keeps its slot.
SlipProgress(ip, got) ==
  /\ asked' = [asked EXCEPT ![ip] = @ + 1]
  /\ results' = [results EXCEPT ![ip] = got]
  /\ probe' = [probe EXCEPT ![ip] =
       IF asked[ip] + 1 < Len(Oids) \/ got = NoValues THEN "running" ELSE "answered"]

\* One request after the other: the probe ends with the last.
Progress(ip, got) ==
  /\ asked' = [asked EXCEPT ![ip] = @ + 1]
  /\ results' = [results EXCEPT ![ip] = got]
  /\ probe' = [probe EXCEPT ![ip] =
       IF asked[ip] + 1 < Len(Oids) THEN "running" ELSE IF got = NoValues THEN "failed" ELSE "answered"]

\* results[oid_name] = val.
With(values, oid, val) ==
  [o \in DOMAIN values \cup {oid} |-> IF o = oid THEN val ELSE values[o]]

Asking(ip) == stage = "snmp" /\ probe[ip] = "running" /\ asked[ip] < Len(Oids)

AnswerOid(ip) ==
  /\ Asking(ip)
  /\ LET oid == Oids[asked[ip] + 1]
         val == ParseResponse(Response(ip, oid))
     IN  Progress(ip, IF val = Nothing THEN results[ip] ELSE With(results[ip], oid, val))
  /\ heard' = heard \cup {Answer("snmp", ip, Nothing)}
  /\ UNCHANGED <<opts, stage, multicast, services>>

\* No answer within the timeout, or none that can be read.
FailOid(ip) ==
  /\ Asking(ip)
  /\ Progress(ip, results[ip])
  /\ UNCHANGED <<opts, stage, multicast, services, heard>>

EndSnmp ==
  /\ stage = "snmp"
  /\ Gathered
  /\ services' = services \o SetToSeq({Service("snmp", ip, Nothing, results[ip]) : ip \in Answered})
  /\ Ask("done", {})
  /\ UNCHANGED <<opts, multicast, heard>>

-----------------------------------------------------------------------------

Listen ==
  \/ StartBrowsing \/ NoSocket \/ SendSearch
  \/ \E name \in Names : AddService(name)
  \/ \E r \in Replies : ReceiveReply(r)

Probing ==
  \E ip \in DOMAIN probe :
    StartProbe(ip) \/ AnswerName(ip) \/ FailName(ip) \/ AnswerOid(ip) \/ FailOid(ip)

Next ==
  \/ Listen \/ StopBrowsing \/ StopListening
  \/ EndMulticast \/ CollectIps \/ RaiseCollect
  \/ Probing \/ EndNetbios \/ EndSnmp

Spec == Init /\ [][Next]_vars

\* Timeouts expire and the event loop runs what can go on; nobody need answer.
FairSpec ==
  /\ Spec
  /\ WF_vars(StopBrowsing) /\ WF_vars(StopListening)
  /\ WF_vars(EndMulticast \/ CollectIps \/ RaiseCollect \/ EndNetbios \/ EndSnmp)
  /\ WF_vars(\E ip \in DOMAIN probe : StartProbe(ip))
  /\ WF_vars(\E ip \in DOMAIN probe : FailName(ip) \/ FailOid(ip))

=============================================================================
