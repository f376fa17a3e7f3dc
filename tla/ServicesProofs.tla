--------------------------- MODULE ServicesProofs ---------------------------
(***************************************************************************)
(* A services scan reports what it heard, and replies once, for every set  *)
(* of replies and every order and number of them.                          *)
(***************************************************************************)
EXTENDS ServicesProperties, SequenceTheorems, FiniteSetTheorems, TLAPS

-----------------------------------------------------------------------------
(* Lists.                                                                  *)

IsList(s) == \E S : s \in Seq(S)

FromSsdp(s, i) == s[i].source = "ssdp"

\* No two replies in a list have the same sender and USN.
Once(s) == \A i, j \in DOMAIN s :
  FromSsdp(s, i) /\ FromSsdp(s, j) /\ s[i].ip = s[j].ip /\ s[i].id = s[j].id => i = j

NoReplies(s) == \A i \in DOMAIN s : ~ FromSsdp(s, i)

LEMMA ListProperties ==
  ASSUME NEW s, IsList(s)
  PROVE  Len(s) \in Nat /\ DOMAIN s = 1..Len(s)
BY LenProperties DEF IsList

LEMMA AppendList ==
  ASSUME NEW s, IsList(s), NEW x
  PROVE  /\ IsList(Append(s, x))
         /\ Len(Append(s, x)) = Len(s) + 1
         /\ \A i \in DOMAIN s : Append(s, x)[i] = s[i]
         /\ Append(s, x)[Len(s) + 1] = x
<1>1. PICK S : s \in Seq(S)
  BY DEF IsList
<1>2. s \in Seq(S \cup {x}) /\ x \in S \cup {x}
  BY <1>1, SeqMonotonic
<1>3. Append(s, x) \in Seq(S \cup {x})
  BY <1>2, AppendProperties
<1> QED BY <1>2, <1>3, AppendProperties, ListProperties DEF IsList

LEMMA ConcatList ==
  ASSUME NEW s, NEW t, IsList(s), IsList(t)
  PROVE  /\ IsList(s \o t)
         /\ Len(s \o t) = Len(s) + Len(t)
         /\ \A i \in DOMAIN (s \o t) :
              \/ i \in DOMAIN s /\ (s \o t)[i] = s[i]
              \/ i - Len(s) \in DOMAIN t /\ (s \o t)[i] = t[i - Len(s)]
<1>1. PICK S : s \in Seq(S)
  BY DEF IsList
<1>2. PICK T : t \in Seq(T)
  BY DEF IsList
<1>3. s \in Seq(S \cup T) /\ t \in Seq(S \cup T)
  BY <1>1, <1>2, SeqMonotonic
<1>4. /\ s \o t \in Seq(S \cup T) /\ Len(s \o t) = Len(s) + Len(t)
      /\ \A i \in 1..(Len(s) + Len(t)) : (s \o t)[i] = IF i <= Len(s) THEN s[i] ELSE t[i - Len(s)]
  BY <1>3, ConcatProperties
<1>5. IsList(s \o t)
  BY <1>4 DEF IsList
<1> QED BY <1>4, <1>5, ListProperties

\* One of two lists that are joined holds no replies.
LEMMA ConcatOnce ==
  ASSUME NEW s, NEW t, IsList(s), IsList(t), Once(s), Once(t), NoReplies(s) \/ NoReplies(t)
  PROVE  Once(s \o t)
<1> SUFFICES ASSUME NEW i \in DOMAIN (s \o t), NEW j \in DOMAIN (s \o t),
                    FromSsdp(s \o t, i), FromSsdp(s \o t, j),
                    (s \o t)[i].ip = (s \o t)[j].ip, (s \o t)[i].id = (s \o t)[j].id
             PROVE  i = j
  BY DEF Once
<1>1. CASE NoReplies(s)
  <2>1. /\ i - Len(s) \in DOMAIN t /\ (s \o t)[i] = t[i - Len(s)]
        /\ j - Len(s) \in DOMAIN t /\ (s \o t)[j] = t[j - Len(s)]
    BY <1>1, ConcatList DEF NoReplies, FromSsdp
  <2>2. i - Len(s) = j - Len(s)
    BY <2>1 DEF Once, FromSsdp
  <2>3. i \in Nat /\ j \in Nat /\ Len(s) \in Nat
    BY ConcatList, ListProperties
  <2> QED BY <2>2, <2>3
<1>2. CASE NoReplies(t)
  <2>1. ASSUME NEW k \in DOMAIN (s \o t), FromSsdp(s \o t, k)
        PROVE  k \in DOMAIN s /\ (s \o t)[k] = s[k]
    <3>1. CASE k - Len(s) \in DOMAIN t /\ (s \o t)[k] = t[k - Len(s)]
      BY <1>2, <2>1, <3>1 DEF NoReplies, FromSsdp
    <3> QED BY <3>1, ConcatList
  <2>2. /\ i \in DOMAIN s /\ (s \o t)[i] = s[i]
        /\ j \in DOMAIN s /\ (s \o t)[j] = s[j]
    BY <2>1
  <2> QED BY <2>2 DEF Once, FromSsdp
<1> QED BY <1>1, <1>2

\* A finite set as a list holds what the set holds.
LEMMA SetAsList ==
  ASSUME NEW S, IsFiniteSet(S)
  PROVE  IsList(SetToSeq(S)) /\ \A i \in DOMAIN SetToSeq(S) : SetToSeq(S)[i] \in S
<1>1. PICK f \in [1..Cardinality(S) -> S] : IsInjective(f)
  BY FS_CardinalityType DEF ExistsBijection, Bijection, Injection, IsInjective
<1>2. SetToSeq(S) \in [1..Cardinality(S) -> S]
  BY <1>1 DEF SetToSeq
<1>3. SetToSeq(S) \in Seq(S)
  BY <1>2, FS_CardinalityType, IsASeq
<1> QED BY <1>2, <1>3 DEF IsList

-----------------------------------------------------------------------------
(* A scan. *)

MdnsOk == IsList(found.mdns) /\ NoReplies(found.mdns)

\* What is in the list of the replies was seen.
SsdpOk ==
  /\ IsList(found.ssdp) /\ Once(found.ssdp)
  /\ \A i \in DOMAIN found.ssdp : <<found.ssdp[i].ip, found.ssdp[i].id>> \in seen

OnceInv ==
  /\ opts \in Options
  /\ found = [mdns |-> found.mdns, ssdp |-> found.ssdp]
  /\ MdnsOk
  /\ SsdpOk
  /\ IsList(services) /\ Once(services)
  /\ IsFiniteSet(DOMAIN probe)

LEMMA EmptyList == IsList(<<>>) /\ Once(<<>>) /\ NoReplies(<<>>) /\ DOMAIN <<>> = {}
<1>1. <<>> \in Seq({}) /\ Len(<<>>) = 0
  BY EmptySeq
<1>2. DOMAIN <<>> = {}
  BY <1>1, ListProperties DEF IsList
<1> QED BY <1>1, <1>2 DEF IsList, Once, NoReplies

LEMMA OnceInit == Init => OnceInv
<1> SUFFICES ASSUME Init PROVE OnceInv
  OBVIOUS
<1>1. opts \in Options /\ found = [mdns |-> <<>>, ssdp |-> <<>>] /\ services = <<>> /\ DOMAIN probe = {}
  BY DEF Init, NoBatch
<1>2. IsFiniteSet(DOMAIN probe)
  BY <1>1, FS_EmptySet
<1> QED BY <1>1, <1>2, EmptyList DEF OnceInv, MdnsOk, SsdpOk

\* An announcement is no reply.
LEMMA AddServiceOk ==
  ASSUME OnceInv, NEW name, AddService(name)
  PROVE  OnceInv'
<1> DEFINE new == Service("mdns", Nothing, name, NoValues)
           list == Append(found.mdns, new)
<1>1. /\ found' = [mdns |-> list, ssdp |-> found.ssdp]
      /\ UNCHANGED <<opts, seen, services, probe>>
  BY DEF AddService, OnceInv, unicast
<1>2. new.source = "mdns"
  BY DEF Service
<1> HIDE DEF new
<1>3. IsList(list) /\ NoReplies(list)
  <2>1. IsList(found.mdns) /\ NoReplies(found.mdns)
    BY DEF OnceInv, MdnsOk
  <2>2. IsList(list) /\ Len(list) = Len(found.mdns) + 1
    BY <2>1, AppendList
  <2>3. ASSUME NEW i \in DOMAIN list PROVE list[i].source # "ssdp"
    <3>1. i \in DOMAIN found.mdns \/ i = Len(found.mdns) + 1
      BY <2>1, <2>2, ListProperties
    <3>2. CASE i \in DOMAIN found.mdns
      BY <2>1, <3>2, AppendList DEF NoReplies, FromSsdp
    <3>3. CASE i = Len(found.mdns) + 1
      BY <1>2, <2>1, <3>3, AppendList
    <3> QED BY <3>1, <3>2, <3>3
  <2> QED BY <2>2, <2>3 DEF NoReplies, FromSsdp
<1> HIDE DEF list
<1> QED BY <1>1, <1>3 DEF OnceInv, MdnsOk, SsdpOk

\* A reply that is added has a key that none of the list has.
LEMMA ReceiveReplyOk ==
  ASSUME OnceInv, NEW r, ReceiveReply(r)
  PROVE  OnceInv'
<1> DEFINE new == Service("ssdp", r.ip, r.usn, NoValues)
           old == found.ssdp
           list == Append(old, new)
<1>1. UNCHANGED <<opts, services, probe>>
  BY DEF ReceiveReply, unicast
<1>2. CASE Key(r) \in seen
  <2>1. UNCHANGED <<seen, found>>
    BY <1>2 DEF ReceiveReply
  <2> QED BY <1>1, <2>1 DEF OnceInv, MdnsOk, SsdpOk
<1>3. CASE Key(r) \notin seen
  <2>1. /\ found' = [mdns |-> found.mdns, ssdp |-> list]
        /\ seen' = seen \cup {Key(r)}
    BY <1>3 DEF ReceiveReply, OnceInv
  <2>2. <<new.ip, new.id>> = Key(r)
    BY DEF Service, Key
  <2> HIDE DEF new
  <2>3. IsList(old) /\ Once(old) /\ \A i \in DOMAIN old : <<old[i].ip, old[i].id>> \in seen
    BY DEF OnceInv, SsdpOk
  <2> HIDE DEF old
  <2>4. /\ IsList(list) /\ DOMAIN list = DOMAIN old \cup {Len(old) + 1}
        /\ \A i \in DOMAIN old : list[i] = old[i]
        /\ list[Len(old) + 1] = new
    BY <2>3, AppendList, ListProperties
  <2> HIDE DEF list
  <2>5. \A i \in DOMAIN list : <<list[i].ip, list[i].id>> \in seen'
    BY <2>1, <2>2, <2>3, <2>4
  <2>6. ASSUME NEW i \in DOMAIN old
        PROVE  ~ (old[i].ip = new.ip /\ old[i].id = new.id)
    BY <1>3, <2>2, <2>3
  <2>7. Once(list)
    <3> SUFFICES ASSUME NEW i \in DOMAIN list, NEW j \in DOMAIN list,
                        FromSsdp(list, i), FromSsdp(list, j),
                        list[i].ip = list[j].ip, list[i].id = list[j].id
                 PROVE  i = j
      BY DEF Once
    <3>1. CASE i \in DOMAIN old /\ j \in DOMAIN old
      BY <2>3, <2>4, <3>1 DEF Once, FromSsdp
    <3>2. CASE i = Len(old) + 1 /\ j = Len(old) + 1
      BY <3>2
    <3>3. CASE i \in DOMAIN old /\ j = Len(old) + 1
      BY <2>4, <2>6, <3>3
    <3>4. CASE i = Len(old) + 1 /\ j \in DOMAIN old
      BY <2>4, <2>6, <3>4
    <3> QED BY <2>4, <3>1, <3>2, <3>3, <3>4
  <2> QED BY <1>1, <2>1, <2>4, <2>5, <2>7 DEF OnceInv, MdnsOk, SsdpOk, old
<1> QED BY <1>2, <1>3

LEMMA EndMulticastOk ==
  ASSUME OnceInv, EndMulticast
  PROVE  OnceInv'
<1> DEFINE replies == IF task.ssdp = "raised" THEN <<>> ELSE found.ssdp
<1>1. /\ services' = found.mdns \o replies
      /\ UNCHANGED <<opts, found, seen, probe>>
  BY DEF EndMulticast, multicast, unicast
<1>2. IsList(replies) /\ Once(replies)
  BY EmptyList DEF OnceInv, SsdpOk
<1>3. IsList(found.mdns) /\ NoReplies(found.mdns) /\ Once(found.mdns)
  BY DEF OnceInv, MdnsOk, NoReplies, Once
<1> HIDE DEF replies
<1>4. IsList(services') /\ Once(services')
  BY <1>1, <1>2, <1>3, ConcatList, ConcatOnce
<1> QED BY <1>1, <1>4 DEF OnceInv, MdnsOk, SsdpOk

LEMMA AskOk ==
  ASSUME OnceInv, NEW next, NEW ips, IsFiniteSet(ips), Ask(next, ips),
         UNCHANGED <<opts, multicast>>, IsList(services'), Once(services')
  PROVE  OnceInv'
<1>1. DOMAIN probe' = ips
  BY DEF Ask
<1> QED BY <1>1 DEF OnceInv, MdnsOk, SsdpOk, multicast

LEMMA CollectIpsOk ==
  ASSUME OnceInv, CollectIps
  PROVE  OnceInv'
<1>1. PICK ips \in Collected :
        Ask(IF ips = {} THEN "done" ELSE IF opts.netbios THEN "netbios" ELSE "snmp", ips)
  BY DEF CollectIps
<1>2. UNCHANGED <<opts, multicast, services>>
  BY DEF CollectIps
<1>3. opts.target \in {"range", "host", "other"}
  BY OptionsAssumption DEF OnceInv
<1>4. IsFiniteSet(ips)
  BY <1>3, TargetAssumption, IPsAssumption, FS_Subset DEF Collected
<1>5. IsList(services') /\ Once(services')
  BY <1>2 DEF OnceInv
<1> QED BY <1>1, <1>2, <1>4, <1>5, AskOk

\* What was asked for by address is no reply to the search.
LEMMA AddAnswersOk ==
  ASSUME OnceInv, NEW answer, DOMAIN answer = Answered,
         \A ip \in Answered : answer[ip].source # "ssdp",
         services' = services \o SetToSeq({answer[ip] : ip \in Answered})
  PROVE  IsList(services') /\ Once(services')
<1> DEFINE news == {answer[ip] : ip \in Answered}
<1>1. IsFiniteSet(news)
  <2>1. IsFiniteSet(Answered)
    BY FS_Subset DEF Answered, OnceInv
  <2> DEFINE f == [ip \in Answered |-> answer[ip]]
  <2>2. f \in Surjection(Answered, news)
    BY DEF Surjection
  <2> QED BY <2>1, <2>2, FS_Surjection
<1>2. \A x \in news : x.source # "ssdp"
  OBVIOUS
<1> HIDE DEF news
<1>3. IsList(SetToSeq(news)) /\ NoReplies(SetToSeq(news))
  BY <1>1, <1>2, SetAsList DEF NoReplies, FromSsdp
<1>4. Once(SetToSeq(news))
  BY <1>3 DEF Once, NoReplies
<1> QED BY <1>3, <1>4, ConcatList, ConcatOnce DEF OnceInv, news

LEMMA EndNetbiosOk ==
  ASSUME OnceInv, EndNetbios
  PROVE  OnceInv'
<1> DEFINE answer == [ip \in Answered |-> Service("netbios", ip, Nothing, NoValues)]
<1>1. \A ip \in Answered : answer[ip].source # "ssdp"
  BY DEF Service
<1>2. services' = services \o SetToSeq({answer[ip] : ip \in Answered})
  <2>1. {answer[ip] : ip \in Answered} = {Service("netbios", ip, Nothing, NoValues) : ip \in Answered}
    OBVIOUS
  <2> QED BY <2>1 DEF EndNetbios
<1>3. IsList(services') /\ Once(services')
  BY <1>1, <1>2, AddAnswersOk
<1>4. PICK next \in {"snmp", "done"}, ips \in {DOMAIN probe, {}} : Ask(next, ips)
  BY DEF EndNetbios
<1>5. UNCHANGED <<opts, multicast>> /\ IsFiniteSet(ips)
  BY FS_EmptySet DEF EndNetbios, OnceInv
<1> QED BY <1>3, <1>4, <1>5, AskOk

LEMMA EndSnmpOk ==
  ASSUME OnceInv, EndSnmp
  PROVE  OnceInv'
<1> DEFINE answer == [ip \in Answered |-> Service("snmp", ip, Nothing, results[ip])]
<1>1. \A ip \in Answered : answer[ip].source # "ssdp"
  BY DEF Service
<1>2. services' = services \o SetToSeq({answer[ip] : ip \in Answered})
  <2>1. {answer[ip] : ip \in Answered} = {Service("snmp", ip, Nothing, results[ip]) : ip \in Answered}
    OBVIOUS
  <2> QED BY <2>1 DEF EndSnmp
<1>3. IsList(services') /\ Once(services')
  BY <1>1, <1>2, AddAnswersOk
<1>4. Ask("done", {}) /\ UNCHANGED <<opts, multicast>>
  BY DEF EndSnmp
<1> QED BY <1>3, <1>4, FS_EmptySet, AskOk

\* The other steps add to no list.
LEMMA SameListsOk ==
  ASSUME OnceInv, UNCHANGED <<opts, found, seen, services>>, DOMAIN probe' = DOMAIN probe
  PROVE  OnceInv'
BY DEF OnceInv, MdnsOk, SsdpOk

LEMMA ProbingOk ==
  ASSUME OnceInv, Probing
  PROVE  OnceInv'
<1>1. UNCHANGED <<opts, found, seen, services>>
  BY DEF Probing, StartProbe, AnswerName, FailName, AnswerOid, FailOid, multicast
<1>2. DOMAIN probe' = DOMAIN probe
  BY DEF Probing, StartProbe, AnswerName, FailName, AnswerOid, FailOid, Progress
<1> QED BY <1>1, <1>2, SameListsOk

LEMMA OnceStep == OnceInv /\ [Next]_vars => OnceInv'
<1> SUFFICES ASSUME OnceInv, [Next]_vars PROVE OnceInv'
  OBVIOUS
<1>1. CASE StartBrowsing \/ NoSocket \/ SendSearch \/ StopBrowsing \/ StopListening
           \/ RaiseCollect
  BY <1>1, SameListsOk DEF StartBrowsing, NoSocket, SendSearch, StopBrowsing, StopListening,
                           RaiseCollect, unicast, multicast
<1>2. CASE \E name \in Names : AddService(name)
  BY <1>2, AddServiceOk
<1>3. CASE \E r \in Replies : ReceiveReply(r)
  BY <1>3, ReceiveReplyOk
<1>4. CASE EndMulticast
  BY <1>4, EndMulticastOk
<1>5. CASE CollectIps
  BY <1>5, CollectIpsOk
<1>6. CASE Probing
  BY <1>6, ProbingOk
<1>7. CASE EndNetbios
  BY <1>7, EndNetbiosOk
<1>8. CASE EndSnmp
  BY <1>8, EndSnmpOk
<1>9. CASE UNCHANGED vars
  BY <1>9, SameListsOk DEF vars, unicast, multicast
<1> QED BY <1>1, <1>2, <1>3, <1>4, <1>5, <1>6, <1>7, <1>8, <1>9 DEF Next, Listen

\* However often, and in whatever order, a device answers the search of SSDP,
\* the scan reports it once per USN (the keys of discovery/ssdp.py).
THEOREM OnceHolds == Spec => []OncePerUsn
<1>1. OnceInv => OncePerUsn
  BY DEF OnceInv, Once, FromSsdp, OncePerUsn
<1> QED BY <1>1, OnceInit, OnceStep, PTL DEF Spec

-----------------------------------------------------------------------------
(* What a services scan hears is what it reports.                          *)

\* What is read of an answer is the community it carries.
LEMMA CommunityIsRead == ASSUME NEW ip, NEW oid PROVE ParseResponse(Response(ip, oid)) = Community
<1> DEFINE message == Response(ip, oid)
           strings == {i \in DOMAIN message : message[i].tag = "OCTET STRING"}
<1>1. /\ DOMAIN message = {1, 2, 3} /\ message[1].tag = "INTEGER"
      /\ message[2].tag = "OCTET STRING" /\ message[2].value = Community
      /\ message[3].tag = "PDU"
  <2> DEFINE version == [tag |-> "INTEGER", value |-> "version"]
             community == [tag |-> "OCTET STRING", value |-> Community]
             pdu == [tag |-> "PDU", value |-> Value(ip, oid)]
  <2>1. message = <<version, community, pdu>>
    BY Zenon DEF Response
  <2>2. version.tag = "INTEGER" /\ community.tag = "OCTET STRING"
        /\ community.value = Community /\ pdu.tag = "PDU"
    OBVIOUS
  <2> HIDE DEF message, version, community, pdu
  <2>3. DOMAIN message = {1, 2, 3}
    BY <2>1
  <2>4. message[1] = version /\ message[2] = community /\ message[3] = pdu
    BY <2>1
  <2> QED BY <2>2, <2>3, <2>4, Zenon
<1>2. strings = {2}
  BY <1>1
<1>3. Min({2}) = 2
  <2>1. \E x \in {2} : \A y \in {2} : x =< y
    OBVIOUS
  <2> QED BY <2>1 DEF Min
<1> HIDE DEF message, strings
<1>4. ParseResponse(message) = message[Min(strings)].value
  BY <1>2 DEF ParseResponse, strings
<1> QED BY <1>1, <1>2, <1>3, <1>4 DEF message

\* What an agent answers can be read: some value is got.
LEMMA AnswerIsRead == ASSUME NEW ip, NEW oid PROVE ParseResponse(Response(ip, oid)) # Nothing
BY CommunityIsRead, CommunityAssumption

LEMMA ValueIsKept == ASSUME NEW values, NEW oid, NEW val PROVE With(values, oid, val) # NoValues
<1>1. oid \in DOMAIN With(values, oid, val) /\ oid \notin DOMAIN NoValues
  BY DEF With, NoValues
<1> QED BY <1>1, Zenon

\* What a list of services says was heard.
Told(list) == {Answer(s.source, s.ip, s.id) : s \in Range(list)}

ToldBy(s) == Answer(s.source, s.ip, s.id)

LEMMA ToldAt == ASSUME NEW list PROVE Told(list) = {ToldBy(list[i]) : i \in DOMAIN list}
BY DEF Told, ToldBy, Range

LEMMA ToldAppend ==
  ASSUME NEW list, IsList(list), NEW x
  PROVE  Told(Append(list, x)) = Told(list) \cup {ToldBy(x)}
<1> DEFINE more == Append(list, x)
<1>1. /\ DOMAIN more = DOMAIN list \cup {Len(list) + 1}
      /\ \A i \in DOMAIN list : more[i] = list[i]
      /\ more[Len(list) + 1] = x
  BY AppendList, ListProperties
<1> HIDE DEF more
<1>2. {ToldBy(more[i]) : i \in DOMAIN more} = {ToldBy(list[i]) : i \in DOMAIN list} \cup {ToldBy(x)}
  BY <1>1
<1> QED BY <1>2, ToldAt DEF more

LEMMA ToldConcat ==
  ASSUME NEW s, NEW t, IsList(s), IsList(t)
  PROVE  Told(s \o t) = Told(s) \cup Told(t)
<1> DEFINE both == s \o t
<1>1. IsList(both) /\ Len(both) = Len(s) + Len(t)
  BY ConcatList
<1>2. /\ Len(s) \in Nat /\ DOMAIN s = 1..Len(s) /\ Len(t) \in Nat /\ DOMAIN t = 1..Len(t)
      /\ DOMAIN both = 1..(Len(s) + Len(t))
  BY <1>1, ListProperties
<1>3. \A i \in DOMAIN both : both[i] = IF i <= Len(s) THEN s[i] ELSE t[i - Len(s)]
  <2>1. PICK S : s \in Seq(S)
    BY DEF IsList
  <2>2. PICK T : t \in Seq(T)
    BY DEF IsList
  <2>3. s \in Seq(S \cup T) /\ t \in Seq(S \cup T)
    BY <2>1, <2>2, SeqMonotonic
  <2> QED BY <1>2, <2>3, ConcatProperties
<1> HIDE DEF both
<1>4. ASSUME NEW i \in DOMAIN both PROVE ToldBy(both[i]) \in Told(s) \cup Told(t)
  BY <1>2, <1>3, ToldAt
<1>5. ASSUME NEW i \in DOMAIN s PROVE ToldBy(s[i]) \in Told(both)
  <2>1. i \in DOMAIN both /\ both[i] = s[i]
    BY <1>2, <1>3
  <2> QED BY <2>1, ToldAt
<1>6. ASSUME NEW i \in DOMAIN t PROVE ToldBy(t[i]) \in Told(both)
  <2>1. Len(s) + i \in DOMAIN both /\ both[Len(s) + i] = t[i]
    BY <1>2, <1>3
  <2> QED BY <2>1, ToldAt
<1> QED BY <1>4, <1>5, <1>6, ToldAt DEF both

LEMMA ToldSet ==
  ASSUME NEW S, IsFiniteSet(S)
  PROVE  IsList(SetToSeq(S)) /\ Told(SetToSeq(S)) = {ToldBy(x) : x \in S}
<1> DEFINE n == Cardinality(S)
           list == SetToSeq(S)
<1>1. n \in Nat /\ \E f \in [1..n -> S] : IsInjective(f)
  BY FS_CardinalityType DEF ExistsBijection, Bijection, Injection, IsInjective
<1>2. list \in [1..n -> S] /\ IsInjective(list)
  BY <1>1 DEF SetToSeq
<1> HIDE DEF list
<1>3. list \in Injection(1..n, S)
  BY <1>2 DEF Injection, IsInjective
<1>4. Cardinality(1..n) = n
  BY <1>1, FS_Interval
<1>5. list \in Surjection(1..n, S)
  BY <1>3, <1>4, FS_Injection
<1>6. {ToldBy(list[i]) : i \in DOMAIN list} = {ToldBy(x) : x \in S}
  BY <1>2, <1>5 DEF Surjection
<1>7. IsList(list)
  BY SetAsList DEF list
<1> QED BY <1>6, <1>7, ToldAt DEF list

LEMMA ToldNothing == Told(<<>>) = {}
BY EmptyList, ToldAt

-----------------------------------------------------------------------------

\* The tasks of the gather: one that raised had heard nothing yet.
TasksInv ==
  /\ task = [mdns |-> task.mdns, ssdp |-> task.ssdp]
  /\ task.ssdp \in {"started", "raised"} => found.ssdp = <<>>
  /\ stage # "multicast" => {task.mdns, task.ssdp} \subseteq {"over", "raised"}
  /\ \A key \in seen : Answer("ssdp", key[1], key[2]) \in Told(found.ssdp)

\* The batch: an SNMP probe is answered if it has got a value.
BatchInv ==
  /\ stage \in {"multicast", "collect", "netbios", "snmp", "done", "raised"}
  /\ stage \notin {"netbios", "snmp"} => DOMAIN probe = {}
  /\ DOMAIN results = DOMAIN probe
  /\ stage = "snmp" => \A ip \in DOMAIN probe :
       /\ probe[ip] = "answered" => results[ip] # NoValues
       /\ probe[ip] = "failed" => results[ip] = NoValues

\* What is heard and not in the list of services yet.
Untold ==
  CASE stage = "multicast" -> Told(found.mdns) \cup Told(found.ssdp)
    [] stage = "netbios"   -> {Answer("netbios", ip, Nothing) : ip \in Answered}
    [] stage = "snmp"      -> {Answer("snmp", ip, Nothing) :
                                 ip \in {i \in DOMAIN probe : results[i] # NoValues}}
    [] stage \in {"collect", "done", "raised"} -> {}

HeardInv ==
  /\ OnceInv /\ TasksInv /\ BatchInv
  /\ stage = "multicast" => services = <<>>
  /\ heard = Told(services) \cup Untold

LEMMA HeardInit == Init => HeardInv
<1> SUFFICES ASSUME Init PROVE HeardInv
  OBVIOUS
<1>1. /\ task = [mdns |-> task.mdns, ssdp |-> task.ssdp]
      /\ stage = "multicast" /\ found.mdns = <<>> /\ found.ssdp = <<>> /\ seen = {}
      /\ probe = NoBatch /\ DOMAIN results = {} /\ services = <<>> /\ heard = {}
  BY DEF Init
<1>2. TasksInv /\ BatchInv
  BY <1>1 DEF TasksInv, BatchInv, NoBatch
<1>3. Untold = {}
  BY <1>1, ToldNothing DEF Untold
<1> QED BY <1>1, <1>2, <1>3, OnceInit, ToldNothing DEF HeardInv

\* A step of the gather.
LEMMA HeardMulticast ==
  ASSUME HeardInv, OnceInv', stage = "multicast", UNCHANGED <<stage, services, unicast>>,
         task' = [mdns |-> task'.mdns, ssdp |-> task'.ssdp],
         task'.ssdp \in {"started", "raised"} => found'.ssdp = <<>>,
         \A key \in seen' : Answer("ssdp", key[1], key[2]) \in Told(found'.ssdp),
         heard' = Told(found'.mdns) \cup Told(found'.ssdp)
  PROVE  HeardInv'
<1>1. TasksInv'
  BY DEF TasksInv
<1>2. BatchInv'
  BY DEF HeardInv, BatchInv, unicast
<1>3. Untold' = heard' /\ services' = <<>>
  BY DEF Untold, HeardInv
<1> QED BY <1>1, <1>2, <1>3, ToldNothing DEF HeardInv

LEMMA HeardListen ==
  ASSUME HeardInv, OnceInv', Listen \/ StopBrowsing \/ StopListening
  PROVE  HeardInv'
<1>0. OnceInv /\ TasksInv /\ BatchInv
  BY DEF HeardInv
<1>1. stage = "multicast"
  BY <1>0 DEF TasksInv, Listen, StartBrowsing, NoSocket, SendSearch, AddService, ReceiveReply,
              StopBrowsing, StopListening
<1>2. heard = Told(found.mdns) \cup Told(found.ssdp)
  BY <1>1, ToldNothing DEF HeardInv, Untold
<1>3. UNCHANGED <<stage, services, unicast>>
  BY DEF Listen, StartBrowsing, NoSocket, SendSearch, AddService, ReceiveReply, StopBrowsing,
         StopListening
<1>4. CASE StartBrowsing \/ StopBrowsing \/ NoSocket \/ SendSearch \/ StopListening
  <2>1. UNCHANGED <<found, seen, heard>>
    BY <1>4 DEF StartBrowsing, StopBrowsing, NoSocket, SendSearch, StopListening
  <2>2. task' = [mdns |-> task'.mdns, ssdp |-> task'.ssdp]
        /\ (task'.ssdp \in {"started", "raised"} => task.ssdp \in {"started", "raised"})
    BY <1>0, <1>4 DEF TasksInv, StartBrowsing, StopBrowsing, NoSocket, SendSearch, StopListening
  <2> QED BY <1>0, <1>1, <1>2, <1>3, <2>1, <2>2, HeardMulticast DEF TasksInv
<1>5. ASSUME NEW name \in Names, AddService(name) PROVE HeardInv'
  <2> DEFINE new == Service("mdns", Nothing, name, NoValues)
             list == Append(found.mdns, new)
  <2>1. ToldBy(new) = Answer("mdns", Nothing, name)
    BY DEF ToldBy, Service
  <2> HIDE DEF new
  <2>2. Told(list) = Told(found.mdns) \cup {ToldBy(new)}
    BY <1>0, ToldAppend DEF OnceInv, MdnsOk
  <2> HIDE DEF list
  <2>3. /\ found' = [found EXCEPT !.mdns = list] /\ UNCHANGED <<task, seen>>
        /\ heard' = heard \cup {Answer("mdns", Nothing, name)}
    BY <1>5, Zenon DEF AddService, list, new
  <2>4. found'.mdns = list /\ found'.ssdp = found.ssdp
    BY <1>0, <2>3 DEF OnceInv
  <2>5. heard' = Told(found'.mdns) \cup Told(found'.ssdp)
    BY <1>2, <2>1, <2>2, <2>3, <2>4
  <2> QED BY <1>0, <1>1, <1>3, <2>3, <2>4, <2>5, HeardMulticast DEF TasksInv
<1>6. ASSUME NEW r \in Replies, ReceiveReply(r) PROVE HeardInv'
  <2> DEFINE new == Service("ssdp", r.ip, r.usn, NoValues)
             list == Append(found.ssdp, new)
  <2>1. ToldBy(new) = Answer("ssdp", r.ip, r.usn)
    BY DEF ToldBy, Service
  <2> HIDE DEF new
  <2>2. Told(list) = Told(found.ssdp) \cup {ToldBy(new)}
    BY <1>0, ToldAppend DEF OnceInv, SsdpOk
  <2> HIDE DEF list
  <2>3. /\ task.ssdp = "listening" /\ UNCHANGED task
        /\ heard' = heard \cup {ToldBy(new)}
        /\ \/ Key(r) \in seen /\ UNCHANGED <<seen, found>>
           \/ seen' = seen \cup {Key(r)} /\ found' = [found EXCEPT !.ssdp = list]
    BY <1>6, <2>1, Zenon DEF ReceiveReply, list, new
  <2>4. CASE Key(r) \in seen /\ UNCHANGED <<seen, found>>
    <3>1. ToldBy(new) \in Told(found.ssdp)
      BY <1>0, <2>1, <2>4 DEF TasksInv, Key
    <3>2. heard' = heard
      BY <1>2, <2>3, <3>1
    <3> QED BY <1>0, <1>1, <1>2, <1>3, <2>3, <2>4, <3>2, HeardMulticast DEF TasksInv
  <2>5. CASE seen' = seen \cup {Key(r)} /\ found' = [found EXCEPT !.ssdp = list]
    <3>1. found'.ssdp = list /\ found'.mdns = found.mdns
      BY <1>0, <2>5 DEF OnceInv
    <3>2. heard' = Told(found'.mdns) \cup Told(found'.ssdp)
      BY <1>2, <2>2, <2>3, <3>1
    <3>3. \A key \in seen' : Answer("ssdp", key[1], key[2]) \in Told(found'.ssdp)
      BY <1>0, <2>1, <2>2, <2>5, <3>1 DEF TasksInv, Key
    <3> QED BY <1>0, <1>1, <1>3, <2>3, <3>2, <3>3, HeardMulticast DEF TasksInv
  <2> QED BY <2>3, <2>4, <2>5
<1> QED BY <1>4, <1>5, <1>6 DEF Listen

LEMMA HeardEndMulticast ==
  ASSUME HeardInv, OnceInv', EndMulticast
  PROVE  HeardInv'
<1>0. OnceInv /\ TasksInv /\ BatchInv
  BY DEF HeardInv
<1> DEFINE replies == IF task.ssdp = "raised" THEN <<>> ELSE found.ssdp
<1>1. /\ stage = "multicast" /\ {task.mdns, task.ssdp} \subseteq {"over", "raised"}
      /\ services' = found.mdns \o replies /\ stage' \in {"collect", "done"}
      /\ UNCHANGED <<task, found, seen, probe, results, heard>>
  <2>1. DOMAIN task = {"mdns", "ssdp"}
    BY <1>0 DEF TasksInv
  <2>2. \A t \in DOMAIN task : task[t] \in {"over", "raised"}
    BY DEF EndMulticast
  <2>3. task.mdns \in {"over", "raised"} /\ task.ssdp \in {"over", "raised"}
    BY <2>1, <2>2
  <2> QED BY <2>3 DEF EndMulticast, multicast, unicast
<1>2. replies = found.ssdp
  BY <1>0 DEF TasksInv
<1>3. Told(services') = Told(found.mdns) \cup Told(found.ssdp)
  BY <1>0, <1>1, <1>2, ToldConcat DEF OnceInv, MdnsOk, SsdpOk
<1>4. heard = Told(found.mdns) \cup Told(found.ssdp)
  BY <1>1, ToldNothing DEF HeardInv, Untold
<1>5. TasksInv' /\ BatchInv'
  BY <1>0, <1>1 DEF TasksInv, BatchInv
<1>6. Untold' = {}
  BY <1>1 DEF Untold
<1> QED BY <1>1, <1>3, <1>4, <1>5, <1>6 DEF HeardInv

\* The next batch begins with nothing untold.
LEMMA HeardAsk ==
  ASSUME HeardInv, OnceInv', stage # "multicast",
         NEW next \in {"netbios", "snmp", "done"}, NEW ips, Ask(next, ips),
         next = "done" => ips = {}, UNCHANGED <<task, found, seen, heard>>,
         heard = Told(services')
  PROVE  HeardInv'
<1>1. /\ stage' = next /\ DOMAIN probe' = ips /\ DOMAIN results' = ips
      /\ \A ip \in ips : probe'[ip] = "queued" /\ results'[ip] = NoValues
  BY DEF Ask
<1>2. TasksInv' /\ BatchInv'
  BY <1>1 DEF HeardInv, TasksInv, BatchInv
<1>3. Untold' = {}
  BY <1>1 DEF Untold, Answered
<1> QED BY <1>1, <1>2, <1>3 DEF HeardInv

LEMMA HeardCollectIps ==
  ASSUME HeardInv, OnceInv', CollectIps
  PROVE  HeardInv'
<1>1. PICK ips \in Collected :
        Ask(IF ips = {} THEN "done" ELSE IF opts.netbios THEN "netbios" ELSE "snmp", ips)
  BY DEF CollectIps
<1>2. stage = "collect" /\ UNCHANGED <<task, found, seen, services, heard>>
  BY DEF CollectIps, multicast
<1>3. heard = Told(services')
  BY <1>2 DEF HeardInv, Untold
<1> DEFINE next == IF ips = {} THEN "done" ELSE IF opts.netbios THEN "netbios" ELSE "snmp"
<1>4. next \in {"netbios", "snmp", "done"} /\ (next = "done" => ips = {})
  OBVIOUS
<1> HIDE DEF next
<1> QED BY <1>1, <1>2, <1>3, <1>4, HeardAsk DEF next

\* Answers of a batch join the list when it is over.
LEMMA HeardAdded ==
  ASSUME OnceInv, NEW answer, NEW S, S \subseteq DOMAIN probe, DOMAIN answer = S,
         services' = services \o SetToSeq({answer[ip] : ip \in S})
  PROVE  Told(services') = Told(services) \cup {ToldBy(answer[ip]) : ip \in S}
<1> DEFINE news == {answer[ip] : ip \in S}
<1>1. IsFiniteSet(news)
  <2>1. IsFiniteSet(S)
    BY FS_Subset DEF OnceInv
  <2> DEFINE f == [ip \in S |-> answer[ip]]
  <2>2. f \in Surjection(S, news)
    BY DEF Surjection
  <2> QED BY <2>1, <2>2, FS_Surjection
<1>2. {ToldBy(x) : x \in news} = {ToldBy(answer[ip]) : ip \in S}
  OBVIOUS
<1> HIDE DEF news
<1>3. IsList(SetToSeq(news)) /\ Told(SetToSeq(news)) = {ToldBy(x) : x \in news}
  BY <1>1, ToldSet
<1>4. Told(services') = Told(services) \cup Told(SetToSeq(news))
  BY <1>3, ToldConcat DEF OnceInv, news
<1> QED BY <1>2, <1>3, <1>4

LEMMA HeardEndNetbios ==
  ASSUME HeardInv, OnceInv', EndNetbios
  PROVE  HeardInv'
<1> DEFINE answer == [ip \in Answered |-> Service("netbios", ip, Nothing, NoValues)]
<1>1. services' = services \o SetToSeq({answer[ip] : ip \in Answered})
  <2>1. {answer[ip] : ip \in Answered} = {Service("netbios", ip, Nothing, NoValues) : ip \in Answered}
    OBVIOUS
  <2> QED BY <2>1 DEF EndNetbios
<1>2. \A ip \in Answered : ToldBy(answer[ip]) = Answer("netbios", ip, Nothing)
  BY DEF ToldBy, Service
<1>3. DOMAIN answer = Answered /\ Answered \subseteq DOMAIN probe
  BY DEF Answered
<1> HIDE DEF answer
<1>4. Told(services') = Told(services) \cup {ToldBy(answer[ip]) : ip \in Answered}
  BY <1>1, <1>3, HeardAdded DEF HeardInv
<1>5. stage = "netbios" /\ UNCHANGED <<task, found, seen, heard>>
  BY DEF EndNetbios, multicast
<1>6. heard = Told(services')
  BY <1>2, <1>4, <1>5 DEF HeardInv, Untold
<1>7. Ask("snmp", DOMAIN probe) \/ Ask("done", {})
  BY DEF EndNetbios
<1> QED BY <1>5, <1>6, <1>7, HeardAsk

LEMMA HeardEndSnmp ==
  ASSUME HeardInv, OnceInv', EndSnmp
  PROVE  HeardInv'
<1> DEFINE answer == [ip \in Answered |-> Service("snmp", ip, Nothing, results[ip])]
<1>1. services' = services \o SetToSeq({answer[ip] : ip \in Answered})
  <2>1. {answer[ip] : ip \in Answered} = {Service("snmp", ip, Nothing, results[ip]) : ip \in Answered}
    OBVIOUS
  <2> QED BY <2>1 DEF EndSnmp
<1>2. \A ip \in Answered : ToldBy(answer[ip]) = Answer("snmp", ip, Nothing)
  BY DEF ToldBy, Service
<1>3. DOMAIN answer = Answered /\ Answered \subseteq DOMAIN probe
  BY DEF Answered
<1> HIDE DEF answer
<1>4. Told(services') = Told(services) \cup {ToldBy(answer[ip]) : ip \in Answered}
  BY <1>1, <1>3, HeardAdded DEF HeardInv
<1>5. /\ stage = "snmp" /\ Gathered /\ Ask("done", {})
      /\ UNCHANGED <<task, found, seen, heard>>
  BY DEF EndSnmp, multicast
<1>6. {i \in DOMAIN probe : results[i] # NoValues} = Answered
  BY <1>5 DEF HeardInv, BatchInv, Gathered, Answered
<1>7. heard = Told(services')
  BY <1>2, <1>4, <1>5, <1>6 DEF HeardInv, Untold
<1> QED BY <1>5, <1>7, HeardAsk

\* A probe changes its state, and may be answered.
LEMMA HeardProbing ==
  ASSUME HeardInv, OnceInv', Probing
  PROVE  HeardInv'
<1>0. OnceInv /\ TasksInv /\ BatchInv
  BY DEF HeardInv
<1>1. UNCHANGED <<stage, task, found, seen, services>>
  BY DEF Probing, StartProbe, AnswerName, FailName, AnswerOid, FailOid, multicast
<1>2. PICK ip \in DOMAIN probe :
        StartProbe(ip) \/ AnswerName(ip) \/ FailName(ip) \/ AnswerOid(ip) \/ FailOid(ip)
  BY DEF Probing
<1>3. stage \in {"netbios", "snmp"} /\ TasksInv'
  BY <1>0, <1>1, <1>2 DEF BatchInv, TasksInv
<1>4. ASSUME NEW p, probe' = [probe EXCEPT ![ip] = p], p # "answered", probe[ip] # "answered",
             stage = "snmp" => p # "failed", UNCHANGED <<results, heard>>
      PROVE  HeardInv'
  <2>1. BatchInv'
    BY <1>0, <1>1, <1>4 DEF BatchInv
  <2>2. Untold' = Untold
    BY <1>1, <1>3, <1>4 DEF Untold, Answered
  <2> QED BY <1>1, <1>3, <1>4, <2>1, <2>2 DEF HeardInv
<1>5. CASE StartProbe(ip)
  BY <1>4, <1>5 DEF StartProbe
<1>6. CASE FailName(ip)
  BY <1>4, <1>6 DEF FailName
<1>7. CASE AnswerName(ip)
  <2>1. BatchInv'
    BY <1>0, <1>1, <1>7 DEF AnswerName, BatchInv
  <2>2. Untold' = Untold \cup {Answer("netbios", ip, Nothing)}
    BY <1>1, <1>7 DEF AnswerName, Untold, Answered
  <2> QED BY <1>1, <1>3, <1>7, <2>1, <2>2 DEF HeardInv, AnswerName
<1>8. ASSUME NEW got, Asking(ip), Progress(ip, got),
             got = NoValues => results[ip] = NoValues /\ heard' = heard,
             got # NoValues => heard' = heard \cup {Answer("snmp", ip, Nothing)}
      PROVE  HeardInv'
  <2> DEFINE p == IF asked[ip] + 1 < Len(Oids) THEN "running"
                  ELSE IF got = NoValues THEN "failed" ELSE "answered"
  <2>1. /\ stage = "snmp" /\ results' = [results EXCEPT ![ip] = got]
        /\ probe' = [probe EXCEPT ![ip] = p]
        /\ p = "answered" => got # NoValues
        /\ p = "failed" => got = NoValues
    BY <1>8 DEF Asking, Progress
  <2> HIDE DEF p
  <2>2. BatchInv'
    BY <1>0, <1>1, <2>1 DEF BatchInv
  <2>3. ip \in DOMAIN results /\ DOMAIN results = DOMAIN probe
    BY <1>0 DEF BatchInv
  <2>4. Untold' = Untold \cup (IF got = NoValues THEN {} ELSE {Answer("snmp", ip, Nothing)})
    BY <1>1, <1>8, <2>1, <2>3 DEF Untold
  <2> QED BY <1>1, <1>3, <1>8, <2>2, <2>4 DEF HeardInv
<1>9. CASE AnswerOid(ip)
  <2> DEFINE oid == Oids[asked[ip] + 1]
             got == With(results[ip], oid, ParseResponse(Response(ip, oid)))
  <2>1. ParseResponse(Response(ip, oid)) # Nothing
    BY AnswerIsRead
  <2>2. /\ Asking(ip) /\ heard' = heard \cup {Answer("snmp", ip, Nothing)}
        /\ Progress(ip, got)
    BY <1>9, <2>1, Zenon DEF AnswerOid
  <2>3. got # NoValues
    BY ValueIsKept
  <2> HIDE DEF got, oid
  <2> QED BY <1>8, <2>2, <2>3
<1>10. CASE FailOid(ip)
  <2>1. Asking(ip) /\ Progress(ip, results[ip]) /\ heard' = heard
    BY <1>10 DEF FailOid
  <2>2. results[ip] # NoValues => heard' = heard \cup {Answer("snmp", ip, Nothing)}
    BY <2>1 DEF HeardInv, Untold, Asking
  <2> QED BY <1>8, <2>1, <2>2
<1> QED BY <1>2, <1>5, <1>6, <1>7, <1>9, <1>10

LEMMA HeardStep == HeardInv /\ [Next]_vars => HeardInv'
<1> SUFFICES ASSUME HeardInv, [Next]_vars PROVE HeardInv'
  OBVIOUS
<1>1. OnceInv'
  BY OnceStep DEF HeardInv
<1>2. CASE Listen \/ StopBrowsing \/ StopListening
  BY <1>1, <1>2, HeardListen
<1>3. CASE EndMulticast
  BY <1>1, <1>3, HeardEndMulticast
<1>4. CASE CollectIps
  BY <1>1, <1>4, HeardCollectIps
<1>5. CASE Probing
  BY <1>1, <1>5, HeardProbing
<1>6. CASE EndNetbios
  BY <1>1, <1>6, HeardEndNetbios
<1>7. CASE EndSnmp
  BY <1>1, <1>7, HeardEndSnmp
<1>8. CASE UNCHANGED vars
  BY <1>1, <1>8 DEF HeardInv, TasksInv, BatchInv, Untold, Answered, vars, multicast, unicast
<1>9. CASE RaiseCollect
  <2>1. stage = "collect" /\ stage' = "raised" /\ UNCHANGED <<task, found, seen, services, heard>>
        /\ UNCHANGED <<probe, asked, results>>
    BY <1>9 DEF RaiseCollect, multicast, unicast
  <2> QED BY <1>1, <2>1 DEF HeardInv, TasksInv, BatchInv, Untold
<1> QED BY <1>2, <1>3, <1>4, <1>5, <1>6, <1>7, <1>8, <1>9 DEF Next

\* Whatever comes in whatever order, and whichever discovery fails, a scan
\* that ends reports what it heard and nothing else.
THEOREM HeardHolds == Spec => []HeardIsReported
<1>1. HeardInv => HeardIsReported
  BY DEF HeardInv, Untold, HeardIsReported, Told
<1> QED BY <1>1, HeardInit, HeardStep, PTL DEF Spec

-----------------------------------------------------------------------------
(* Types, and the bound a semaphore sets to a batch.                       *)

TaskStates == {"started", "listening", "over", "raised"}

ProbesTyped ==
  /\ DOMAIN probe \subseteq IPs /\ \A ip \in DOMAIN probe : probe[ip] \in States
  /\ DOMAIN asked = DOMAIN probe /\ \A ip \in DOMAIN probe : asked[ip] \in 0..4
  /\ DOMAIN results = DOMAIN probe
  /\ \A ip \in DOMAIN probe : DOMAIN results[ip] \subseteq Range(Oids)
  /\ IsFiniteSet(Running) /\ Cardinality(Running) <= Slots

ListsTyped ==
  /\ task.mdns \in TaskStates /\ task.ssdp \in TaskStates
  /\ seen \subseteq {Key(r) : r \in Replies}
  /\ heard \subseteq [source : Sources, ip : Senders, id : Ids]
  /\ Told(found.mdns) \cup Told(found.ssdp) \subseteq heard

TypeInv == HeardInv /\ ProbesTyped /\ ListsTyped

LEMMA OidsList ==
  /\ Len(Oids) = 4 /\ DOMAIN Oids = 1..4
  /\ \A n \in 0..4 : n < 4 => Oids[n + 1] \in Range(Oids)
BY DEF Oids, Range

LEMMA TypeInvGives == TypeInv => TypeOK
<1> SUFFICES ASSUME TypeInv PROVE TypeOK
  OBVIOUS
<1>1. task \in [{"mdns", "ssdp"} -> TaskStates]
  BY DEF TypeInv, HeardInv, TasksInv, ListsTyped
<1>2. opts \in Options /\ stage \in {"multicast", "collect", "netbios", "snmp", "done", "raised"}
  BY DEF TypeInv, HeardInv, OnceInv, BatchInv
<1>3. \A list \in {found.mdns, found.ssdp, services} : Told(list) \subseteq heard
  BY DEF TypeInv, ListsTyped, HeardInv
<1>4. \A list \in {found.mdns, found.ssdp, services} : \A s \in Range(list) :
        Answer(s.source, s.ip, s.id) \in heard
  BY <1>3 DEF Told
<1> QED BY <1>1, <1>2, <1>4, OidsList DEF TypeOK, TypeInv, ProbesTyped, ListsTyped, TaskStates

LEMMA TypeInit == Init => TypeInv
<1> SUFFICES ASSUME Init PROVE TypeInv
  OBVIOUS
<1>1. /\ task.mdns \in TaskStates /\ task.ssdp \in TaskStates
      /\ found.mdns = <<>> /\ found.ssdp = <<>> /\ seen = {} /\ heard = {}
      /\ DOMAIN probe = {} /\ DOMAIN asked = {} /\ DOMAIN results = {}
  BY DEF Init, NoBatch, TaskStates
<1>2. Running = {} /\ IsFiniteSet({}) /\ Cardinality({}) = 0
  BY <1>1, FS_EmptySet DEF Running
<1> QED BY <1>1, <1>2, HeardInit, ToldNothing, SlotsAssumption DEF TypeInv, ProbesTyped, ListsTyped

\* A step that starts no probe.
LEMMA FewerRunning ==
  ASSUME ProbesTyped, Running' \subseteq Running
  PROVE  IsFiniteSet(Running)' /\ (Cardinality(Running) <= Slots)'
<1>1. IsFiniteSet(Running) /\ Cardinality(Running) \in Nat /\ Cardinality(Running) <= Slots
  BY FS_CardinalityType DEF ProbesTyped
<1>2. IsFiniteSet(Running') /\ Cardinality(Running') <= Cardinality(Running)
      /\ Cardinality(Running') \in Nat
  BY <1>1, FS_Subset, FS_CardinalityType
<1> QED BY <1>1, <1>2, SlotsAssumption

LEMMA ProbesAsk ==
  ASSUME ProbesTyped, NEW next, NEW ips \in SUBSET IPs, Ask(next, ips)
  PROVE  ProbesTyped'
<1>1. /\ DOMAIN probe' = ips /\ DOMAIN asked' = ips /\ DOMAIN results' = ips
      /\ \A ip \in ips : probe'[ip] = "queued" /\ asked'[ip] = 0 /\ results'[ip] = NoValues
  BY DEF Ask
<1>2. Running' = {}
  BY <1>1 DEF Running
<1>3. DOMAIN NoValues = {}
  BY DEF NoValues
<1>4. IsFiniteSet(Running)' /\ (Cardinality(Running) <= Slots)'
  BY <1>2, FewerRunning
<1> QED BY <1>1, <1>3, <1>4 DEF ProbesTyped, States

LEMMA ProbesStep ==
  ASSUME HeardInv, ProbesTyped, [Next]_vars
  PROVE  ProbesTyped'
<1>1. CASE UNCHANGED unicast
  BY <1>1, Zenon DEF ProbesTyped, unicast, Running
<1>2. CASE CollectIps
  <2>1. PICK ips \in Collected : \E next : Ask(next, ips)
    BY <1>2 DEF CollectIps
  <2>2. opts.target \in {"range", "host", "other"}
    BY OptionsAssumption DEF HeardInv, OnceInv
  <2>3. ips \in SUBSET IPs
    BY <2>2, TargetAssumption DEF Collected
  <2> QED BY <2>1, <2>3, ProbesAsk
<1>3. CASE EndNetbios \/ EndSnmp
  <2>1. PICK ips \in {DOMAIN probe, {}} : \E next : Ask(next, ips)
    BY <1>3 DEF EndNetbios, EndSnmp
  <2> QED BY <2>1, ProbesAsk DEF ProbesTyped
<1>4. CASE Probing
  <2>1. PICK ip \in DOMAIN probe :
          StartProbe(ip) \/ AnswerName(ip) \/ FailName(ip) \/ AnswerOid(ip) \/ FailOid(ip)
    BY <1>4 DEF Probing
  <2>2. CASE StartProbe(ip)
    <3>1. /\ Running' = Running \cup {ip} /\ ip \notin Running
      BY <2>2 DEF StartProbe, Running
    <3>2. IsFiniteSet(Running') /\ Cardinality(Running') = Cardinality(Running) + 1
      BY <3>1, FS_AddElement DEF ProbesTyped
    <3>3. Cardinality(Running) \in Nat /\ Cardinality(Running) < Slots
      BY <2>2, FS_CardinalityType DEF ProbesTyped, StartProbe
    <3>4. Cardinality(Running') <= Slots
      BY <3>2, <3>3, SlotsAssumption
    <3>5. probe' = [probe EXCEPT ![ip] = "running"] /\ UNCHANGED <<asked, results>>
      BY <2>2 DEF StartProbe
    <3> QED BY <3>2, <3>4, <3>5 DEF ProbesTyped, States
  <2>3. CASE AnswerName(ip) \/ FailName(ip)
    <3>1. PICK p \in {"answered", "failed"} : probe' = [probe EXCEPT ![ip] = p]
      BY <2>3 DEF AnswerName, FailName
    <3>2. Running' \subseteq Running
      BY <3>1 DEF Running
    <3>3. UNCHANGED <<asked, results>>
      BY <2>3 DEF AnswerName, FailName
    <3> QED BY <3>1, <3>2, <3>3, FewerRunning DEF ProbesTyped, States
  <2>4. ASSUME NEW got, Asking(ip), Progress(ip, got), DOMAIN got \subseteq Range(Oids)
        PROVE  ProbesTyped'
    <3>1. PICK p \in {"running", "answered", "failed"} : probe' = [probe EXCEPT ![ip] = p]
      BY <2>4 DEF Progress
    <3>2. /\ asked' = [asked EXCEPT ![ip] = asked[ip] + 1]
          /\ results' = [results EXCEPT ![ip] = got]
          /\ probe[ip] = "running" /\ asked[ip] < 4
      BY <2>4, OidsList DEF Progress, Asking
    <3>3. Running' \subseteq Running
      BY <3>1, <3>2 DEF Running
    <3>4. asked[ip] + 1 \in 0..4
      BY <3>2 DEF ProbesTyped
    <3> QED BY <2>4, <3>1, <3>2, <3>3, <3>4, FewerRunning DEF ProbesTyped, States
  <2>5. CASE AnswerOid(ip)
    <3> DEFINE oid == Oids[asked[ip] + 1]
               got == With(results[ip], oid, ParseResponse(Response(ip, oid)))
    <3>1. Asking(ip) /\ asked[ip] \in 0..4 /\ asked[ip] < 4 /\ DOMAIN results[ip] \subseteq Range(Oids)
      BY <2>5, OidsList DEF AnswerOid, Asking, ProbesTyped
    <3>2. Progress(ip, got)
      BY <2>5, AnswerIsRead, Zenon DEF AnswerOid
    <3>3. oid \in Range(Oids)
      BY <3>1, OidsList
    <3> HIDE DEF oid
    <3>4. DOMAIN got \subseteq Range(Oids)
      BY <3>1, <3>3 DEF With
    <3> HIDE DEF got
    <3> QED BY <2>4, <3>1, <3>2, <3>4
  <2>6. CASE FailOid(ip)
    BY <2>4, <2>6 DEF FailOid, ProbesTyped
  <2> QED BY <2>1, <2>2, <2>3, <2>5, <2>6
<1>5. CASE Listen \/ StopBrowsing \/ StopListening \/ EndMulticast
  BY <1>1, <1>5 DEF Listen, StartBrowsing, NoSocket, SendSearch, AddService, ReceiveReply,
                    StopBrowsing, StopListening, EndMulticast
<1>6. CASE UNCHANGED vars
  BY <1>1, <1>6 DEF vars, unicast
<1>7. CASE RaiseCollect
  BY <1>1, <1>7 DEF RaiseCollect
<1> QED BY <1>2, <1>3, <1>4, <1>5, <1>6, <1>7 DEF Next

LEMMA ListsStep ==
  ASSUME HeardInv, HeardInv', ProbesTyped, ListsTyped, [Next]_vars
  PROVE  ListsTyped'
<1>1. task'.mdns \in TaskStates /\ task'.ssdp \in TaskStates
  <2>1. task = [mdns |-> task.mdns, ssdp |-> task.ssdp]
    BY DEF HeardInv, TasksInv
  <2>2. CASE UNCHANGED task
    BY <2>2 DEF ListsTyped
  <2>3. CASE StartBrowsing \/ NoSocket \/ SendSearch \/ StopBrowsing \/ StopListening
    BY <2>1, <2>3 DEF StartBrowsing, NoSocket, SendSearch, StopBrowsing, StopListening,
                      ListsTyped, TaskStates
  <2> QED BY <2>2, <2>3 DEF Next, Listen, AddService, ReceiveReply, EndMulticast, CollectIps,
        RaiseCollect, EndNetbios, EndSnmp, Probing, StartProbe, AnswerName, FailName, AnswerOid,
        FailOid, multicast, vars
<1>2. seen' \subseteq {Key(r) : r \in Replies}
  <2>1. CASE UNCHANGED seen
    BY <2>1 DEF ListsTyped
  <2>2. CASE \E r \in Replies : ReceiveReply(r)
    BY <2>2 DEF ReceiveReply, ListsTyped
  <2> QED BY <2>1, <2>2 DEF Next, Listen, StartBrowsing, NoSocket, SendSearch, AddService,
        StopBrowsing, StopListening, EndMulticast, CollectIps, RaiseCollect, EndNetbios, EndSnmp,
        Probing, StartProbe, AnswerName, FailName, AnswerOid, FailOid, multicast, vars
<1>3. heard \subseteq heard' /\ heard' \subseteq [source : Sources, ip : Senders, id : Ids]
  <2>1. CASE UNCHANGED heard
    BY <2>1 DEF ListsTyped
  <2>2. ASSUME NEW source \in Sources, NEW ip \in Senders, NEW id \in Ids,
               heard' = heard \cup {Answer(source, ip, id)}
        PROVE  heard \subseteq heard' /\ heard' \subseteq [source : Sources, ip : Senders, id : Ids]
    BY <2>2 DEF ListsTyped, Answer
  <2>3. CASE \E name \in Names : AddService(name)
    <3>1. PICK name \in Names : heard' = heard \cup {Answer("mdns", Nothing, name)}
      BY <2>3 DEF AddService
    <3>2. "mdns" \in Sources /\ Nothing \in Senders /\ name \in Ids
      BY DEF Sources, Senders, Ids
    <3> QED BY <2>2, <3>1, <3>2
  <2>4. CASE \E r \in Replies : ReceiveReply(r)
    <3>1. PICK r \in Replies : heard' = heard \cup {Answer("ssdp", r.ip, r.usn)}
      BY <2>4 DEF ReceiveReply
    <3>2. "ssdp" \in Sources /\ r.ip \in Senders /\ r.usn \in Ids
      BY DEF Sources, Senders, Ids
    <3> QED BY <2>2, <3>1, <3>2
  <2>5. CASE \E ip \in DOMAIN probe : AnswerName(ip) \/ AnswerOid(ip)
    <3>1. PICK ip \in DOMAIN probe, source \in {"netbios", "snmp"} :
            heard' = heard \cup {Answer(source, ip, Nothing)}
      BY <2>5 DEF AnswerName, AnswerOid
    <3> QED BY <2>2, <3>1 DEF Sources, Senders, Ids, ProbesTyped
  <2> QED BY <2>1, <2>3, <2>4, <2>5 DEF Next, Listen, StartBrowsing, NoSocket, SendSearch,
        StopBrowsing, StopListening, EndMulticast, CollectIps, RaiseCollect, EndNetbios, EndSnmp,
        Probing, StartProbe, FailName, FailOid, vars
<1>4. Told(found'.mdns) \cup Told(found'.ssdp) \subseteq heard'
  <2>1. CASE UNCHANGED found
    BY <1>3, <2>1 DEF ListsTyped
  <2>2. CASE \/ \E name \in Names : AddService(name)
             \/ \E r \in Replies : ReceiveReply(r)
    <3>1. stage' = "multicast"
      BY <2>2 DEF AddService, ReceiveReply, HeardInv, TasksInv
    <3> QED BY <3>1 DEF HeardInv, Untold
  <2> QED BY <2>1, <2>2 DEF Next, Listen, StartBrowsing, NoSocket, SendSearch,
        StopBrowsing, StopListening, EndMulticast, CollectIps, RaiseCollect, EndNetbios, EndSnmp,
        Probing, StartProbe, AnswerName, FailName, AnswerOid, FailOid, multicast, vars
<1> QED BY <1>1, <1>2, <1>3, <1>4 DEF ListsTyped

LEMMA TypeStep == TypeInv /\ [Next]_vars => TypeInv'
BY HeardStep, ProbesStep, ListsStep DEF TypeInv

\* The variables have their types, no more probes run than there are slots,
\* and no list holds what was not heard, for every range of addresses.
THEOREM TypesHold == Spec => []TypeOK
BY TypeInit, TypeStep, TypeInvGives, PTL DEF Spec

-----------------------------------------------------------------------------
(* What a scan takes for the values of an agent.                           *)

\* No value is anything but the community.
Parrots(values) == \A oid \in DOMAIN values : values[oid] = Community

ParrotsInv ==
  /\ \A list \in {found.mdns, found.ssdp, services} : \A i \in DOMAIN list :
       Parrots(list[i].properties)
  /\ \A ip \in DOMAIN results : Parrots(results[ip])

LEMMA NothingParrots == Parrots(NoValues)
BY DEF Parrots, NoValues

LEMMA ParrotsInit == Init => ParrotsInv
BY EmptyList DEF Init, ParrotsInv

\* One more in a list.
LEMMA ParrotsAppended ==
  ASSUME NEW list, IsList(list), NEW x, Parrots(x.properties),
         \A i \in DOMAIN list : Parrots(list[i].properties)
  PROVE  \A i \in DOMAIN Append(list, x) : Parrots(Append(list, x)[i].properties)
<1> DEFINE more == Append(list, x)
<1>1. /\ DOMAIN more = DOMAIN list \cup {Len(list) + 1}
      /\ \A i \in DOMAIN list : more[i] = list[i]
      /\ more[Len(list) + 1] = x
  BY AppendList, ListProperties
<1> HIDE DEF more
<1>2. \A i \in DOMAIN more : Parrots(more[i].properties)
  BY <1>1
<1> QED BY <1>2 DEF more

\* Two lists joined.
LEMMA ParrotsJoined ==
  ASSUME NEW s, NEW t, IsList(s), IsList(t), \A i \in DOMAIN s : Parrots(s[i].properties),
         \A i \in DOMAIN t : Parrots(t[i].properties)
  PROVE  \A i \in DOMAIN (s \o t) : Parrots((s \o t)[i].properties)
BY ConcatList

\* The answers of a batch in a list.
LEMMA ParrotsBatch ==
  ASSUME NEW S, IsFiniteSet(S), NEW answer, \A ip \in S : Parrots(answer[ip].properties)
  PROVE  LET list == SetToSeq({answer[ip] : ip \in S})
         IN  IsList(list) /\ \A i \in DOMAIN list : Parrots(list[i].properties)
<1> DEFINE news == {answer[ip] : ip \in S}
           f == [ip \in S |-> answer[ip]]
<1>1. f \in Surjection(S, news)
  BY DEF Surjection
<1>2. IsFiniteSet(news) /\ \A x \in news : Parrots(x.properties)
  BY <1>1, FS_Surjection
<1> HIDE DEF news
<1>3. /\ IsList(SetToSeq(news))
      /\ \A i \in DOMAIN SetToSeq(news) : Parrots(SetToSeq(news)[i].properties)
  BY <1>2, SetAsList
<1> QED BY <1>3 DEF news

LEMMA ParrotsStep == TypeInv /\ ParrotsInv /\ [Next]_vars => ParrotsInv'
<1> SUFFICES ASSUME TypeInv, ParrotsInv, [Next]_vars PROVE ParrotsInv'
  OBVIOUS
<1>0. /\ IsList(found.mdns) /\ IsList(found.ssdp) /\ IsList(services)
      /\ found = [mdns |-> found.mdns, ssdp |-> found.ssdp]
      /\ IsFiniteSet(DOMAIN probe) /\ DOMAIN results = DOMAIN probe
  BY DEF TypeInv, HeardInv, OnceInv, MdnsOk, SsdpOk, ProbesTyped
<1>1. \A source, ip, id, values : Service(source, ip, id, values).properties = values
  BY DEF Service
<1>2. ASSUME UNCHANGED results, UNCHANGED services, UNCHANGED found PROVE ParrotsInv'
  BY <1>2, Zenon DEF ParrotsInv
<1>3. ASSUME NEW name \in Names, AddService(name) PROVE ParrotsInv'
  <2> DEFINE x == Service("mdns", Nothing, name, NoValues)
  <2>1. /\ found'.mdns = Append(found.mdns, x) /\ found'.ssdp = found.ssdp
        /\ UNCHANGED <<services, results>>
    BY <1>0, <1>3 DEF AddService, unicast
  <2>2. Parrots(x.properties)
    BY <1>1, NothingParrots
  <2> HIDE DEF x
  <2>3. \A i \in DOMAIN found'.mdns : Parrots(found'.mdns[i].properties)
    BY <1>0, <2>1, <2>2, ParrotsAppended DEF ParrotsInv
  <2> QED BY <2>1, <2>3 DEF ParrotsInv
<1>4. ASSUME NEW r \in Replies, ReceiveReply(r), found' # found PROVE ParrotsInv'
  <2> DEFINE x == Service("ssdp", r.ip, r.usn, NoValues)
  <2>1. /\ found'.ssdp = Append(found.ssdp, x) /\ found'.mdns = found.mdns
        /\ UNCHANGED <<services, results>>
    BY <1>0, <1>4 DEF ReceiveReply, unicast
  <2>2. Parrots(x.properties)
    BY <1>1, NothingParrots
  <2> HIDE DEF x
  <2>3. \A i \in DOMAIN found'.ssdp : Parrots(found'.ssdp[i].properties)
    BY <1>0, <2>1, <2>2, ParrotsAppended DEF ParrotsInv
  <2> QED BY <2>1, <2>3 DEF ParrotsInv
<1>5. CASE EndMulticast
  <2> DEFINE replies == IF task.ssdp = "raised" THEN <<>> ELSE found.ssdp
  <2>1. services' = found.mdns \o replies /\ UNCHANGED <<found, results>>
    BY <1>5 DEF EndMulticast, multicast, unicast
  <2>2. IsList(replies) /\ \A i \in DOMAIN replies : Parrots(replies[i].properties)
    BY <1>0, EmptyList DEF ParrotsInv
  <2> HIDE DEF replies
  <2>3. \A i \in DOMAIN services' : Parrots(services'[i].properties)
    BY <1>0, <2>1, <2>2, ParrotsJoined DEF ParrotsInv
  <2> QED BY <2>1, <2>3 DEF ParrotsInv
<1>6. ASSUME NEW next, NEW ips, Ask(next, ips) PROVE \A ip \in DOMAIN results' : Parrots(results'[ip])
  BY <1>6, NothingParrots DEF Ask
<1>7. CASE CollectIps
  <2>1. UNCHANGED <<found, services>> /\ \E next, ips : Ask(next, ips)
    BY <1>7 DEF CollectIps, multicast
  <2> QED BY <1>6, <2>1 DEF ParrotsInv
<1>8. ASSUME NEW answer, \A ip \in Answered : Parrots(answer[ip].properties),
             services' = services \o SetToSeq({answer[ip] : ip \in Answered}),
             UNCHANGED found, \E next, ips : Ask(next, ips)
      PROVE  ParrotsInv'
  <2> DEFINE list == SetToSeq({answer[ip] : ip \in Answered})
  <2>1. IsFiniteSet(Answered)
    BY <1>0, FS_Subset DEF Answered
  <2>2. IsList(list) /\ \A i \in DOMAIN list : Parrots(list[i].properties)
    BY <1>8, <2>1, ParrotsBatch
  <2>3. services' = services \o list
    BY <1>8
  <2> HIDE DEF list
  <2>4. \A i \in DOMAIN services' : Parrots(services'[i].properties)
    BY <1>0, <2>2, <2>3, ParrotsJoined DEF ParrotsInv
  <2> QED BY <1>6, <1>8, <2>4 DEF ParrotsInv
<1>9. CASE EndNetbios
  <2> DEFINE answer == [ip \in Answered |-> Service("netbios", ip, Nothing, NoValues)]
  <2>1. {answer[ip] : ip \in Answered} = {Service("netbios", ip, Nothing, NoValues) : ip \in Answered}
    OBVIOUS
  <2>2. \A ip \in Answered : Parrots(answer[ip].properties)
    BY <1>1, NothingParrots
  <2>3. services' = services \o SetToSeq({answer[ip] : ip \in Answered})
    BY <1>9, <2>1 DEF EndNetbios
  <2>4. UNCHANGED found /\ \E next, ips : Ask(next, ips)
    BY <1>9 DEF EndNetbios, multicast
  <2> HIDE DEF answer
  <2> QED BY <1>8, <2>2, <2>3, <2>4
<1>10. CASE EndSnmp
  <2> DEFINE answer == [ip \in Answered |-> Service("snmp", ip, Nothing, results[ip])]
  <2>1. {answer[ip] : ip \in Answered} = {Service("snmp", ip, Nothing, results[ip]) : ip \in Answered}
    OBVIOUS
  <2>2. \A ip \in Answered : Parrots(answer[ip].properties)
    BY <1>0, <1>1 DEF ParrotsInv, Answered
  <2>3. services' = services \o SetToSeq({answer[ip] : ip \in Answered})
    BY <1>10, <2>1 DEF EndSnmp
  <2>4. UNCHANGED found /\ \E next, ips : Ask(next, ips)
    BY <1>10 DEF EndSnmp, multicast
  <2> HIDE DEF answer
  <2> QED BY <1>8, <2>2, <2>3, <2>4
<1>11. ASSUME NEW ip \in DOMAIN probe, NEW got, Progress(ip, got), Parrots(got),
              UNCHANGED <<found, services>>
       PROVE  ParrotsInv'
  <2>1. results' = [results EXCEPT ![ip] = got]
    BY <1>11 DEF Progress
  <2>2. \A i \in DOMAIN results' : Parrots(results'[i])
    BY <1>11, <2>1 DEF ParrotsInv
  <2> QED BY <1>11, <2>2 DEF ParrotsInv
<1>12. ASSUME NEW ip \in DOMAIN probe, AnswerOid(ip) PROVE ParrotsInv'
  <2> DEFINE oid == Oids[asked[ip] + 1]
             got == With(results[ip], oid, ParseResponse(Response(ip, oid)))
  <2>1. ParseResponse(Response(ip, oid)) = Community /\ Community # Nothing
    BY CommunityIsRead, CommunityAssumption
  <2>2. Progress(ip, got) /\ UNCHANGED <<found, services>>
    BY <1>12, <2>1, Zenon DEF AnswerOid, multicast
  <2>3. Parrots(results[ip])
    BY <1>0 DEF ParrotsInv
  <2>4. got = With(results[ip], oid, Community)
    BY <2>1
  <2> HIDE DEF oid, got
  <2>5. Parrots(got)
    BY <2>3, <2>4 DEF With, Parrots
  <2> QED BY <1>11, <2>2, <2>5
<1>13. ASSUME NEW ip \in DOMAIN probe, FailOid(ip) PROVE ParrotsInv'
  <2>1. Progress(ip, results[ip]) /\ UNCHANGED <<found, services>>
    BY <1>13 DEF FailOid, multicast
  <2>2. Parrots(results[ip])
    BY <1>0 DEF ParrotsInv
  <2> QED BY <1>11, <2>1, <2>2
<1>14. ASSUME NEW ip \in DOMAIN probe, StartProbe(ip) \/ AnswerName(ip) \/ FailName(ip)
       PROVE  ParrotsInv'
  <2>1. UNCHANGED <<results, services, found>>
    BY <1>14 DEF StartProbe, AnswerName, FailName, multicast
  <2> QED BY <1>2, <2>1
<1>15. CASE StartBrowsing \/ NoSocket \/ SendSearch \/ StopBrowsing \/ StopListening
            \/ RaiseCollect \/ UNCHANGED vars
  <2>1. UNCHANGED <<results, services, found>>
    BY <1>15 DEF StartBrowsing, NoSocket, SendSearch, StopBrowsing, StopListening, RaiseCollect,
                 vars, unicast, multicast
  <2> QED BY <1>2, <2>1
<1>16. ASSUME NEW r \in Replies, ReceiveReply(r), found' = found PROVE ParrotsInv'
  <2>1. UNCHANGED <<results, services, found>>
    BY <1>16 DEF ReceiveReply, unicast
  <2> QED BY <1>2, <2>1
<1> QED BY <1>3, <1>4, <1>5, <1>7, <1>9, <1>10, <1>12, <1>13, <1>14, <1>15, <1>16
        DEF Next, Listen, Probing

\* What the code does where its documents speak of system information
\* (snmp.py:1, README.md:173): whatever the agents say, every value that a
\* scan reports of them is the community string it has sent itself.
SnmpIsCommunity == \A s \in Range(services) :
  s.source = "snmp" => \A oid \in DOMAIN s.properties : s.properties[oid] = Community

THEOREM SnmpValuesAreCommunity == Spec => []SnmpIsCommunity
<1>1. ParrotsInv => SnmpIsCommunity
  BY DEF ParrotsInv, Parrots, SnmpIsCommunity, Range
<1> QED BY <1>1, TypeInit, TypeStep, ParrotsInit, ParrotsStep, PTL DEF Spec

-----------------------------------------------------------------------------
(* A scan only moves on, and does not wait for what cannot happen.         *)

Rank(s) == CASE s = "multicast" -> 1 [] s = "collect" -> 2 [] s = "netbios" -> 3
             [] s = "snmp" -> 4 [] s \in {"done", "raised"} -> 5

TaskRank(state) == CASE state = "started" -> 1 [] state = "listening" -> 2
                     [] state \in {"over", "raised"} -> 3

\* A listener starts, or ends.
ListenerMoves == \E t \in {"mdns", "ssdp"} :
  /\ TaskRank(task'[t]) > TaskRank(task[t])
  /\ \A u \in {"mdns", "ssdp"} \ {t} : task'[u] = task[u]

\* One probe starts, ends, or asks for the next OID, and the others stay.
ProbeMoves == \E ip \in DOMAIN probe :
  /\ DOMAIN probe' = DOMAIN probe
  /\ \A i \in DOMAIN probe \ {ip} : probe'[i] = probe[i] /\ asked'[i] = asked[i]
  /\ \/ probe[ip] = "queued" /\ probe'[ip] = "running" /\ asked'[ip] = asked[ip]
     \/ probe[ip] = "running" /\ probe'[ip] \in {"answered", "failed"}
     \/ probe[ip] = "running" /\ probe'[ip] = "running" /\ asked'[ip] = asked[ip] + 1

\* A listener hears something, as often as others speak until it ends.
Hears == "listening" \in {task.mdns, task.ssdp} /\ UNCHANGED <<task, unicast>>

\* A later stage, a listener or a probe that moves on, or something heard.
ScanMoves ==
  \/ Rank(stage') > Rank(stage)
  \/ UNCHANGED <<stage, unicast>> /\ ListenerMoves
  \/ UNCHANGED <<stage, task>> /\ ProbeMoves
  \/ UNCHANGED stage /\ Hears

LEMMA StageMoves ==
  ASSUME EndMulticast \/ CollectIps \/ RaiseCollect \/ EndNetbios \/ EndSnmp
  PROVE  Rank(stage') > Rank(stage)
<1>1. CASE EndMulticast
  <2>1. stage = "multicast" /\ stage' \in {"collect", "done"}
    BY <1>1 DEF EndMulticast
  <2> QED BY <2>1 DEF Rank
<1>2. CASE CollectIps \/ RaiseCollect
  <2>1. stage = "collect" /\ stage' \in {"netbios", "snmp", "done", "raised"}
    BY <1>2 DEF CollectIps, RaiseCollect, Ask
  <2> QED BY <2>1 DEF Rank
<1>3. CASE EndNetbios
  <2>1. stage = "netbios" /\ stage' \in {"snmp", "done"}
    BY <1>3 DEF EndNetbios, Ask
  <2> QED BY <2>1 DEF Rank
<1>4. CASE EndSnmp
  <2>1. stage = "snmp" /\ stage' = "done"
    BY <1>4 DEF EndSnmp, Ask
  <2> QED BY <2>1 DEF Rank
<1> QED BY <1>1, <1>2, <1>3, <1>4

LEMMA ListenersMove ==
  ASSUME TypeInv, Listen \/ StopBrowsing \/ StopListening
  PROVE  UNCHANGED <<stage, unicast>> /\ (ListenerMoves \/ Hears)
<1>1. UNCHANGED <<stage, unicast>>
  BY DEF Listen, StartBrowsing, NoSocket, SendSearch, AddService, ReceiveReply, StopBrowsing, StopListening
<1>2. task = [mdns |-> task.mdns, ssdp |-> task.ssdp]
  BY DEF TypeInv, HeardInv, TasksInv
<1>3. CASE StartBrowsing \/ StopBrowsing
  <2>1. /\ TaskRank(task'["mdns"]) > TaskRank(task["mdns"])
        /\ task'["ssdp"] = task["ssdp"]
    BY <1>2, <1>3 DEF StartBrowsing, StopBrowsing, TaskRank
  <2> QED BY <1>1, <2>1 DEF ListenerMoves
<1>4. CASE NoSocket \/ SendSearch \/ StopListening
  <2>1. /\ TaskRank(task'["ssdp"]) > TaskRank(task["ssdp"])
        /\ task'["mdns"] = task["mdns"]
    BY <1>2, <1>4 DEF NoSocket, SendSearch, StopListening, TaskRank
  <2> QED BY <1>1, <2>1 DEF ListenerMoves
<1>5. CASE (\E name \in Names : AddService(name)) \/ (\E r \in Replies : ReceiveReply(r))
  BY <1>1, <1>5 DEF AddService, ReceiveReply, Hears
<1> QED BY <1>1, <1>3, <1>4, <1>5 DEF Listen

LEMMA ProbesMove == ASSUME TypeInv, Probing PROVE UNCHANGED <<stage, task>> /\ ProbeMoves
<1>1. PICK ip \in DOMAIN probe :
        StartProbe(ip) \/ AnswerName(ip) \/ FailName(ip) \/ AnswerOid(ip) \/ FailOid(ip)
  BY DEF Probing
<1>2. UNCHANGED <<stage, task>>
  BY <1>1 DEF StartProbe, AnswerName, FailName, AnswerOid, FailOid, multicast
<1>3. CASE StartProbe(ip) \/ AnswerName(ip) \/ FailName(ip)
  <2>1. ProbeMoves
    BY <1>3 DEF StartProbe, AnswerName, FailName, ProbeMoves
  <2> QED BY <1>2, <2>1
<1>4. CASE AnswerOid(ip) \/ FailOid(ip)
  <2>1. PICK got : Asking(ip) /\ Progress(ip, got)
    BY <1>4 DEF AnswerOid, FailOid
  <2>2. PICK p \in {"running", "answered", "failed"} : probe' = [probe EXCEPT ![ip] = p]
    BY <2>1 DEF Progress
  <2>3. asked' = [asked EXCEPT ![ip] = asked[ip] + 1] /\ probe[ip] = "running"
    BY <2>1 DEF Progress, Asking
  <2>4. ip \in DOMAIN asked
    BY DEF TypeInv, ProbesTyped
  <2>5. ProbeMoves
    BY <2>2, <2>3, <2>4 DEF ProbeMoves
  <2> QED BY <1>2, <2>5
<1> QED BY <1>1, <1>3, <1>4

\* Every step of a scan leads further, or is an announcement or a reply that
\* someone listens to: with the timeouts, which TLC's run assumes to expire, a
\* scan ends.
THEOREM ScanOnlyMovesOn == Spec => [][ScanMoves]_vars
<1>1. TypeInv /\ [Next]_vars => [ScanMoves]_vars
  BY StageMoves, ListenersMove, ProbesMove DEF Next, ScanMoves
<1> QED BY <1>1, TypeInit, TypeStep, PTL DEF Spec

\* A probe that runs has a request on its way, whose timeout ends it or leads
\* to the next; and a batch that is not yet there has a probe that runs, or
\* one that a slot is free for.
NeverStuck ==
  /\ \A ip \in Running : stage = "netbios" \/ Asking(ip)
  /\ ~ Gathered =>
       \/ Running # {}
       \/ \E ip \in DOMAIN probe : probe[ip] = "queued" /\ Cardinality(Running) < Slots

\* A probe that waits for a slot or runs has not asked for everything.
OidsLeft == \A ip \in DOMAIN probe : probe[ip] \in {"queued", "running"} => asked[ip] < 4

LEMMA OidsLeftStep == ASSUME TypeInv, OidsLeft, [Next]_vars PROVE OidsLeft'
<1>1. CASE UNCHANGED <<probe, asked>>
  BY <1>1 DEF OidsLeft
<1>2. ASSUME NEW next, NEW ips, Ask(next, ips) PROVE OidsLeft'
  BY <1>2 DEF Ask, OidsLeft
<1>3. CASE CollectIps \/ EndNetbios \/ EndSnmp
  BY <1>2, <1>3 DEF CollectIps, EndNetbios, EndSnmp
<1>4. CASE Probing
  <2>1. PICK ip \in DOMAIN probe :
          StartProbe(ip) \/ AnswerName(ip) \/ FailName(ip) \/ AnswerOid(ip) \/ FailOid(ip)
    BY <1>4 DEF Probing
  <2>2. CASE StartProbe(ip) \/ AnswerName(ip) \/ FailName(ip)
    BY <2>2 DEF StartProbe, AnswerName, FailName, OidsLeft
  <2>3. CASE AnswerOid(ip) \/ FailOid(ip)
    <3>1. PICK got : Asking(ip) /\ Progress(ip, got)
      BY <2>3 DEF AnswerOid, FailOid
    <3>2. PICK p : /\ probe' = [probe EXCEPT ![ip] = p]
                   /\ p \in {"queued", "running"} => asked[ip] + 1 < 4
      <4>1. CASE asked[ip] + 1 < Len(Oids)
        <5>1. probe' = [probe EXCEPT ![ip] = "running"]
          BY <3>1, <4>1 DEF Progress
        <5> QED BY <4>1, <5>1, OidsList
      <4>2. CASE ~ (asked[ip] + 1 < Len(Oids))
        <5>1. PICK p \in {"failed", "answered"} : probe' = [probe EXCEPT ![ip] = p]
          BY <3>1, <4>2 DEF Progress
        <5> QED BY <5>1
      <4> QED BY <4>1, <4>2
    <3>3. asked' = [asked EXCEPT ![ip] = asked[ip] + 1] /\ ip \in DOMAIN asked
      BY <3>1 DEF Progress, TypeInv, ProbesTyped
    <3> QED BY <3>2, <3>3 DEF OidsLeft, TypeInv, ProbesTyped
  <2> QED BY <2>1, <2>2, <2>3
<1>5. CASE Listen \/ StopBrowsing \/ StopListening \/ EndMulticast \/ RaiseCollect
  BY <1>1, <1>5 DEF Listen, StartBrowsing, NoSocket, SendSearch, AddService, ReceiveReply,
                    StopBrowsing, StopListening, EndMulticast, RaiseCollect, unicast
<1>6. CASE UNCHANGED vars
  BY <1>1, <1>6 DEF vars, unicast
<1> QED BY <1>3, <1>4, <1>5, <1>6 DEF Next

\* A scan never waits for what cannot happen.
THEOREM ScanNeverStuck == Spec => []NeverStuck
<1>1. Init => OidsLeft
  BY DEF Init, OidsLeft, NoBatch
<1>2. TypeInv /\ [Next]_vars => TypeInv'
  BY TypeStep
<1>3. TypeInv /\ OidsLeft /\ [Next]_vars => OidsLeft'
  BY OidsLeftStep
<1>4. TypeInv /\ OidsLeft => NeverStuck
  <2> SUFFICES ASSUME TypeInv, OidsLeft PROVE NeverStuck
    OBVIOUS
  <2>1. ASSUME NEW ip \in Running, stage # "netbios" PROVE Asking(ip)
    <3>1. stage = "snmp"
      BY <2>1 DEF TypeInv, HeardInv, BatchInv, Running
    <3> QED BY <2>1, <3>1, OidsList DEF OidsLeft, Asking, Running
  <2>2. ASSUME ~ Gathered, Running = {}
        PROVE  \E ip \in DOMAIN probe : probe[ip] = "queued" /\ Cardinality(Running) < Slots
    <3>1. PICK ip \in DOMAIN probe : probe[ip] \notin {"answered", "failed"}
      BY <2>2 DEF Gathered
    <3>2. probe[ip] = "queued"
      BY <2>2, <3>1 DEF TypeInv, ProbesTyped, States, Running
    <3>3. Cardinality(Running) = 0
      BY <2>2, FS_EmptySet
    <3> QED BY <3>2, <3>3, SlotsAssumption
  <2> QED BY <2>1, <2>2 DEF NeverStuck
<1> QED BY <1>1, <1>2, <1>3, <1>4, TypeInit, PTL DEF Spec

=============================================================================
