---------------------------- MODULE Proxy_proofs ----------------------------
(***************************************************************************)
(* Safety of Proxy for any number of packets.  The exchange of keys, a     *)
(* pull of the recent chat and a request for a time are each one thing     *)
(* that is in one place at a time; what is true of the shared variables    *)
(* and of the peers follows from the place.  Pings are many, and are       *)
(* followed as a range of numbers.                                         *)
(***************************************************************************)
EXTENDS Proxy, SequenceTheorems, TLAPS

-----------------------------------------------------------------------------
(* Queues.                                                                 *)

Items(q) == {q[i] : i \in DOMAIN q}
Has(q, name) == \E pkt \in Items(q) : pkt.name = name
Once(q, name) == \A i, j \in DOMAIN q : q[i].name = name /\ q[j].name = name => i = j

LEMMA AppendItems ==
  ASSUME NEW S, NEW q \in Seq(S), NEW x \in S
  PROVE  /\ Append(q, x) \in Seq(S) /\ Items(Append(q, x)) = Items(q) \cup {x}
         /\ Len(Append(q, x)) = Len(q) + 1 /\ Append(q, x)[Len(q) + 1] = x
         /\ DOMAIN q = 1..Len(q) /\ Len(q) \in Nat
         /\ \A i \in 1..Len(q) : Append(q, x)[i] = q[i]
<1> DEFINE r == Append(q, x)
<1>1. /\ r \in Seq(S) /\ Len(r) = Len(q) + 1 /\ r[Len(q) + 1] = x
      /\ \A i \in 1..Len(q) : r[i] = q[i]
  BY AppendProperties
<1>2. DOMAIN r = 1..Len(r) /\ DOMAIN q = 1..Len(q) /\ Len(q) \in Nat
  BY <1>1, LenProperties
<1> HIDE DEF r
<1>3. Items(r) = Items(q) \cup {x}
  BY <1>1, <1>2 DEF Items
<1> QED
  BY <1>1, <1>2, <1>3 DEF r

LEMMA AppendPair ==
  ASSUME NEW a \in Nat, NEW x \in Nat
  PROVE  Append(<<a>>, x) = <<a, x>>
<1> DEFINE q == <<a>>
           r == Append(q, x)
           s == <<a, x>>
<1>1. q \in Seq(Nat) /\ Len(q) = 1 /\ q[1] = a
  OBVIOUS
<1>2. s \in Seq(Nat) /\ Len(s) = 2 /\ s[1] = a /\ s[2] = x
  OBVIOUS
<1> HIDE DEF q, s
<1>3. q \in Seq(Nat) /\ x \in Nat
  BY <1>1
<1>4. /\ r \in Seq(Nat) /\ Len(r) = Len(q) + 1 /\ r[Len(q) + 1] = x
      /\ \A i \in 1..Len(q) : r[i] = q[i]
  BY <1>3, AppendItems
<1> HIDE DEF r
<1>5. Len(r) = 2 /\ r[1] = a /\ r[2] = x
  BY <1>1, <1>4
<1>6. \A i \in 1..2 : r[i] = s[i]
  BY <1>2, <1>5
<1>7. r = s
  BY <1>2, <1>4, <1>5, <1>6, SeqEqual
<1> QED
  BY <1>7 DEF q, r, s

LEMMA TailItems ==
  ASSUME NEW S, NEW q \in Seq(S), q # <<>>
  PROVE  /\ Tail(q) \in Seq(S) /\ Head(q) \in S /\ Items(q) = {Head(q)} \cup Items(Tail(q))
         /\ Len(q) \in Nat \ {0} /\ DOMAIN q = 1..Len(q) /\ Head(q) = q[1]
         /\ DOMAIN Tail(q) = 1..(Len(q) - 1)
         /\ \A i \in 1..(Len(q) - 1) : Tail(q)[i] = q[i + 1]
<1> DEFINE r == Tail(q)
<1>1. /\ r \in Seq(S) /\ Len(r) = Len(q) - 1 /\ Head(q) = q[1]
      /\ \A i \in 1..(Len(q) - 1) : r[i] = q[i + 1]
  BY HeadTailProperties
<1>2. DOMAIN r = 1..Len(r) /\ DOMAIN q = 1..Len(q) /\ Len(q) \in Nat \ {0}
  BY <1>1, LenProperties, EmptySeq
<1> HIDE DEF r
<1>3. q[1] \in S
  BY <1>2, ElementOfSeq
<1>4. Items(q) \subseteq {q[1]} \cup Items(r)
  <2> SUFFICES ASSUME NEW i \in 1..Len(q), i # 1
               PROVE  \E j \in DOMAIN r : r[j] = q[i]
    BY <1>2 DEF Items
  <2>1. i - 1 \in 1..(Len(q) - 1) /\ (i - 1) + 1 = i
    BY <1>2
  <2>2. r[i - 1] = q[i]
    BY <1>1, <2>1
  <2> QED
    BY <1>1, <1>2, <2>1, <2>2
<1>5. {q[1]} \cup Items(r) \subseteq Items(q)
  <2>1. \A i \in 1..(Len(q) - 1) : i + 1 \in 1..Len(q)
    BY <1>2
  <2> QED
    BY <1>1, <1>2, <2>1 DEF Items
<1> QED
  BY <1>1, <1>2, <1>3, <1>4, <1>5 DEF r

LEMMA EmptyItems ==
  Items(<<>>) = {} /\ \A name : ~Has(<<>>, name) /\ Once(<<>>, name)
<1>1. DOMAIN <<>> = {}
  OBVIOUS
<1> QED
  BY <1>1 DEF Items, Has, Once

LEMMA AppendHas ==
  ASSUME NEW S, NEW q \in Seq(S), NEW x \in S, NEW name
  PROVE  Has(Append(q, x), name) <=> Has(q, name) \/ x.name = name
  BY AppendItems DEF Has

LEMMA AppendOnce ==
  ASSUME NEW S, NEW q \in Seq(S), NEW x \in S, NEW name, Once(q, name),
         x.name = name => ~Has(q, name)
  PROVE  Once(Append(q, x), name)
<1> DEFINE r == Append(q, x)
<1>1. /\ Len(r) = Len(q) + 1 /\ r[Len(q) + 1] = x /\ DOMAIN q = 1..Len(q) /\ Len(q) \in Nat
      /\ r \in Seq(S) /\ \A i \in 1..Len(q) : r[i] = q[i]
  BY AppendItems
<1>2. DOMAIN r = 1..(Len(q) + 1)
  BY <1>1, LenProperties
<1> HIDE DEF r
<1> SUFFICES ASSUME NEW i \in 1..(Len(q) + 1), NEW j \in 1..(Len(q) + 1),
                    r[i].name = name, r[j].name = name
             PROVE  i = j
  BY <1>2 DEF Once, r
<1>3. x.name = name => \A k \in 1..Len(q) : q[k].name # name
  BY <1>1 DEF Has, Items
<1> QED
  BY <1>1, <1>3 DEF Once

LEMMA TailOnce ==
  ASSUME NEW S, NEW q \in Seq(S), q # <<>>, NEW name, Once(q, name)
  PROVE  /\ Once(Tail(q), name)
         /\ Has(q, name) <=> Head(q).name = name \/ Has(Tail(q), name)
         /\ ~(Head(q).name = name /\ Has(Tail(q), name))
<1> DEFINE r == Tail(q)
<1>1. /\ Items(q) = {q[1]} \cup Items(r) /\ Len(q) \in Nat \ {0} /\ DOMAIN q = 1..Len(q)
      /\ Head(q) = q[1]
      /\ DOMAIN r = 1..(Len(q) - 1) /\ \A i \in 1..(Len(q) - 1) : r[i] = q[i + 1]
  BY TailItems
<1> HIDE DEF r
<1>2. \A i \in 1..(Len(q) - 1) : i + 1 \in 1..Len(q) /\ i + 1 # 1
  BY <1>1
<1>3. Once(r, name)
  <2> SUFFICES ASSUME NEW i \in 1..(Len(q) - 1), NEW j \in 1..(Len(q) - 1),
                      r[i].name = name, r[j].name = name
               PROVE  i = j
    BY <1>1 DEF Once
  <2>1. i + 1 = j + 1
    BY <1>1, <1>2 DEF Once
  <2> QED
    BY <2>1
<1>4. Has(q, name) <=> q[1].name = name \/ Has(r, name)
  BY <1>1 DEF Has
<1>5. ASSUME q[1].name = name, Has(r, name)
      PROVE  FALSE
  <2>1. PICK i \in 1..(Len(q) - 1) : r[i].name = name
    BY <1>1, <1>5 DEF Has, Items
  <2>2. q[i + 1].name = name /\ i + 1 \in 1..Len(q) /\ 1 \in 1..Len(q)
    BY <1>1, <1>2, <2>1
  <2>3. i + 1 = 1
    BY <1>1, <1>5, <2>2 DEF Once
  <2> QED
    BY <2>3
<1> QED
  BY <1>1, <1>3, <1>4, <1>5 DEF r

-----------------------------------------------------------------------------
(* Types.                                                                  *)

RequestNames == {"GetPlayerTokenReq", "PingReq", "ClientSetGameTimeReq", "ChangeGameTimeReq",
                 "PrivateChatReq", "PullPrivateChatReq", "PullRecentChatReq",
                 "GetPlayerFriendListReq", "MarkMapReq"}
AnswerNames == {"GetPlayerTokenRsp", "ChangeGameTimeRsp", "PullRecentChatRsp",
                "GetPlayerFriendListRsp", "Notify"}
InjectedNames == {"ClientSetGameTimeRsp", "PrivateChatNotify", "PrivateChatRsp"}

SessionKey == Key(Rand, Seed)
Keys == {Shared, SessionKey}

\* The bodies that a property or a handler looks into.
Shaped(pkt) ==
  /\ pkt.name = "GetPlayerTokenReq" => pkt.info = <<Rand>>
  /\ pkt.name = "GetPlayerTokenRsp" => pkt.info = <<Seed>>
  /\ pkt.name = "ClientSetGameTimeReq" => \E n \in 1..MaxSends : pkt.info = <<n>>
  /\ pkt.name = "PullRecentChatReq" => pkt.info \in {<<0>>, <<1>>}

Packets(names) ==
  {pkt \in [name : names, key : Keys, lang : Sides, info : Seq(Nat)] : Shaped(pkt)}
Requests == Packets(RequestNames)
Answers == Packets(AnswerNames)
ToClient == Packets(AnswerNames \cup InjectedNames)

\* What comes from a side, and what goes to it.
From(t) == IF t = "endpoint" THEN Requests ELSE Answers
To(t) == IF t = "endpoint" THEN ToClient ELSE Requests

Pcs == {"payload", "handle", "send", "change", "execute", "respond", "ended",
        "game", "clientGame", "clear", "answer"}
Goroutines == [pc : Pcs, pkt : Requests \cup Answers \cup {NoPacket}, times : Seq(Nat)]

EndpointAt(r) ==
  /\ r.times = <<>>
  /\ \/ r.pkt = NoPacket /\ r.pc \in {"payload", "ended"}
     \/ r.pkt \in Requests /\ r.pc \in {"handle", "send"}
     \/ r.pkt \in Requests /\ r.pc = "change" /\ r.pkt.name = "ClientSetGameTimeReq"
     \/ r.pkt \in Requests /\ r.pc \in {"execute", "respond"} /\ r.pkt.name = "PrivateChatReq"

\* The goroutine of the server's side never ends.
UpstreamAt(r) ==
  \/ r.pkt = NoPacket /\ r.pc = "payload" /\ r.times = <<>>
  \/ r.pkt \in Answers /\ r.pc \in {"handle", "send"} /\ r.times = <<>>
  \/ /\ r.pkt \in Answers /\ r.pkt.name = "ChangeGameTimeRsp"
     /\ r.pc \in {"game", "clientGame", "clear", "answer"}
     /\ r.pc = "game" => r.times = <<>>

Is(t, r) == r \in Goroutines /\ IF t = "endpoint" THEN EndpointAt(r) ELSE UpstreamAt(r)

QueuesOK ==
  /\ inq \in [Sides -> Seq(Requests) \cup Seq(Answers)]
  /\ \A t \in Sides : inq[t] \in Seq(From(t))
  /\ outq \in [Sides -> Seq(ToClient) \cup Seq(Requests)]
  /\ \A t \in Sides : outq[t] \in Seq(To(t))

GoroutinesOK == g \in [Sides -> Goroutines] /\ \A t \in Sides : Is(t, g[t])

\* Only the client's side can be told to stop, and it is told so once.
StopOK ==
  /\ closed \subseteq Leaves /\ ctxDone \subseteq closed /\ ctxDone \subseteq {"endpoint"}
  /\ wg = IF g["endpoint"].pc = "ended" THEN 0 ELSE 1

SharedOK ==
  /\ loginRand \in {0, Rand} /\ loginKey \in Keys /\ playerUid \in {0, Uid}
  /\ cachedPullRecentChat \in {-1, 0} /\ cachedClientSetGameTime \in 0..MaxSends

PeersOK ==
  /\ client \in [state : {"new", "waiting", "in"}, key : Keys, sends : 0..MaxSends, pings : Nat,
                 time : 0..MaxSends, change : BOOLEAN, pull : {-1, 0, 1}]
  /\ server \in [key : Keys, pings : Seq(Nat), pushes : Nat]

TInv == QueuesOK /\ GoroutinesOK /\ StopOK /\ SharedOK /\ PeersOK

LEMMA KeysDiffer == Shared # SessionKey /\ Shared \in Keys /\ SessionKey \in Keys
  BY DEF Shared, SessionKey, Key, Keys

LEMMA SidesDiffer ==
  /\ Sides = {"endpoint", "upstream"}
  /\ \A t \in Sides : Opposite(t) \in Sides /\ Opposite(t) # t
  /\ Opposite("endpoint") = "upstream" /\ Opposite("upstream") = "endpoint"
  BY DEF Sides, Opposite

LEMMA PacketFields ==
  ASSUME NEW names, NEW pkt \in Packets(names)
  PROVE  /\ pkt = Packet(pkt.name, pkt.key, pkt.lang, pkt.info)
         /\ pkt.name \in names /\ pkt.key \in Keys /\ pkt.lang \in Sides /\ pkt.info \in Seq(Nat)
         /\ Shaped(pkt)
<1>1. pkt \in [name : names, key : Keys, lang : Sides, info : Seq(Nat)] /\ Shaped(pkt)
  BY DEF Packets
<1> QED
  BY <1>1 DEF Packet

\* The goroutine of t is now at pc, with pkt and times.
Now(t, pc, pkt, times) ==
  g' = [g EXCEPT ![t] = [pc |-> pc, pkt |-> pkt, times |-> times]]

LEMMA Goes ==
  ASSUME TInv, NEW t \in Sides
  PROVE  /\ \A pc : Go(t, pc) => Now(t, pc, g[t].pkt, g[t].times)
         /\ \A info : PassOn(t, info) =>
              Now(t, "send", Packet(g[t].pkt.name, g[t].pkt.key, Opposite(t), info), g[t].times)
<1>1. g \in [Sides -> Goroutines] /\ g[t] \in Goroutines
  BY DEF TInv, GoroutinesOK
<1>2. g[t] = [pc |-> g[t].pc, pkt |-> g[t].pkt, times |-> g[t].times]
  BY <1>1 DEF Goroutines
<1>3. g[t].pkt \in Requests \cup Answers \cup {NoPacket}
  BY <1>1 DEF Goroutines
<1>4. g[t].pkt = Packet(g[t].pkt.name, g[t].pkt.key, g[t].pkt.lang, g[t].pkt.info)
  <2>1. CASE g[t].pkt = NoPacket
    BY <2>1 DEF NoPacket, Packet
  <2>2. CASE g[t].pkt \in Requests \cup Answers
    BY <2>2, PacketFields DEF Requests, Answers
  <2> QED
    BY <1>3, <2>1, <2>2
<1>5. ASSUME NEW pc, Go(t, pc) PROVE Now(t, pc, g[t].pkt, g[t].times)
  <2> DEFINE old == g[t]
             oldPc == g[t].pc
             pkt == g[t].pkt
             times == g[t].times
  <2>1. g' = [g EXCEPT ![t] = [old EXCEPT !.pc = pc]]
    BY <1>1, <1>5 DEF Go
  <2>2. old = [pc |-> oldPc, pkt |-> pkt, times |-> times]
    BY <1>2
  <2> HIDE DEF old, oldPc, pkt, times
  <2>3. [old EXCEPT !.pc = pc] = [pc |-> pc, pkt |-> pkt, times |-> times]
    BY <2>2
  <2>4. g' = [g EXCEPT ![t] = [pc |-> pc, pkt |-> pkt, times |-> times]]
    BY <2>1, <2>3
  <2> QED
    BY <2>4 DEF Now, pkt, times
<1>6. ASSUME NEW info, PassOn(t, info)
      PROVE  Now(t, "send", Packet(g[t].pkt.name, g[t].pkt.key, Opposite(t), info), g[t].times)
  <2> DEFINE old == g[t]
             pkt == g[t].pkt
  <2>1. /\ g' \in [Sides -> {g'[s] : s \in Sides}]
        /\ \A s \in Sides \ {t} : g'[s] = g[s]
        /\ g'[t] = [old EXCEPT !.pc = "send",
                               !.pkt = [pkt EXCEPT !.lang = Opposite(t), !.info = info]]
    BY <1>1, <1>6 DEF PassOn
  <2>2. [pkt EXCEPT !.lang = Opposite(t), !.info = info] = Packet(pkt.name, pkt.key, Opposite(t), info)
    <3> DEFINE new == [pkt EXCEPT !.lang = Opposite(t), !.info = info]
    <3>1. pkt \in [name : {pkt.name}, key : {pkt.key}, lang : {pkt.lang}, info : {pkt.info}]
      BY <1>4 DEF Packet
    <3> HIDE DEF pkt
    <3>2. new \in [name : {pkt.name}, key : {pkt.key}, lang : {Opposite(t)}, info : {info}]
      BY <3>1
    <3> HIDE DEF new
    <3>3. new = Packet(pkt.name, pkt.key, Opposite(t), info)
      BY <3>2 DEF Packet
    <3> QED
      BY <3>3 DEF new
  <2>3. g'[t] = [pc |-> "send", pkt |-> Packet(pkt.name, pkt.key, Opposite(t), info),
                 times |-> old.times]
    BY <1>2, <2>1, <2>2
  <2> QED
    BY <1>1, <2>1, <2>3 DEF Now
<1> QED
  BY <1>5, <1>6

LEMMA NowIs ==
  ASSUME TInv, NEW t \in Sides, NEW pc, NEW pkt, NEW times, Now(t, pc, pkt, times)
  PROVE  /\ g'[t] = [pc |-> pc, pkt |-> pkt, times |-> times]
         /\ g'[t].pc = pc /\ g'[t].pkt = pkt /\ g'[t].times = times
         /\ \A s \in Sides \ {t} : g'[s] = g[s]
         /\ Is(t, [pc |-> pc, pkt |-> pkt, times |-> times]) => GoroutinesOK'
<1>1. g \in [Sides -> Goroutines] /\ \A s \in Sides : Is(s, g[s])
  BY DEF TInv, GoroutinesOK
<1> DEFINE new == [pc |-> pc, pkt |-> pkt, times |-> times]
<1>2. new.pc = pc /\ new.pkt = pkt /\ new.times = times
  OBVIOUS
<1>3. g' = [g EXCEPT ![t] = new]
  BY DEF Now
<1>4. Is(t, new) => new \in Goroutines
  BY DEF Is
<1> HIDE DEF new
<1>5. g'[t] = new /\ \A s \in Sides \ {t} : g'[s] = g[s]
  BY <1>1, <1>3
<1>6. Is(t, new) => GoroutinesOK'
  <2> SUFFICES ASSUME Is(t, new)
               PROVE  g' \in [Sides -> Goroutines] /\ \A s \in Sides : Is(s, g'[s])
    BY DEF GoroutinesOK, Is, EndpointAt, UpstreamAt
  <2>1. g' \in [Sides -> Goroutines]
    BY <1>1, <1>3, <1>4
  <2> QED
    BY <1>1, <1>5, <2>1
<1> QED
  BY <1>2, <1>5, <1>6 DEF new

LEMMA Fields ==
  ASSUME TInv, NEW t \in Sides
  PROVE  /\ \A pc, pkt : g' = [g EXCEPT ![t].pc = pc, ![t].pkt = pkt] => Now(t, pc, pkt, g[t].times)
         /\ \A pc, times : g' = [g EXCEPT ![t].pc = pc, ![t].times = times]
              => Now(t, pc, g[t].pkt, times)
<1> DEFINE old == g[t]
           oldPc == g[t].pc
           oldPkt == g[t].pkt
           oldTimes == g[t].times
<1>1. g \in [Sides -> Goroutines] /\ g[t] \in Goroutines
  BY DEF TInv, GoroutinesOK
<1>2. old \in [pc : {oldPc}, pkt : {oldPkt}, times : {oldTimes}]
  BY <1>1 DEF Goroutines
<1>3. ASSUME NEW pc, NEW pkt, g' = [g EXCEPT ![t].pc = pc, ![t].pkt = pkt]
      PROVE  Now(t, pc, pkt, oldTimes)
  <2> DEFINE new == [old EXCEPT !.pc = pc, !.pkt = pkt]
  <2>1. /\ g' \in [Sides -> {g'[s] : s \in Sides}] /\ \A s \in Sides \ {t} : g'[s] = g[s]
        /\ g'[t] = new
    BY <1>1, <1>3
  <2> HIDE DEF old, oldPc, oldPkt, oldTimes
  <2>2. new \in [pc : {pc}, pkt : {pkt}, times : {oldTimes}]
    BY <1>2
  <2> HIDE DEF new
  <2>3. new = [pc |-> pc, pkt |-> pkt, times |-> oldTimes]
    BY <2>2
  <2> QED
    BY <1>1, <2>1, <2>3 DEF Now
<1>4. ASSUME NEW pc, NEW times, g' = [g EXCEPT ![t].pc = pc, ![t].times = times]
      PROVE  Now(t, pc, oldPkt, times)
  <2> DEFINE new == [old EXCEPT !.pc = pc, !.times = times]
  <2>1. /\ g' \in [Sides -> {g'[s] : s \in Sides}] /\ \A s \in Sides \ {t} : g'[s] = g[s]
        /\ g'[t] = new
    BY <1>1, <1>4
  <2> HIDE DEF old, oldPc, oldPkt, oldTimes
  <2>2. new \in [pc : {pc}, pkt : {oldPkt}, times : {times}]
    BY <1>2
  <2> HIDE DEF new
  <2>3. new = [pc |-> pc, pkt |-> oldPkt, times |-> times]
    BY <2>2
  <2> QED
    BY <1>1, <2>1, <2>3 DEF Now
<1> QED
  BY <1>3, <1>4

\* Which goroutine is where, and with what.
LEMMA Where ==
  ASSUME TInv, NEW t \in Sides
  PROVE  /\ g[t] \in Goroutines /\ g[t].times \in Seq(Nat)
         /\ g[t].pc \notin {"payload", "ended"} =>
              g[t].pkt \in From(t) /\ g[t].pkt = Packet(g[t].pkt.name, g[t].pkt.key, g[t].pkt.lang, g[t].pkt.info)
         /\ g[t].pc \in {"payload", "handle", "send"} => g[t].times = <<>>
         /\ g[t].pc \in {"payload", "ended"} => g[t].pkt = NoPacket
         /\ g[t].pc \in {"change", "execute", "respond", "ended"} => t = "endpoint"
         /\ g[t].pc \in {"game", "clientGame", "clear", "answer"} => t = "upstream"
<1>1. Is(t, g[t])
  BY DEF TInv, GoroutinesOK
<1>2. g[t] \in Goroutines /\ g[t].times \in Seq(Nat)
  BY <1>1 DEF Is, Goroutines
<1>3. t # "endpoint" => t = "upstream"
  BY SidesDiffer
<1>4. g[t].pc \notin {"payload", "ended"} => g[t].pkt \in From(t)
  BY <1>1, <1>3 DEF Is, EndpointAt, UpstreamAt, From
<1>5. g[t].pkt \in From(t) => g[t].pkt = Packet(g[t].pkt.name, g[t].pkt.key, g[t].pkt.lang, g[t].pkt.info)
  BY PacketFields DEF From, Requests, Answers
<1>6. /\ g[t].pc \in {"payload", "handle", "send"} => g[t].times = <<>>
      /\ g[t].pc \in {"payload", "ended"} => g[t].pkt = NoPacket
      /\ g[t].pc \in {"change", "execute", "respond", "ended"} => t = "endpoint"
      /\ g[t].pc \in {"game", "clientGame", "clear", "answer"} => t = "upstream"
  BY <1>1, <1>3 DEF Is, EndpointAt, UpstreamAt
<1> QED
  BY <1>2, <1>4, <1>5, <1>6

\* The names tell the direction.
LEMMA Directions ==
  /\ \A pkt \in Requests : pkt.name \in RequestNames
  /\ \A pkt \in Answers : pkt.name \in AnswerNames
  /\ \A pkt \in ToClient : pkt.name \in AnswerNames \cup InjectedNames
  /\ RequestNames \cap AnswerNames = {} /\ RequestNames \cap InjectedNames = {}
  /\ AnswerNames \cap InjectedNames = {}
  /\ "none" \notin RequestNames \cup AnswerNames \cup InjectedNames
<1>1. /\ \A pkt \in Requests : pkt.name \in RequestNames
      /\ \A pkt \in Answers : pkt.name \in AnswerNames
      /\ \A pkt \in ToClient : pkt.name \in AnswerNames \cup InjectedNames
  BY PacketFields DEF Requests, Answers, ToClient
<1>2. /\ RequestNames \cap AnswerNames = {} /\ RequestNames \cap InjectedNames = {}
      /\ AnswerNames \cap InjectedNames = {}
      /\ "none" \notin RequestNames \cup AnswerNames \cup InjectedNames
  BY DEF RequestNames, AnswerNames, InjectedNames
<1> QED
  BY <1>1, <1>2

\* A packet on its way to a side.
Sends(to, pkt) ==
  /\ pkt \in To(to) /\ pkt.key = KeyFor(pkt.name)
  /\ outq' = IF to \in closed THEN outq ELSE [outq EXCEPT ![to] = Append(@, pkt)]

LEMMA SendsKeep ==
  ASSUME TInv, NEW to \in Sides, NEW pkt, Sends(to, pkt)
  PROVE  /\ outq' \in [Sides -> Seq(ToClient) \cup Seq(Requests)]
         /\ \A t \in Sides : outq'[t] \in Seq(To(t))
         /\ \A t \in Sides \ {to} : outq'[t] = outq[t]
         /\ outq'[to] = IF to \in closed THEN outq[to] ELSE Append(outq[to], pkt)
<1>1. /\ outq \in [Sides -> Seq(ToClient) \cup Seq(Requests)]
      /\ \A t \in Sides : outq[t] \in Seq(To(t))
  BY DEF TInv, QueuesOK
<1>2. Append(outq[to], pkt) \in Seq(To(to))
  BY <1>1, AppendItems DEF Sends
<1>3. Append(outq[to], pkt) \in Seq(ToClient) \cup Seq(Requests)
  BY <1>2 DEF To
<1>4. CASE to \in closed
  BY <1>1, <1>4 DEF Sends
<1>5. CASE to \notin closed
  <2>1. outq' = [outq EXCEPT ![to] = Append(outq[to], pkt)]
    BY <1>5 DEF Sends
  <2> QED
    BY <1>1, <1>2, <1>3, <1>5, <2>1
<1> QED
  BY <1>4, <1>5

LEMMA SendPacketSends ==
  ASSUME TInv, NEW to \in Sides, NEW name, NEW lang \in Sides, NEW info \in Seq(Nat),
         SendPacket(to, name, lang, info),
         name \in (IF to = "endpoint" THEN AnswerNames \cup InjectedNames ELSE RequestNames),
         Shaped(Packet(name, KeyFor(name), lang, info))
  PROVE  Sends(to, Packet(name, KeyFor(name), lang, info))
<1> DEFINE pkt == Packet(name, KeyFor(name), lang, info)
<1>1. KeyFor(name) \in Keys
  BY KeysDiffer DEF KeyFor, TInv, SharedOK
<1>2. pkt.name = name /\ pkt.key = KeyFor(name)
  BY DEF Packet
<1>3. \A names : name \in names =>
        pkt \in [name : names, key : Keys, lang : Sides, info : Seq(Nat)]
  BY <1>1 DEF Packet
<1> HIDE DEF pkt
<1>4. pkt \in To(to)
  BY <1>3 DEF To, ToClient, Requests, Packets, pkt
<1> QED
  BY <1>2, <1>4 DEF SendPacket, Sends, pkt

-----------------------------------------------------------------------------
(* The handlers.                                                           *)

\* What all of them have in common: the goroutine keeps its packet or drops it.
Moves(t) ==
  /\ GoroutinesOK' /\ \A s \in Sides \ {t} : g'[s] = g[s]
  /\ g[t].pc \notin {"payload", "send", "ended"} /\ g'[t].pc \notin {"handle", "ended"}
  /\ g'[t].pkt.name \in {g[t].pkt.name, "none"}

Aside == UNCHANGED <<transports, wg, client, server>>

LEMMA NowMoves ==
  ASSUME TInv, NEW t \in Sides, NEW pc, NEW pkt, NEW times, Now(t, pc, pkt, times),
         Is(t, [pc |-> pc, pkt |-> pkt, times |-> times]),
         g[t].pc \notin {"payload", "send", "ended"}, pc \notin {"handle", "ended"},
         pkt.name \in {g[t].pkt.name, "none"}
  PROVE  Moves(t) /\ g'[t].pc = pc /\ g'[t].pkt = pkt /\ g'[t].times = times
  BY NowIs DEF Moves

\* A translated packet.
LEMMA Passes ==
  ASSUME TInv, NEW t \in Sides, NEW info \in Seq(Nat), PassOn(t, info), g[t].pc = "handle",
         Shaped(Packet(g[t].pkt.name, g[t].pkt.key, Opposite(t), info))
  PROVE  /\ Moves(t) /\ g'[t].pc = "send" /\ g'[t].times = <<>>
         /\ g'[t].pkt.name = g[t].pkt.name /\ g'[t].pkt.info = info
<1> DEFINE pkt == Packet(g[t].pkt.name, g[t].pkt.key, Opposite(t), info)
           old == g[t].pkt
<1>1. Now(t, "send", pkt, <<>>)
  BY Goes, Where
<1>2. old \in From(t)
  BY Where
<1>3. t # "endpoint" => t = "upstream"
  BY SidesDiffer
<1>4. pkt.name = old.name /\ pkt.info = info
  BY DEF Packet
<1>5. pkt \in From(t)
  <2>1. \A names : old \in Packets(names) => pkt \in Packets(names)
    <3> SUFFICES ASSUME NEW names, old \in Packets(names)
                 PROVE  pkt \in Packets(names)
      OBVIOUS
    <3>1. old.name \in names /\ old.key \in Keys /\ Opposite(t) \in Sides
      BY PacketFields, SidesDiffer
    <3>2. pkt \in [name : names, key : Keys, lang : Sides, info : Seq(Nat)]
      BY <3>1 DEF Packet
    <3> HIDE DEF old
    <3> QED
      BY <3>2 DEF Packets, old
  <2> HIDE DEF pkt, old
  <2> QED
    BY <1>2, <2>1 DEF From, Requests, Answers
<1> HIDE DEF pkt
<1>6. Is(t, [pc |-> "send", pkt |-> pkt, times |-> <<>>])
  <2>1. [pc |-> "send", pkt |-> pkt, times |-> <<>>] \in Goroutines
    <3>1. pkt \in Requests \cup Answers \cup {NoPacket}
      BY <1>5 DEF From
    <3>2. <<>> \in Seq(Nat)
      BY EmptySeq
    <3>3. "send" \in Pcs
      BY DEF Pcs
    <3> QED
      BY <3>1, <3>2, <3>3 DEF Goroutines
  <2>2. CASE t = "endpoint"
    BY <1>5, <2>1, <2>2 DEF Is, EndpointAt, From
  <2>3. CASE t = "upstream"
    BY <1>5, <2>1, <2>3 DEF Is, UpstreamAt, From
  <2> QED
    BY <1>3, <2>2, <2>3
<1> QED
  BY <1>1, <1>4, <1>6, NowMoves

\* The packet stays as it is.
LEMMA Advances ==
  ASSUME TInv, NEW t \in Sides, NEW pc, Now(t, pc, g[t].pkt, g[t].times),
         g[t].pc \notin {"payload", "send", "ended"}, pc \notin {"handle", "ended"},
         IF t = "endpoint"
         THEN \/ pc = "send"
              \/ pc = "change" /\ g[t].pkt.name = "ClientSetGameTimeReq"
              \/ pc \in {"execute", "respond"} /\ g[t].pkt.name = "PrivateChatReq"
         ELSE \/ pc = "send" /\ g[t].times = <<>>
              \/ /\ pc \in {"game", "clientGame", "clear", "answer"}
                 /\ g[t].pkt.name = "ChangeGameTimeRsp"
                 /\ pc = "game" => g[t].times = <<>>
  PROVE  Moves(t) /\ g'[t].pc = pc /\ g'[t].pkt = g[t].pkt /\ g'[t].times = g[t].times
<1> DEFINE pkt == g[t].pkt
           times == g[t].times
<1>1. pkt \in From(t) /\ times \in Seq(Nat) /\ pkt \in Requests \cup Answers
  BY Where DEF From
<1>2. t = "endpoint" => times = <<>>
  BY DEF TInv, GoroutinesOK, Is, EndpointAt
<1>3. t # "endpoint" => t = "upstream"
  BY SidesDiffer
<1>4. pc \in Pcs
  <2>1. pc \in {"send", "change", "execute", "respond", "game", "clientGame", "clear", "answer"}
    OBVIOUS
  <2> QED
    BY <2>1 DEF Pcs
<1> HIDE DEF pkt, times
<1>5. Is(t, [pc |-> pc, pkt |-> pkt, times |-> times])
  <2>1. [pc |-> pc, pkt |-> pkt, times |-> times] \in Goroutines
    BY <1>1, <1>4 DEF Goroutines
  <2>2. CASE t = "endpoint"
    BY <1>1, <1>2, <2>1, <2>2 DEF Is, EndpointAt, From, pkt
  <2>3. CASE t # "endpoint"
    BY <1>1, <2>1, <2>3 DEF Is, UpstreamAt, From, pkt, times
  <2> QED
    BY <2>2, <2>3
<1> QED
  BY <1>5, NowMoves DEF pkt, times

LEMMA SideOf ==
  ASSUME TInv, NEW t \in Sides, g[t].pc \notin {"payload", "ended"}
  PROVE  /\ g[t].pkt.name \in RequestNames => t = "endpoint"
         /\ g[t].pkt.name \in AnswerNames => t = "upstream"
         /\ Shaped(g[t].pkt) /\ g[t].pkt.info \in Seq(Nat) /\ g[t].pkt.key \in Keys
         /\ g[t].pkt.lang \in Sides
         /\ g[t].pkt.name \in (IF t = "endpoint" THEN RequestNames ELSE AnswerNames)
<1>1. g[t].pkt \in From(t)
  BY Where
<1>2. CASE t = "endpoint"
  BY <1>1, <1>2, Directions, PacketFields DEF From, Requests
<1>3. CASE t # "endpoint"
  <2>1. t = "upstream"
    BY <1>3, SidesDiffer
  <2>2. g[t].pkt \in Answers
    BY <1>1, <1>3 DEF From
  <2> QED
    BY <1>3, <2>1, <2>2, Directions, PacketFields DEF Answers
<1> QED
  BY <1>2, <1>3

\* Shaped says nothing of the other names.
LEMMA ShapedOther ==
  ASSUME NEW name, NEW key, NEW lang, NEW info,
         name \notin {"GetPlayerTokenReq", "GetPlayerTokenRsp", "ClientSetGameTimeReq",
                      "PullRecentChatReq"}
  PROVE  Shaped(Packet(name, key, lang, info))
  BY DEF Shaped, Packet

LEMMA ShapedSame ==
  ASSUME NEW pkt, Shaped(pkt), NEW key, NEW lang
  PROVE  Shaped(Packet(pkt.name, key, lang, pkt.info))
  BY DEF Shaped, Packet

LEMMA PlainDoes ==
  ASSUME TInv, NEW t \in Sides,
         \/ HandlePlain(t) \/ OnPullPrivateChatReq(t) \/ OnGetPlayerFriendListRsp(t)
         \/ OnMarkMapReq(t)
  PROVE  /\ Moves(t) /\ Aside /\ UNCHANGED <<outq, keys, caches>>
         /\ g[t].pc = "handle"
         /\ g[t].pkt.name \in {"PingReq", "ChangeGameTimeReq", "GetPlayerFriendListReq", "Notify",
                               "PullPrivateChatReq", "GetPlayerFriendListRsp", "MarkMapReq"}
         /\ g'[t].times = <<>>
<1>1. g[t].pc = "handle" /\ g[t].times = <<>>
  BY Where DEF HandlePlain, OnPullPrivateChatReq, OnGetPlayerFriendListRsp, OnMarkMapReq, At
<1>2. Aside /\ UNCHANGED <<outq, keys, caches>>
  BY DEF HandlePlain, OnPullPrivateChatReq, OnGetPlayerFriendListRsp, OnMarkMapReq, Aside
<1>3. g[t].pkt.name \in {"PingReq", "ChangeGameTimeReq", "GetPlayerFriendListReq", "Notify",
                         "PullPrivateChatReq", "GetPlayerFriendListRsp", "MarkMapReq"}
  BY DEF HandlePlain, OnPullPrivateChatReq, OnGetPlayerFriendListRsp, OnMarkMapReq, At
<1>4. /\ g[t].pkt.info \in Seq(Nat) /\ g[t].pkt.name \in (IF t = "endpoint" THEN RequestNames ELSE AnswerNames)
      /\ \A key, lang, info : Shaped(Packet(g[t].pkt.name, key, lang, info))
  BY <1>1, <1>3, SideOf, ShapedOther
<1>5. CASE HandlePlain(t)
  BY <1>1, <1>2, <1>3, <1>4, <1>5, Passes DEF HandlePlain
<1>6. CASE OnGetPlayerFriendListRsp(t)
  <2>1. Append(g[t].pkt.info, ConsoleUid) \in Seq(Nat)
    BY <1>4, AppendProperties DEF ConsoleUid
  <2> QED
    BY <1>1, <1>2, <1>3, <1>4, <1>6, <2>1, Passes DEF OnGetPlayerFriendListRsp
<1>7. CASE OnPullPrivateChatReq(t) \/ (OnMarkMapReq(t) /\ PassRaw(t))
  <2>1. Now(t, "send", g[t].pkt, g[t].times)
    BY <1>7, Goes DEF OnPullPrivateChatReq, PassRaw
  <2> QED
    BY <1>1, <1>2, <1>3, <2>1, Advances
<1>8. CASE OnMarkMapReq(t) /\ ~PassRaw(t)
  <2>1. Now(t, "payload", NoPacket, <<>>)
    BY <1>1, <1>8, Fields DEF OnMarkMapReq
  <2>2. t = "endpoint"
    BY <1>1, <1>8, SideOf DEF OnMarkMapReq, At, RequestNames
  <2>3. Is(t, [pc |-> "payload", pkt |-> NoPacket, times |-> <<>>])
    BY <2>2, EmptySeq DEF Is, Goroutines, EndpointAt, Pcs
  <2>4. NoPacket.name = "none"
    BY DEF NoPacket, Packet
  <2> QED
    BY <1>1, <1>2, <1>3, <2>1, <2>3, <2>4, NowMoves
<1> QED
  BY <1>5, <1>6, <1>7, <1>8

LEMMA ChatDoes ==
  ASSUME TInv, NEW t \in Sides,
         OnPrivateChatReq(t) \/ SendConsoleAnswer(t) \/ SendPrivateChatRsp(t)
  PROVE  /\ t = "endpoint" /\ Moves(t) /\ Aside /\ UNCHANGED <<keys, caches>>
         /\ g[t].pkt.name = "PrivateChatReq"
         /\ \E pkt : Sends("endpoint", pkt) /\ pkt.name \in {"PrivateChatNotify", "PrivateChatRsp"}
<1>1. Aside /\ UNCHANGED <<keys, caches>>
  BY DEF OnPrivateChatReq, SendConsoleAnswer, SendPrivateChatRsp, Inject, Aside
<1>2. g[t].pc \in {"handle", "execute", "respond"}
  BY DEF OnPrivateChatReq, SendConsoleAnswer, SendPrivateChatRsp, Inject, At
<1>3. t = "endpoint" /\ g[t].pkt.name = "PrivateChatReq" /\ g[t].times = <<>>
  <2>1. CASE OnPrivateChatReq(t)
    BY <2>1, SideOf, Where DEF OnPrivateChatReq, At, RequestNames
  <2>2. CASE g[t].pc \in {"execute", "respond"}
    <3>1. t = "endpoint"
      BY <2>2, Where
    <3>2. Is(t, g[t])
      BY DEF TInv, GoroutinesOK
    <3> QED
      BY <2>2, <3>1, <3>2 DEF Is, EndpointAt
  <2> QED
    BY <2>1, <2>2 DEF OnPrivateChatReq, SendConsoleAnswer, SendPrivateChatRsp, Inject
<1>4. /\ g[t].pkt.info \in Seq(Nat) /\ t \in Sides /\ Opposite(t) \in Sides
      /\ \A key, lang, info : Shaped(Packet(g[t].pkt.name, key, lang, info))
      /\ \A key, lang, info : Shaped(Packet("PrivateChatNotify", key, lang, info))
      /\ \A key, lang, info : Shaped(Packet("PrivateChatRsp", key, lang, info))
  BY <1>2, <1>3, SideOf, SidesDiffer, ShapedOther
<1>5. /\ \A key, lang, info : Packet("PrivateChatNotify", key, lang, info).name = "PrivateChatNotify"
      /\ \A key, lang, info : Packet("PrivateChatRsp", key, lang, info).name = "PrivateChatRsp"
  BY DEF Packet
<1>6. <<playerUid>> \in Seq(Nat) /\ <<>> \in Seq(Nat)
  BY EmptySeq DEF TInv, SharedOK, Uid
<1>7. Moves(t)
  <2>1. CASE PassOn(t, g[t].pkt.info) /\ g[t].pc = "handle"
    BY <1>4, <2>1, Passes
  <2>2. CASE \E pc \in {"execute", "respond", "send"} : Go(t, pc)
    <3>1. PICK pc \in {"execute", "respond", "send"} : Now(t, pc, g[t].pkt, g[t].times)
      BY <2>2, Goes
    <3> QED
      BY <1>2, <1>3, <3>1, Advances
  <2> QED
    BY <2>1, <2>2 DEF OnPrivateChatReq, SendConsoleAnswer, SendPrivateChatRsp, Inject, At
<1>8. \E pkt : Sends("endpoint", pkt) /\ pkt.name \in {"PrivateChatNotify", "PrivateChatRsp"}
  <2>1. CASE OnPrivateChatReq(t) \/ SendConsoleAnswer(t)
    <3>1. SendPacket("endpoint", "PrivateChatNotify", t, <<playerUid>>)
      BY <2>1 DEF OnPrivateChatReq, SendConsoleAnswer, Inject
    <3>2. Sends("endpoint", Packet("PrivateChatNotify", KeyFor("PrivateChatNotify"), t, <<playerUid>>))
      BY <1>3, <1>4, <1>6, <3>1, SendPacketSends DEF InjectedNames
    <3> QED
      BY <1>5, <3>2
  <2>2. CASE SendPrivateChatRsp(t)
    <3>1. SendPacket("endpoint", "PrivateChatRsp", Opposite(t), <<>>)
      BY <2>2 DEF SendPrivateChatRsp, Inject
    <3>2. Sends("endpoint", Packet("PrivateChatRsp", KeyFor("PrivateChatRsp"), Opposite(t), <<>>))
      BY <1>3, <1>4, <1>6, <3>1, SendPacketSends DEF InjectedNames
    <3> QED
      BY <1>5, <3>2
  <2> QED
    BY <2>1, <2>2
<1> QED
  BY <1>1, <1>3, <1>7, <1>8

LEMMA TokenReqDoes ==
  ASSUME TInv, NEW t \in Sides, OnGetPlayerTokenReq(t)
  PROVE  /\ t = "endpoint" /\ Moves(t) /\ Aside /\ UNCHANGED <<outq, loginKey, playerUid, caches>>
         /\ g[t].pc = "handle" /\ g[t].pkt.name = "GetPlayerTokenReq" /\ loginRand' = Rand
         /\ g'[t].pc = "send" /\ g'[t].pkt.name = "GetPlayerTokenReq"
<1>1. g[t].pc = "handle" /\ g[t].pkt.name = "GetPlayerTokenReq"
  BY DEF OnGetPlayerTokenReq, At
<1>2. /\ t = "endpoint" /\ Shaped(g[t].pkt) /\ g[t].pkt.info \in Seq(Nat)
      /\ Shaped(Packet(g[t].pkt.name, g[t].pkt.key, Opposite(t), g[t].pkt.info))
  BY <1>1, SideOf, ShapedSame DEF RequestNames
<1>3. g[t].pkt.info[1] = Rand
  BY <1>1, <1>2 DEF Shaped
<1>4. PassOn(t, g[t].pkt.info) /\ loginRand' = g[t].pkt.info[1]
  BY DEF OnGetPlayerTokenReq
<1>5. Aside /\ UNCHANGED <<outq, loginKey, playerUid, caches>>
  BY DEF OnGetPlayerTokenReq, Aside
<1> QED
  BY <1>1, <1>2, <1>3, <1>4, <1>5, Passes

LEMMA TokenRspDoes ==
  ASSUME TInv, NEW t \in Sides, OnGetPlayerTokenRsp(t)
  PROVE  /\ t = "upstream" /\ Moves(t) /\ Aside /\ UNCHANGED <<outq, loginRand, caches>>
         /\ g[t].pc = "handle" /\ g[t].pkt.name = "GetPlayerTokenRsp"
         /\ loginKey' = Key(loginRand, Seed) /\ playerUid' = Uid
         /\ g'[t].pc = "send" /\ g'[t].pkt.name = "GetPlayerTokenRsp"
<1>1. g[t].pc = "handle" /\ g[t].pkt.name = "GetPlayerTokenRsp"
  BY DEF OnGetPlayerTokenRsp, At
<1>2. /\ t = "upstream" /\ Shaped(g[t].pkt) /\ g[t].pkt.info \in Seq(Nat)
      /\ Shaped(Packet(g[t].pkt.name, g[t].pkt.key, Opposite(t), g[t].pkt.info))
  BY <1>1, SideOf, ShapedSame DEF AnswerNames
<1>3. g[t].pkt.info[1] = Seed
  BY <1>1, <1>2 DEF Shaped
<1>4. PassOn(t, g[t].pkt.info) /\ loginKey' = Key(loginRand, g[t].pkt.info[1])
  BY DEF OnGetPlayerTokenRsp, NewKeyBlock
<1>5. Aside /\ UNCHANGED <<outq, loginRand, caches>> /\ playerUid' = Uid
  BY DEF OnGetPlayerTokenRsp, Aside
<1> QED
  BY <1>1, <1>2, <1>3, <1>4, <1>5, Passes

LEMMA SetTimeDoes ==
  ASSUME TInv, NEW t \in Sides, OnClientSetGameTimeReq(t)
  PROVE  /\ t = "endpoint" /\ Moves(t) /\ Aside /\ UNCHANGED <<outq, keys, cachedPullRecentChat>>
         /\ g[t].pc = "handle" /\ g[t].pkt.name = "ClientSetGameTimeReq"
         /\ g'[t].pc = "change" /\ g'[t].pkt = g[t].pkt
         /\ cachedClientSetGameTime' \in 1..MaxSends
         /\ g[t].pkt.info = <<cachedClientSetGameTime'>>
<1>1. g[t].pc = "handle" /\ g[t].pkt.name = "ClientSetGameTimeReq"
  BY DEF OnClientSetGameTimeReq, At
<1>2. t = "endpoint" /\ Shaped(g[t].pkt)
  BY <1>1, SideOf DEF RequestNames
<1>3. PICK n \in 1..MaxSends : g[t].pkt.info = <<n>>
  BY <1>1, <1>2 DEF Shaped
<1>4. Now(t, "change", g[t].pkt, g[t].times) /\ cachedClientSetGameTime' = n
  BY <1>3, Goes DEF OnClientSetGameTimeReq
<1>5. Aside /\ UNCHANGED <<outq, keys, cachedPullRecentChat>>
  BY DEF OnClientSetGameTimeReq, Aside
<1>6. Moves(t) /\ g'[t].pc = "change" /\ g'[t].pkt = g[t].pkt
  BY <1>1, <1>2, <1>4, Advances
<1> QED
  BY <1>1, <1>2, <1>3, <1>4, <1>5, <1>6

LEMMA SendChangeDoes ==
  ASSUME TInv, NEW t \in Sides, SendChangeGameTimeReq(t)
  PROVE  /\ t = "endpoint" /\ Moves(t) /\ Aside /\ UNCHANGED <<keys, caches>>
         /\ g[t].pc = "change" /\ g[t].pkt.name = "ClientSetGameTimeReq"
         /\ g'[t].pc = "send"
         /\ \E pkt : Sends("upstream", pkt) /\ pkt.name = "ChangeGameTimeReq"
<1>1. g[t].pc = "change"
  BY DEF SendChangeGameTimeReq, Inject
<1>2. t = "endpoint" /\ g[t].pkt.info \in Seq(Nat)
  BY <1>1, Where, SideOf
<1>3. g[t].pkt.name = "ClientSetGameTimeReq"
  BY <1>1, <1>2 DEF TInv, GoroutinesOK, Is, EndpointAt
<1>4. Now(t, "send", g[t].pkt, g[t].times)
  BY Goes DEF SendChangeGameTimeReq, Inject
<1>5. Moves(t) /\ g'[t].pc = "send"
  BY <1>1, <1>2, <1>4, Advances
<1>6. /\ Shaped(Packet("ChangeGameTimeReq", KeyFor("ChangeGameTimeReq"), "upstream", g[t].pkt.info))
      /\ "upstream" \in Sides
  BY ShapedOther, SidesDiffer
<1>7. SendPacket("upstream", "ChangeGameTimeReq", "upstream", g[t].pkt.info)
  BY DEF SendChangeGameTimeReq, Inject
<1>8. Sends("upstream", Packet("ChangeGameTimeReq", KeyFor("ChangeGameTimeReq"), "upstream", g[t].pkt.info))
  BY <1>2, <1>6, <1>7, SendPacketSends DEF RequestNames
<1>9. Packet("ChangeGameTimeReq", KeyFor("ChangeGameTimeReq"), "upstream", g[t].pkt.info).name
        = "ChangeGameTimeReq"
  BY DEF Packet
<1>10. Aside /\ UNCHANGED <<keys, caches>>
  BY DEF SendChangeGameTimeReq, Inject, Aside
<1> QED
  BY <1>1, <1>2, <1>3, <1>5, <1>8, <1>9, <1>10

LEMMA ChangeRspDoes ==
  ASSUME TInv, NEW t \in Sides, OnChangeGameTimeRsp(t)
  PROVE  /\ t = "upstream" /\ Moves(t) /\ Aside /\ UNCHANGED <<outq, keys, caches>>
         /\ g[t].pc = "handle" /\ g[t].pkt.name = "ChangeGameTimeRsp" /\ g'[t].times = <<>>
         /\ g'[t].pc = IF cachedClientSetGameTime = 0 THEN "send" ELSE "game"
<1>1. g[t].pc = "handle" /\ g[t].pkt.name = "ChangeGameTimeRsp"
  BY DEF OnChangeGameTimeRsp, At
<1>2. t = "upstream" /\ g[t].pkt.info \in Seq(Nat) /\ g[t].times = <<>>
  BY <1>1, SideOf, Where DEF AnswerNames
<1>3. Aside /\ UNCHANGED <<outq, keys, caches>>
  BY DEF OnChangeGameTimeRsp, Aside
<1>4. CASE cachedClientSetGameTime = 0
  <2>1. PassOn(t, g[t].pkt.info)
    BY <1>4 DEF OnChangeGameTimeRsp
  <2>2. Shaped(Packet(g[t].pkt.name, g[t].pkt.key, Opposite(t), g[t].pkt.info))
    BY <1>1, ShapedOther
  <2>3. Moves(t) /\ g'[t].pc = "send" /\ g'[t].times = <<>>
    BY <1>1, <1>2, <2>1, <2>2, Passes
  <2> QED
    BY <1>1, <1>2, <1>3, <1>4, <2>3
<1>5. CASE cachedClientSetGameTime # 0
  <2>1. Now(t, "game", g[t].pkt, g[t].times)
    BY <1>5, Goes DEF OnChangeGameTimeRsp
  <2>2. Moves(t) /\ g'[t].pc = "game" /\ g'[t].times = g[t].times
    BY <1>1, <1>2, <2>1, Advances
  <2>3. g'[t].times = <<>> /\ g'[t].pc = IF cachedClientSetGameTime = 0 THEN "send" ELSE "game"
    BY <1>2, <1>5, <2>2
  <2> QED
    BY <1>1, <1>2, <1>3, <2>2, <2>3
<1> QED
  BY <1>4, <1>5

LEMMA AtChange ==
  ASSUME TInv, NEW t \in Sides, g[t].pc \in {"game", "clientGame", "clear", "answer"}
  PROVE  t = "upstream" /\ g[t].pkt.name = "ChangeGameTimeRsp" /\ g[t].pkt \in Answers
<1>1. t = "upstream"
  BY Where
<1>2. UpstreamAt(g[t])
  BY <1>1 DEF TInv, GoroutinesOK, Is
<1> QED
  BY <1>1, <1>2 DEF UpstreamAt

LEMMA ReadTimeDoes ==
  ASSUME TInv, NEW t \in Sides, ReadTime(t)
  PROVE  /\ t = "upstream" /\ Moves(t) /\ Aside /\ UNCHANGED <<outq, keys, caches>>
         /\ g[t].pkt.name = "ChangeGameTimeRsp"
         /\ g[t].pc \in {"game", "clientGame"}
         /\ g[t].pc = "game" => g[t].times = <<>>
         /\ g'[t].pc = IF g[t].pc = "game" THEN "clientGame" ELSE "clear"
         /\ g'[t].times = Append(g[t].times, cachedClientSetGameTime)
<1> DEFINE pc == IF g[t].pc = "game" THEN "clientGame" ELSE "clear"
           times == Append(g[t].times, cachedClientSetGameTime)
<1>1. g[t].pc \in {"game", "clientGame"} /\ pc \in {"clientGame", "clear"}
  BY DEF ReadTime
<1>2. t = "upstream" /\ g[t].pkt.name = "ChangeGameTimeRsp" /\ g[t].pkt \in Answers
  BY <1>1, AtChange
<1>3. g[t].pc = "game" => g[t].times = <<>>
  BY <1>2 DEF TInv, GoroutinesOK, Is, UpstreamAt
<1>4. Now(t, pc, g[t].pkt, times)
  <2>1. g' = [g EXCEPT ![t].pc = pc, ![t].times = times]
    <3>1. g \in [Sides -> Goroutines] /\ g[t] \in Goroutines
      BY DEF TInv, GoroutinesOK
    <3> QED
      BY <3>1 DEF ReadTime, Goroutines
  <2> HIDE DEF pc, times
  <2> QED
    BY <2>1, Fields
<1>5. times \in Seq(Nat)
  <2>1. g[t].times \in Seq(Nat) /\ cachedClientSetGameTime \in Nat
    BY Where, ProxyConstants DEF TInv, SharedOK
  <2> QED
    BY <2>1, AppendProperties
<1>6. Aside /\ UNCHANGED <<outq, keys, caches>>
  BY DEF ReadTime, Aside
<1>7. Is(t, [pc |-> pc, pkt |-> g[t].pkt, times |-> times])
  <2> DEFINE pkt == g[t].pkt
  <2>1. pc \in Pcs /\ pc \in {"clientGame", "clear"}
    BY <1>1 DEF Pcs
  <2>2. pkt \in Answers /\ pkt.name = "ChangeGameTimeRsp"
    BY <1>2
  <2> HIDE DEF pc, times, pkt
  <2> QED
    BY <1>2, <1>5, <2>1, <2>2 DEF Is, Goroutines, UpstreamAt, pkt
<1>8. g[t].pc \notin {"payload", "send", "ended"} /\ pc \notin {"handle", "ended"}
  BY <1>1
<1> HIDE DEF pc, times
<1>9. Moves(t) /\ g'[t].pc = pc /\ g'[t].times = times
  BY <1>4, <1>7, <1>8, NowMoves
<1> QED
  BY <1>1, <1>2, <1>3, <1>6, <1>9 DEF pc, times

LEMMA ClearTimeDoes ==
  ASSUME TInv, NEW t \in Sides, ClearTime(t)
  PROVE  /\ t = "upstream" /\ Moves(t) /\ Aside /\ UNCHANGED <<outq, keys, cachedPullRecentChat>>
         /\ g[t].pkt.name = "ChangeGameTimeRsp" /\ g[t].pc = "clear"
         /\ g'[t].pc = "answer" /\ g'[t].times = g[t].times /\ cachedClientSetGameTime' = 0
<1>1. g[t].pc = "clear"
  BY DEF ClearTime
<1>2. t = "upstream" /\ g[t].pkt.name = "ChangeGameTimeRsp"
  BY <1>1, AtChange
<1>3. Now(t, "answer", g[t].pkt, g[t].times)
  BY Goes DEF ClearTime
<1>4. Moves(t) /\ g'[t].pc = "answer" /\ g'[t].times = g[t].times
  BY <1>1, <1>2, <1>3, Advances
<1>5. Aside /\ UNCHANGED <<outq, keys, cachedPullRecentChat>> /\ cachedClientSetGameTime' = 0
  BY DEF ClearTime, Aside, Forgotten
<1> QED
  BY <1>1, <1>2, <1>4, <1>5

LEMMA AnswerDoes ==
  ASSUME TInv, NEW t \in Sides, SendClientSetGameTimeRsp(t)
  PROVE  /\ t = "upstream" /\ Moves(t) /\ Aside /\ UNCHANGED <<keys, caches>>
         /\ g[t].pkt.name = "ChangeGameTimeRsp" /\ g[t].pc = "answer"
         /\ g'[t].pc = "send" /\ g'[t].times = <<>>
         /\ \E pkt : Sends("endpoint", pkt) /\ pkt.name = "ClientSetGameTimeRsp"
                       /\ pkt.info = g[t].times
<1>1. g[t].pc = "answer"
  BY DEF SendClientSetGameTimeRsp
<1>2. t = "upstream" /\ g[t].pkt.name = "ChangeGameTimeRsp" /\ g[t].pkt \in Answers
      /\ g[t].times \in Seq(Nat) /\ t # "endpoint"
  BY <1>1, AtChange, Where
<1>3. Now(t, "send", g[t].pkt, <<>>)
  BY Fields DEF SendClientSetGameTimeRsp
<1>4. Is(t, [pc |-> "send", pkt |-> g[t].pkt, times |-> <<>>])
  <2> DEFINE pkt == g[t].pkt
  <2>1. pkt \in Answers
    BY <1>2
  <2> HIDE DEF pkt
  <2> QED
    BY <1>2, <2>1, EmptySeq DEF Is, Goroutines, UpstreamAt, Pcs, pkt
<1>5. Moves(t) /\ g'[t].pc = "send" /\ g'[t].times = <<>>
  BY <1>1, <1>3, <1>4, NowMoves
<1> DEFINE pkt == Packet("ClientSetGameTimeRsp", KeyFor("ClientSetGameTimeRsp"), "endpoint", g[t].times)
<1>6. Sends("endpoint", pkt)
  <2>1. SendPacket("endpoint", "ClientSetGameTimeRsp", "endpoint", g[t].times)
    BY DEF SendClientSetGameTimeRsp
  <2> QED
    BY <1>2, <2>1, SendPacketSends, ShapedOther, SidesDiffer DEF InjectedNames
<1>7. pkt.name = "ClientSetGameTimeRsp" /\ pkt.info = g[t].times
  BY DEF Packet
<1>8. Aside /\ UNCHANGED <<keys, caches>>
  BY DEF SendClientSetGameTimeRsp, Aside
<1> QED
  BY <1>1, <1>2, <1>5, <1>6, <1>7, <1>8

LEMMA PullReqDoes ==
  ASSUME TInv, NEW t \in Sides, OnPullRecentChatReq(t)
  PROVE  /\ t = "endpoint" /\ Moves(t) /\ Aside
         /\ UNCHANGED <<outq, keys, cachedClientSetGameTime>>
         /\ g[t].pc = "handle" /\ g[t].pkt.name = "PullRecentChatReq"
         /\ g'[t].pc = "send" /\ g'[t].pkt.name = "PullRecentChatReq"
         /\ g'[t].pkt.info = g[t].pkt.info /\ g[t].pkt.info \in {<<0>>, <<1>>}
         /\ cachedPullRecentChat' = IF g[t].pkt.info = <<0>> THEN 0 ELSE cachedPullRecentChat
<1>1. g[t].pc = "handle" /\ g[t].pkt.name = "PullRecentChatReq"
  BY DEF OnPullRecentChatReq, At
<1>2. /\ t = "endpoint" /\ Shaped(g[t].pkt) /\ g[t].pkt.info \in Seq(Nat)
      /\ Shaped(Packet(g[t].pkt.name, g[t].pkt.key, Opposite(t), g[t].pkt.info))
  BY <1>1, SideOf, ShapedSame DEF RequestNames
<1>3. g[t].pkt.info \in {<<0>>, <<1>>}
  BY <1>1, <1>2 DEF Shaped
<1>4. PassOn(t, g[t].pkt.info) /\ cachedPullRecentChat' = Cached(cachedPullRecentChat, g[t].pkt.info[1])
  BY DEF OnPullRecentChatReq
<1>5. Aside /\ UNCHANGED <<outq, keys, cachedClientSetGameTime>>
  BY DEF OnPullRecentChatReq, Aside
<1>6. cachedPullRecentChat' = IF g[t].pkt.info = <<0>> THEN 0 ELSE cachedPullRecentChat
  BY <1>3, <1>4 DEF Cached
<1> QED
  BY <1>1, <1>2, <1>3, <1>4, <1>5, <1>6, Passes

LEMMA PullRspDoes ==
  ASSUME TInv, NEW t \in Sides, OnPullRecentChatRsp(t)
  PROVE  /\ t = "upstream" /\ Moves(t) /\ Aside
         /\ UNCHANGED <<outq, keys, cachedClientSetGameTime>>
         /\ g[t].pc = "handle" /\ g[t].pkt.name = "PullRecentChatRsp"
         /\ g'[t].pc = "send" /\ g'[t].pkt.name = "PullRecentChatRsp"
         /\ g'[t].pkt.info = IF cachedPullRecentChat = 0
                             THEN Append(g[t].pkt.info, ConsoleUid) ELSE g[t].pkt.info
         /\ cachedPullRecentChat' = -1
<1>1. g[t].pc = "handle" /\ g[t].pkt.name = "PullRecentChatRsp"
  BY DEF OnPullRecentChatRsp, At
<1>2. /\ t = "upstream" /\ g[t].pkt.info \in Seq(Nat)
      /\ \A info : Shaped(Packet(g[t].pkt.name, g[t].pkt.key, Opposite(t), info))
  BY <1>1, SideOf, ShapedOther DEF AnswerNames
<1> DEFINE info == IF cachedPullRecentChat = 0
                   THEN Append(g[t].pkt.info, ConsoleUid) ELSE g[t].pkt.info
<1>3. info \in Seq(Nat)
  BY <1>2, AppendProperties DEF ConsoleUid
<1>4. PassOn(t, info) /\ cachedPullRecentChat' = -1
  <2>1. cachedPullRecentChat \in {-1, 0}
    BY DEF TInv, SharedOK
  <2> QED
    BY <2>1 DEF OnPullRecentChatRsp, Pulled
<1>5. Aside /\ UNCHANGED <<outq, keys, cachedClientSetGameTime>>
  BY DEF OnPullRecentChatRsp, Aside
<1> HIDE DEF info
<1>6. Moves(t) /\ g'[t].pc = "send" /\ g'[t].pkt.name = g[t].pkt.name /\ g'[t].pkt.info = info
  BY <1>1, <1>2, <1>3, <1>4, Passes
<1> QED
  BY <1>1, <1>2, <1>4, <1>5, <1>6 DEF info

-----------------------------------------------------------------------------
(* Reading, sending, and the peers.                                        *)

LEMMA Queues ==
  ASSUME TInv, NEW t \in Sides
  PROVE  /\ inq \in [Sides -> Seq(Requests) \cup Seq(Answers)] /\ inq[t] \in Seq(From(t))
         /\ outq \in [Sides -> Seq(ToClient) \cup Seq(Requests)] /\ outq[t] \in Seq(To(t))
         /\ Seq(From(t)) \subseteq Seq(Requests) \cup Seq(Answers)
         /\ Seq(To(t)) \subseteq Seq(ToClient) \cup Seq(Requests)
  BY DEF TInv, QueuesOK, From, To

LEMMA ReadDoes ==
  ASSUME TInv, NEW t \in Sides, ReadPayload(t)
  PROVE  /\ g[t].pc = "payload" /\ g[t].pkt = NoPacket
         /\ inq[t] # <<>> /\ inq'[t] = Tail(inq[t]) /\ \A s \in Sides \ {t} : inq'[s] = inq[s]
         /\ inq' \in [Sides -> Seq(Requests) \cup Seq(Answers)] /\ inq'[t] \in Seq(From(t))
         /\ UNCHANGED <<closed, ctxDone, outq, wg, keys, caches, client, server>>
         /\ GoroutinesOK' /\ \A s \in Sides \ {t} : g'[s] = g[s]
         /\ IF Decrypts(Head(inq[t]))
            THEN g'[t].pc = "handle" /\ g'[t].pkt = Head(inq[t]) /\ g'[t].times = <<>>
            ELSE g' = g
<1>1. g[t].pc = "payload" /\ inq[t] # <<>> /\ g[t].times = <<>> /\ g[t].pkt = NoPacket
  BY Where DEF ReadPayload
<1>2. /\ inq \in [Sides -> Seq(Requests) \cup Seq(Answers)] /\ inq[t] \in Seq(From(t))
      /\ Seq(From(t)) \subseteq Seq(Requests) \cup Seq(Answers)
  BY Queues
<1>3. Tail(inq[t]) \in Seq(From(t)) /\ Head(inq[t]) \in From(t)
  BY <1>1, <1>2, TailItems
<1>4. inq' = [inq EXCEPT ![t] = Tail(inq[t])]
  BY DEF ReadPayload
<1>5. /\ inq'[t] = Tail(inq[t]) /\ \A s \in Sides \ {t} : inq'[s] = inq[s]
      /\ inq' \in [Sides -> Seq(Requests) \cup Seq(Answers)]
  BY <1>2, <1>3, <1>4
<1>6. CASE Decrypts(Head(inq[t]))
  <2> DEFINE pkt == Head(inq[t])
  <2>1. Now(t, "handle", pkt, <<>>)
    BY <1>1, <1>6, Fields DEF ReadPayload
  <2>2. pkt \in From(t) /\ (t # "endpoint" => t = "upstream") /\ pkt \in Requests \cup Answers
    BY <1>3, SidesDiffer DEF From
  <2> HIDE DEF pkt
  <2>3. [pc |-> "handle", pkt |-> pkt, times |-> <<>>] \in Goroutines
    BY <2>2, EmptySeq DEF Goroutines, Pcs
  <2>4. Is(t, [pc |-> "handle", pkt |-> pkt, times |-> <<>>])
    <3>1. CASE t = "endpoint"
      BY <2>2, <2>3, <3>1 DEF Is, EndpointAt, From
    <3>2. CASE t # "endpoint"
      BY <2>2, <2>3, <3>2 DEF Is, UpstreamAt, From
    <3> QED
      BY <3>1, <3>2
  <2>5. /\ g'[t].pc = "handle" /\ g'[t].pkt = pkt /\ g'[t].times = <<>>
        /\ GoroutinesOK' /\ \A s \in Sides \ {t} : g'[s] = g[s]
    BY <2>1, <2>4, NowIs
  <2> QED
    BY <1>1, <1>3, <1>5, <1>6, <2>5 DEF ReadPayload, pkt
<1>7. CASE ~Decrypts(Head(inq[t]))
  <2>1. g' = g
    BY <1>7 DEF ReadPayload
  <2>2. GoroutinesOK'
    BY <2>1 DEF TInv, GoroutinesOK, Is, EndpointAt, UpstreamAt
  <2> QED
    BY <1>1, <1>3, <1>5, <1>7, <2>1, <2>2 DEF ReadPayload
<1> QED
  BY <1>6, <1>7

LEMMA FailsDoes ==
  ASSUME TInv, NEW t \in Sides, PayloadFails(t)
  PROVE  /\ t = "endpoint" /\ GoroutinesOK' /\ \A s \in Sides \ {t} : g'[s] = g[s]
         /\ g[t].pc = "payload" /\ g'[t].pc = "ended" /\ g'[t].pkt = g[t].pkt /\ wg' = wg - 1
         /\ UNCHANGED <<transports, outq, keys, caches, client, server>>
<1>1. t = "endpoint" /\ g[t].pc = "payload" /\ g[t].times = <<>> /\ g[t].pkt = NoPacket
  BY Where DEF PayloadFails, TInv, StopOK
<1>2. Now(t, "ended", NoPacket, <<>>)
  BY <1>1, Goes DEF PayloadFails
<1>3. Is(t, [pc |-> "ended", pkt |-> NoPacket, times |-> <<>>])
  BY <1>1, EmptySeq DEF Is, Goroutines, EndpointAt, Pcs
<1>4. /\ GoroutinesOK' /\ \A s \in Sides \ {t} : g'[s] = g[s]
      /\ g'[t].pc = "ended" /\ g'[t].pkt = NoPacket
  BY <1>2, <1>3, NowIs
<1> QED
  BY <1>1, <1>4 DEF PayloadFails

LEMMA SendOnDoes ==
  ASSUME TInv, NEW t \in Sides, SendOn(t)
  PROVE  /\ GoroutinesOK' /\ \A s \in Sides \ {t} : g'[s] = g[s]
         /\ g[t].pc = "send" /\ g'[t].pc = "payload" /\ g'[t].pkt = NoPacket /\ g'[t].times = <<>>
         /\ Aside /\ UNCHANGED <<keys, caches>>
         /\ \E pkt : /\ Sends(Opposite(t), pkt) /\ pkt.name = g[t].pkt.name
                     /\ pkt.info = g[t].pkt.info
<1>1. g[t].pc = "send" /\ g[t].times = <<>> /\ (t # "endpoint" => t = "upstream")
  BY Where, SidesDiffer DEF SendOn
<1>2. /\ Shaped(g[t].pkt) /\ g[t].pkt.info \in Seq(Nat) /\ g[t].pkt.lang \in Sides
      /\ g[t].pkt.name \in (IF t = "endpoint" THEN RequestNames ELSE AnswerNames)
  BY <1>1, SideOf
<1>3. Now(t, "payload", NoPacket, <<>>)
  BY <1>1, Fields DEF SendOn
<1>4. Is(t, [pc |-> "payload", pkt |-> NoPacket, times |-> <<>>])
  BY <1>1, EmptySeq DEF Is, Goroutines, EndpointAt, UpstreamAt, Pcs
<1>5. /\ GoroutinesOK' /\ \A s \in Sides \ {t} : g'[s] = g[s]
      /\ g'[t].pc = "payload" /\ g'[t].pkt = NoPacket /\ g'[t].times = <<>>
  BY <1>3, <1>4, NowIs
<1> DEFINE pkt == Packet(g[t].pkt.name, KeyFor(g[t].pkt.name), g[t].pkt.lang, g[t].pkt.info)
<1>6. Sends(Opposite(t), pkt)
  <2>1. SendPacket(Opposite(t), g[t].pkt.name, g[t].pkt.lang, g[t].pkt.info)
    BY DEF SendOn
  <2>2. Shaped(pkt)
    BY <1>2, ShapedSame
  <2>3. Opposite(t) \in Sides
    BY SidesDiffer
  <2>4. g[t].pkt.name \in (IF Opposite(t) = "endpoint" THEN AnswerNames \cup InjectedNames
                           ELSE RequestNames)
    BY <1>1, <1>2, SidesDiffer
  <2> QED
    BY <1>2, <2>1, <2>2, <2>3, <2>4, SendPacketSends
<1>7. pkt.name = g[t].pkt.name /\ pkt.info = g[t].pkt.info
  BY DEF Packet
<1>8. Aside /\ UNCHANGED <<keys, caches>>
  BY DEF SendOn, Aside
<1> QED
  BY <1>1, <1>5, <1>6, <1>7, <1>8

Arrives(t, pkt) == pkt \in From(t) /\ inq' = [inq EXCEPT ![t] = Append(@, pkt)]

LEMMA ArrivesKeep ==
  ASSUME TInv, NEW t \in Sides, NEW pkt, Arrives(t, pkt)
  PROVE  /\ inq' \in [Sides -> Seq(Requests) \cup Seq(Answers)]
         /\ \A s \in Sides : inq'[s] \in Seq(From(s))
         /\ \A s \in Sides \ {t} : inq'[s] = inq[s]
         /\ inq'[t] = Append(inq[t], pkt)
<1>1. /\ inq \in [Sides -> Seq(Requests) \cup Seq(Answers)]
      /\ \A s \in Sides : inq[s] \in Seq(From(s))
  BY DEF TInv, QueuesOK
<1>2. Append(inq[t], pkt) \in Seq(From(t))
  BY <1>1, AppendItems DEF Arrives
<1>3. Append(inq[t], pkt) \in Seq(Requests) \cup Seq(Answers)
  BY <1>2, Queues
<1>4. inq' = [inq EXCEPT ![t] = Append(inq[t], pkt)]
  BY DEF Arrives
<1> QED
  BY <1>1, <1>2, <1>3, <1>4

LEMMA Arriving ==
  ASSUME TInv, NEW t \in Sides, NEW name, NEW key \in Keys, NEW info \in Seq(Nat),
         name \in (IF t = "endpoint" THEN RequestNames ELSE AnswerNames),
         Shaped(Packet(name, key, t, info))
  PROVE  /\ Packet(name, key, t, info) \in From(t) /\ Packet(name, key, t, info).name = name
         /\ Packet(name, key, t, info).key = key /\ Packet(name, key, t, info).info = info
<1> DEFINE pkt == Packet(name, key, t, info)
<1>1. pkt.name = name /\ pkt.key = key /\ pkt.info = info
  BY DEF Packet
<1>2. \A names : name \in names => pkt \in [name : names, key : Keys, lang : Sides, info : Seq(Nat)]
  BY DEF Packet
<1> HIDE DEF pkt
<1>3. pkt \in From(t)
  BY <1>2 DEF From, Answers, Requests, Packets, pkt
<1> QED
  BY <1>1, <1>3 DEF pkt

ClientFields ==
  /\ client.key \in Keys /\ client.sends \in 0..MaxSends /\ client.time \in 0..MaxSends
  /\ client.pull \in {-1, 0, 1} /\ client.pings \in Nat
  /\ client.state \in {"new", "waiting", "in"}

Clients == [state : {"new", "waiting", "in"}, key : Keys, sends : 0..MaxSends, pings : Nat,
            time : 0..MaxSends, change : BOOLEAN, pull : {-1, 0, 1}]

LEMMA ClientAt == TInv => client \in Clients /\ ClientFields
  BY DEF TInv, PeersOK, Clients, ClientFields

\* The proxy and the server are idle.
ClientOnly == UNCHANGED <<closed, ctxDone, g, wg, keys, caches, server>>

\* The client has sent pkt.
ClientSays(pkt) ==
  /\ "endpoint" \notin closed /\ Arrives("endpoint", pkt) /\ ClientOnly /\ UNCHANGED outq
  /\ client' \in Clients /\ client'.key = client.key

LEMMA LoginDoes ==
  ASSUME TInv, ClientLogin
  PROVE  \E pkt : /\ ClientSays(pkt) /\ pkt.name = "GetPlayerTokenReq" /\ client.state = "new"
                  /\ client'.state = "waiting" /\ client'.time = client.time
                  /\ client'.pull = client.pull
<1>1. client \in Clients
  BY ClientAt
<1>2. /\ client' \in Clients /\ client'.key = client.key /\ client'.state = "waiting"
      /\ client'.time = client.time /\ client'.pull = client.pull /\ client.state = "new"
  BY <1>1 DEF ClientLogin, Clients
<1>3. ClientOnly /\ UNCHANGED outq /\ "endpoint" \notin closed
  BY DEF ClientLogin, ClientOnly
<1> DEFINE info == <<Rand>>
           pkt == Packet("GetPlayerTokenReq", Shared, "endpoint", info)
<1>4. Shaped(pkt) /\ info \in Seq(Nat)
  BY DEF Shaped, Packet, Rand
<1>5. inq' = [inq EXCEPT !["endpoint"] = Append(@, pkt)]
  BY DEF ClientLogin, FromClient
<1>6. pkt \in From("endpoint") /\ pkt.name = "GetPlayerTokenReq"
  <2>1. "GetPlayerTokenReq" \in RequestNames /\ "endpoint" \in Sides /\ Shared \in Keys
    BY SidesDiffer, KeysDiffer DEF RequestNames
  <2> HIDE DEF info
  <2> QED
    BY <1>4, <2>1, Arriving
<1> HIDE DEF pkt
<1> QED
  BY <1>2, <1>3, <1>5, <1>6 DEF ClientSays, Arrives

LEMMA PingDoes ==
  ASSUME TInv, ClientPing
  PROVE  \E pkt : /\ ClientSays(pkt) /\ pkt.name = "PingReq" /\ client.state # "new"
                  /\ client'.state = client.state /\ client'.time = client.time
                  /\ client'.pull = client.pull
<1>1. client \in Clients /\ client.sends < MaxSends /\ client.sends \in 0..MaxSends /\ client.pings \in Nat
      /\ client.key \in Keys
  BY ClientAt DEF ClientPing, ClientFields
<1>2. client.sends + 1 \in 0..MaxSends /\ client.pings + 1 \in Nat
  BY <1>1, ProxyConstants
<1>3. /\ client' \in Clients /\ client'.key = client.key /\ client'.state = client.state
      /\ client'.time = client.time /\ client'.pull = client.pull /\ client.state # "new"
  BY <1>1, <1>2 DEF ClientPing, Clients
<1>4. ClientOnly /\ UNCHANGED outq /\ "endpoint" \notin closed
  BY DEF ClientPing, ClientOnly
<1> DEFINE info == <<client.pings + 1>>
           pkt == Packet("PingReq", client.key, "endpoint", info)
<1>5. Shaped(pkt) /\ info \in Seq(Nat)
  BY <1>2, ShapedOther
<1>6. inq' = [inq EXCEPT !["endpoint"] = Append(@, pkt)]
  BY DEF ClientPing, FromClient
<1>7. pkt \in From("endpoint") /\ pkt.name = "PingReq"
  <2>1. "PingReq" \in RequestNames /\ "endpoint" \in Sides
    BY SidesDiffer DEF RequestNames
  <2> HIDE DEF info
  <2> QED
    BY <1>1, <1>5, <2>1, Arriving
<1> HIDE DEF pkt
<1> QED
  BY <1>3, <1>4, <1>6, <1>7 DEF ClientSays, Arrives

\* What a client that is in asks.
LEMMA AsksDoes ==
  ASSUME TInv, NEW name \in RequestNames, NEW info \in Seq(Nat), Asks(name, info),
         \A key, lang : Shaped(Packet(name, key, lang, info)),
         client' \in Clients, client'.key = client.key
  PROVE  /\ client.state = "in"
         /\ \E pkt : ClientSays(pkt) /\ pkt.name = name /\ pkt.info = info
<1>1. client.key \in Keys /\ client.state = "in"
  BY ClientAt DEF Asks, ClientFields
<1>2. ClientOnly /\ UNCHANGED outq /\ "endpoint" \notin closed
  BY DEF Asks, ClientOnly
<1> DEFINE pkt == Packet(name, client.key, "endpoint", info)
<1>3. inq' = [inq EXCEPT !["endpoint"] = Append(@, pkt)]
  BY DEF Asks, FromClient
<1>4. pkt \in From("endpoint") /\ pkt.name = name /\ pkt.info = info
  BY <1>1, Arriving, SidesDiffer
<1> HIDE DEF pkt
<1> QED
  BY <1>1, <1>2, <1>3, <1>4 DEF ClientSays, Arrives

LEMMA TimeDoes ==
  ASSUME TInv, ClientTime
  PROVE  /\ client.state = "in" /\ client'.state = "in" /\ client'.pull = client.pull
         /\ client'.time \in 1..MaxSends /\ (Patient => client.time = 0)
         /\ \E pkt : /\ ClientSays(pkt) /\ pkt.name = "ClientSetGameTimeReq"
                     /\ pkt.info = <<client'.time>>
<1>1. client \in Clients /\ client.sends < MaxSends /\ client.sends \in 0..MaxSends
  BY ClientAt DEF ClientTime, Asks, ClientFields
<1>2. client.sends + 1 \in 1..MaxSends /\ client.sends + 1 \in 0..MaxSends
  BY <1>1, ProxyConstants
<1>3. /\ client' \in Clients /\ client'.key = client.key /\ client'.state = client.state
      /\ client'.time = client.sends + 1 /\ client'.pull = client.pull
  BY <1>1, <1>2 DEF ClientTime, Clients
<1> DEFINE info == <<client.sends + 1>>
<1>4. \A key, lang : Shaped(Packet("ClientSetGameTimeReq", key, lang, info))
  BY <1>2 DEF Shaped, Packet
<1>5. info \in Seq(Nat) /\ Asks("ClientSetGameTimeReq", info) /\ (Patient => client.time = 0)
  BY <1>2 DEF ClientTime
<1>6. info = <<client'.time>>
  BY <1>3
<1> HIDE DEF info
<1>7. client.state = "in" /\ \E pkt : ClientSays(pkt) /\ pkt.name = "ClientSetGameTimeReq" /\ pkt.info = info
  BY <1>3, <1>4, <1>5, AsksDoes DEF RequestNames
<1> QED
  BY <1>2, <1>3, <1>5, <1>6, <1>7

LEMMA PullDoes ==
  ASSUME TInv, ClientPull
  PROVE  /\ client.state = "in" /\ client'.state = "in" /\ client'.time = client.time
         /\ client'.pull \in {0, 1} /\ (Patient => client.pull = -1)
         /\ \E pkt : /\ ClientSays(pkt) /\ pkt.name = "PullRecentChatReq"
                     /\ pkt.info = <<client'.pull>>
<1>1. client \in Clients /\ client.sends \in 0..MaxSends
  BY ClientAt DEF ClientFields
<1>2. PICK begin \in 0..1 :
        /\ Asks("PullRecentChatReq", <<begin>>)
        /\ client' = [client EXCEPT !.sends = @ + 1, !.pull = begin]
  BY DEF ClientPull
<1>3. client.sends + 1 \in 0..MaxSends /\ begin \in {0, 1}
  BY <1>1, <1>2, ProxyConstants DEF Asks
<1>4. /\ client' \in Clients /\ client'.key = client.key /\ client'.state = client.state
      /\ client'.time = client.time /\ client'.pull = begin
  BY <1>1, <1>2, <1>3 DEF Clients
<1> DEFINE info == <<begin>>
<1>5. \A key, lang : Shaped(Packet("PullRecentChatReq", key, lang, info))
  BY <1>3 DEF Shaped, Packet
<1>6. info \in Seq(Nat) /\ Asks("PullRecentChatReq", info) /\ (Patient => client.pull = -1)
  BY <1>2, <1>3 DEF ClientPull
<1>7. info = <<client'.pull>>
  BY <1>4
<1> HIDE DEF info
<1>8. client.state = "in" /\ \E pkt : ClientSays(pkt) /\ pkt.name = "PullRecentChatReq" /\ pkt.info = info
  BY <1>4, <1>5, <1>6, AsksDoes DEF RequestNames
<1> QED
  BY <1>3, <1>4, <1>6, <1>7, <1>8

LEMMA OtherAskDoes ==
  ASSUME TInv, ClientChange \/ ClientChat \/ ClientAsks
  PROVE  /\ client.state = "in" /\ client'.state = "in" /\ client'.time = client.time
         /\ client'.pull = client.pull
         /\ \E pkt : /\ ClientSays(pkt)
                     /\ pkt.name \in {"ChangeGameTimeReq", "PrivateChatReq", "MarkMapReq",
                                      "PullPrivateChatReq", "GetPlayerFriendListReq"}
<1>1. client \in Clients /\ client.sends \in 0..MaxSends
  BY ClientAt DEF ClientFields
<1>2. PICK name \in {"ChangeGameTimeReq", "PrivateChatReq", "MarkMapReq",
                     "PullPrivateChatReq", "GetPlayerFriendListReq"} :
        \E info \in Seq(Nat) : Asks(name, info)
  <2>1. <<>> \in Seq(Nat) /\ \A text \in 0..1 : <<text>> \in Seq(Nat)
    BY EmptySeq
  <2>2. CASE ClientChange
    BY <2>1, <2>2 DEF ClientChange
  <2>3. CASE ClientChat
    BY <2>1, <2>3 DEF ClientChat
  <2>4. CASE ClientAsks
    BY <2>1, <2>4 DEF ClientAsks
  <2> QED
    BY <2>2, <2>3, <2>4
<1>3. PICK info \in Seq(Nat) : Asks(name, info)
  BY <1>2
<1>4. client.sends + 1 \in 0..MaxSends
  BY <1>1, <1>3, ProxyConstants DEF Asks
<1>5. /\ client' \in Clients /\ client'.key = client.key /\ client'.state = client.state
      /\ client'.time = client.time /\ client'.pull = client.pull
  <2>1. CASE client' = [client EXCEPT !.sends = @ + 1]
    BY <1>1, <1>4, <2>1 DEF Clients
  <2>2. CASE client' = [client EXCEPT !.sends = @ + 1, !.change = TRUE]
    BY <1>1, <1>4, <2>2 DEF Clients
  <2> QED
    BY <2>1, <2>2 DEF ClientChange, ClientChat, ClientAsks
<1>6. name \in RequestNames /\ \A key, lang : Shaped(Packet(name, key, lang, info))
  BY <1>2, ShapedOther DEF RequestNames
<1>7. client.state = "in" /\ \E pkt : ClientSays(pkt) /\ pkt.name = name
  BY <1>3, <1>5, <1>6, AsksDoes
<1> QED
  BY <1>2, <1>5, <1>7

LEMMA TakesDoes ==
  ASSUME TInv, NEW t \in Sides, outq[t] # <<>>, outq' = [outq EXCEPT ![t] = Tail(@)]
  PROVE  /\ outq' \in [Sides -> Seq(ToClient) \cup Seq(Requests)]
         /\ \A s \in Sides : outq'[s] \in Seq(To(s))
         /\ outq'[t] = Tail(outq[t]) /\ \A s \in Sides \ {t} : outq'[s] = outq[s]
         /\ Head(outq[t]) \in To(t)
<1>1. /\ outq \in [Sides -> Seq(ToClient) \cup Seq(Requests)]
      /\ \A s \in Sides : outq[s] \in Seq(To(s))
  BY DEF TInv, QueuesOK
<1>2. Tail(outq[t]) \in Seq(To(t)) /\ Head(outq[t]) \in To(t)
  BY <1>1, TailItems
<1>3. Tail(outq[t]) \in Seq(ToClient) \cup Seq(Requests)
  BY <1>2, Queues
<1>4. outq' = [outq EXCEPT ![t] = Tail(outq[t])]
  OBVIOUS
<1> QED
  BY <1>1, <1>2, <1>3, <1>4

LEMMA ClientReadsDoes ==
  ASSUME TInv, ClientReads, NEW pkt, pkt = Head(outq["endpoint"])
  PROVE  /\ outq["endpoint"] # <<>> /\ outq' = [outq EXCEPT !["endpoint"] = Tail(@)]
         /\ "endpoint" \notin closed /\ UNCHANGED <<transports, g, wg, keys, caches, server>>
         /\ client' \in Clients
         /\ \/ ~Opens(client.key, pkt) /\ client' = client
            \/ /\ Opens(client.key, pkt)
               /\ client'.state = IF pkt.name = "GetPlayerTokenRsp" THEN "in" ELSE client.state
               /\ client'.time = IF pkt.name = "ClientSetGameTimeRsp" THEN 0 ELSE client.time
               /\ client'.pull = IF pkt.name = "PullRecentChatRsp" THEN -1 ELSE client.pull
<1>1. /\ outq["endpoint"] # <<>> /\ outq' = [outq EXCEPT !["endpoint"] = Tail(@)]
      /\ "endpoint" \notin closed /\ UNCHANGED <<transports, g, wg, keys, caches, server>>
  BY DEF ClientReads
<1>2. client \in Clients
  BY ClientAt
<1>3. pkt \in ToClient
  BY <1>1, TakesDoes, SidesDiffer DEF To
<1>4. pkt.name = "GetPlayerTokenRsp" => Key(Rand, pkt.info[1]) = SessionKey
  <2>1. Shaped(pkt)
    BY <1>3, PacketFields DEF ToClient
  <2> QED
    BY <2>1 DEF Shaped, SessionKey
<1>5. client' = IF Opens(client.key, pkt) THEN ClientGets(pkt) ELSE client
  BY DEF ClientReads
<1>6. CASE ~Opens(client.key, pkt)
  BY <1>1, <1>2, <1>5, <1>6
<1>7. CASE Opens(client.key, pkt)
  <2>1. client' = ClientGets(pkt)
    BY <1>5, <1>7
  <2> SUFFICES /\ client' \in Clients
               /\ client'.state = IF pkt.name = "GetPlayerTokenRsp" THEN "in" ELSE client.state
               /\ client'.time = IF pkt.name = "ClientSetGameTimeRsp" THEN 0 ELSE client.time
               /\ client'.pull = IF pkt.name = "PullRecentChatRsp" THEN -1 ELSE client.pull
    BY <1>1, <1>7
  <2>2. CASE pkt.name = "GetPlayerTokenRsp"
    <3>1. client' = [client EXCEPT !.state = "in", !.key = SessionKey]
      BY <1>4, <2>1, <2>2 DEF ClientGets
    <3> QED
      BY <1>2, <2>2, <3>1, KeysDiffer DEF Clients
  <2>3. CASE pkt.name = "ClientSetGameTimeRsp"
    <3>1. client' = [client EXCEPT !.time = 0]
      BY <2>1, <2>3 DEF ClientGets
    <3> QED
      BY <1>2, <2>3, <3>1, ProxyConstants DEF Clients
  <2>4. CASE pkt.name = "ChangeGameTimeRsp"
    <3>1. client' = [client EXCEPT !.change = FALSE]
      BY <2>1, <2>4 DEF ClientGets
    <3> QED
      BY <1>2, <2>4, <3>1 DEF Clients
  <2>5. CASE pkt.name = "PullRecentChatRsp"
    <3>1. client' = [client EXCEPT !.pull = -1]
      BY <2>1, <2>5 DEF ClientGets
    <3> QED
      BY <1>2, <2>5, <3>1 DEF Clients
  <2>6. CASE pkt.name \notin {"GetPlayerTokenRsp", "ClientSetGameTimeRsp", "ChangeGameTimeRsp",
                              "PullRecentChatRsp"}
    BY <1>2, <2>1, <2>6 DEF ClientGets
  <2> QED
    BY <2>2, <2>3, <2>4, <2>5, <2>6
<1> QED
  BY <1>6, <1>7

Servers == [key : Keys, pings : Seq(Nat), pushes : Nat]

LEMMA ServerAt == TInv => server \in Servers /\ server.key \in Keys /\ server.pings \in Seq(Nat)
  BY DEF TInv, PeersOK, Servers

\* What the server's packets are under.
KeyOf(name) == IF name = "GetPlayerTokenRsp" THEN Shared ELSE server.key

LEMMA ServerReadsDoes ==
  ASSUME TInv, ServerReads, NEW pkt, pkt = Head(outq["upstream"])
  PROVE  /\ outq["upstream"] # <<>> /\ outq' = [outq EXCEPT !["upstream"] = Tail(@)]
         /\ UNCHANGED <<closed, ctxDone, g, wg, keys, caches, client>>
         /\ server' \in Servers
         /\ \/ UNCHANGED <<inq, server>>
            \/ /\ server'.key = IF pkt.name = "GetPlayerTokenReq" THEN SessionKey ELSE server.key
               /\ \/ inq' = inq /\ pkt.name # "GetPlayerTokenReq"
                  \/ \E answer : /\ Arrives("upstream", answer)
                                 /\ answer.name = "GetPlayerTokenRsp" <=> pkt.name = "GetPlayerTokenReq"
                                 /\ answer.key = KeyOf(answer.name)
                                 /\ answer.name = "PullRecentChatRsp" =>
                                      pkt.name = "PullRecentChatReq" /\ answer.info = pkt.info
<1>1. /\ outq["upstream"] # <<>> /\ outq' = [outq EXCEPT !["upstream"] = Tail(@)]
      /\ UNCHANGED <<closed, ctxDone, g, wg, keys, caches, client>>
  BY DEF ServerReads
<1>2. server \in Servers /\ server.key \in Keys /\ server.pings \in Seq(Nat)
  BY ServerAt
<1>3. pkt \in Requests
  BY <1>1, TakesDoes, SidesDiffer DEF To
<1>4. Shaped(pkt) /\ pkt.info \in Seq(Nat)
  BY <1>3, PacketFields DEF Requests
<1>5. \/ Reply(pkt) /\ server' = ServerGets(pkt)
      \/ UNCHANGED <<inq, server>>
  BY DEF ServerReads
<1>6. CASE UNCHANGED <<inq, server>>
  BY <1>1, <1>2, <1>6
<1>7. CASE Reply(pkt) /\ server' = ServerGets(pkt)
  <2>1. server' \in Servers /\ server'.key = IF pkt.name = "GetPlayerTokenReq" THEN SessionKey ELSE server.key
    <3>1. CASE pkt.name = "GetPlayerTokenReq"
      <4>1. server' = [server EXCEPT !.key = SessionKey]
        BY <1>4, <1>7, <3>1 DEF ServerGets, Shaped, SessionKey
      <4> QED
        BY <1>2, <3>1, <4>1, KeysDiffer DEF Servers
    <3>2. CASE pkt.name = "PingReq"
      <4>1. server' = [server EXCEPT !.pings = server.pings \o pkt.info]
        BY <1>7, <3>2 DEF ServerGets
      <4>2. server.pings \o pkt.info \in Seq(Nat)
        BY <1>2, <1>4, ConcatProperties
      <4> QED
        BY <1>2, <3>2, <4>1, <4>2 DEF Servers
    <3>3. CASE pkt.name \notin {"GetPlayerTokenReq", "PingReq"}
      BY <1>2, <1>7, <3>3 DEF ServerGets
    <3> QED
      BY <3>1, <3>2, <3>3
  <2> DEFINE Answering(name, key, info) ==
        /\ inq' = [inq EXCEPT !["upstream"] = Append(@, Packet(name, key, "upstream", info))]
        /\ name \in AnswerNames /\ key \in Keys /\ info \in Seq(Nat)
        /\ name = "GetPlayerTokenRsp" => info = <<Seed>>
        /\ name = "GetPlayerTokenRsp" <=> pkt.name = "GetPlayerTokenReq"
        /\ key = KeyOf(name)
        /\ name = "PullRecentChatRsp" => pkt.name = "PullRecentChatReq" /\ info = pkt.info
  <2>2. (inq' = inq /\ pkt.name # "GetPlayerTokenReq") \/ \E name, key, info : Answering(name, key, info)
    <3>1. <<>> \in Seq(Nat) /\ <<Seed>> \in Seq(Nat) /\ Shared \in Keys
      BY EmptySeq, KeysDiffer DEF Seed
    <3>2. CASE pkt.name = "GetPlayerTokenReq"
      <4>1. Answering("GetPlayerTokenRsp", Shared, <<Seed>>)
        BY <1>7, <3>1, <3>2 DEF KeyOf, Reply, FromServer, AnswerNames
      <4> HIDE DEF Answering
      <4> QED
        BY <4>1
    <3>3. CASE pkt.name = "ChangeGameTimeReq"
      <4>1. Answering("ChangeGameTimeRsp", server.key, <<>>)
        BY <1>2, <1>7, <3>1, <3>3 DEF KeyOf, Reply, FromServer, AnswerNames
      <4> HIDE DEF Answering
      <4> QED
        BY <4>1
    <3>4. CASE pkt.name = "PullRecentChatReq"
      <4>1. Answering("PullRecentChatRsp", server.key, pkt.info)
        BY <1>2, <1>4, <1>7, <3>4 DEF KeyOf, Reply, FromServer, AnswerNames
      <4> HIDE DEF Answering
      <4> QED
        BY <4>1
    <3>5. CASE pkt.name = "GetPlayerFriendListReq"
      <4>1. Answering("GetPlayerFriendListRsp", server.key, <<>>)
        BY <1>2, <1>7, <3>1, <3>5 DEF KeyOf, Reply, FromServer, AnswerNames
      <4> HIDE DEF Answering
      <4> QED
        BY <4>1
    <3>6. CASE pkt.name \notin {"GetPlayerTokenReq", "ChangeGameTimeReq", "PullRecentChatReq",
                                "GetPlayerFriendListReq"}
      BY <1>7, <3>6 DEF Reply
    <3> QED
      BY <3>2, <3>3, <3>4, <3>5, <3>6
  <2>3. ASSUME NEW name, NEW key, NEW info, Answering(name, key, info)
        PROVE  \E answer : /\ Arrives("upstream", answer)
                           /\ answer.name = "GetPlayerTokenRsp" <=> pkt.name = "GetPlayerTokenReq"
                           /\ answer.key = KeyOf(answer.name)
                           /\ answer.name = "PullRecentChatRsp" =>
                                pkt.name = "PullRecentChatReq" /\ answer.info = pkt.info
    <3> DEFINE answer == Packet(name, key, "upstream", info)
    <3>1. Shaped(answer) /\ name \in AnswerNames /\ key \in Keys /\ info \in Seq(Nat)
      BY <2>3 DEF Shaped, Packet, AnswerNames
    <3>2. /\ answer \in From("upstream") /\ answer.name = name /\ answer.info = info
          /\ answer.key = key
      BY <3>1, Arriving, SidesDiffer
    <3>3. inq' = [inq EXCEPT !["upstream"] = Append(@, answer)]
      BY <2>3
    <3> HIDE DEF answer
    <3> QED
      BY <2>3, <3>2, <3>3 DEF Arrives
  <2> HIDE DEF Answering
  <2>4. \/ inq' = inq /\ pkt.name # "GetPlayerTokenReq"
        \/ \E answer : /\ Arrives("upstream", answer)
                       /\ answer.name = "GetPlayerTokenRsp" <=> pkt.name = "GetPlayerTokenReq"
                       /\ answer.key = KeyOf(answer.name)
                       /\ answer.name = "PullRecentChatRsp" =>
                            pkt.name = "PullRecentChatReq" /\ answer.info = pkt.info
    BY <2>2, <2>3, Zenon
  <2> QED
    BY <1>1, <2>1, <2>4
<1> QED
  BY <1>5, <1>6, <1>7

LEMMA PushDoes ==
  ASSUME TInv, ServerPush
  PROVE  /\ UNCHANGED <<closed, ctxDone, outq, g, wg, keys, caches, client>>
         /\ server' \in Servers /\ server'.key = server.key
         /\ \E pkt : Arrives("upstream", pkt) /\ pkt.name = "Notify" /\ pkt.key = server.key
<1>1. server \in Servers /\ server.key \in Keys
  BY ServerAt
<1>2. server' \in Servers /\ server'.key = server.key
  BY <1>1 DEF ServerPush, Servers
<1> DEFINE info == <<>>
           key == server.key
           pkt == Packet("Notify", key, "upstream", info)
<1>3. inq' = [inq EXCEPT !["upstream"] = Append(@, pkt)]
  BY DEF ServerPush, FromServer
<1>4. Shaped(pkt) /\ "Notify" \in AnswerNames /\ "upstream" \in Sides /\ info \in Seq(Nat)
  BY ShapedOther, SidesDiffer, EmptySeq DEF AnswerNames
<1>5. pkt \in From("upstream") /\ pkt.name = "Notify" /\ pkt.key = key
  <2>1. key \in Keys
    BY <1>1
  <2>2. /\ pkt \in [name : AnswerNames, key : Keys, lang : Sides, info : Seq(Nat)]
        /\ pkt.name = "Notify" /\ pkt.key = key
    BY <1>4, <2>1 DEF Packet
  <2> HIDE DEF pkt
  <2> QED
    BY <1>4, <2>2 DEF From, Answers, Packets
<1> HIDE DEF pkt
<1>6. Arrives("upstream", pkt) /\ pkt.name = "Notify" /\ pkt.key = server.key
  BY <1>3, <1>5 DEF Arrives
<1> QED
  BY <1>2, <1>6 DEF ServerPush

-----------------------------------------------------------------------------
(* An exchange: one request on its way to the server, or one answer on its *)
(* way back.  The login is one, and so is a pull of the recent chat.       *)

Extras == {"ChangeGameTimeReq", "ClientSetGameTimeRsp", "PrivateChatNotify", "PrivateChatRsp"}

\* What a handler does to packets: it keeps or drops its own, and sends no
\* other than these.
Handled(t) ==
  /\ Moves(t) /\ Aside
  /\ \/ UNCHANGED outq
     \/ \E to \in Sides, pkt \in ToClient \cup Requests :
          /\ Sends(to, pkt) /\ pkt.name \in Extras /\ UNCHANGED keys
          /\ to = "upstream" \/ t = "upstream" \/ g[t].pkt.name = "PrivateChatReq"

LEMMA HandleDoes ==
  ASSUME TInv, NEW t \in Sides, Handle(t)
  PROVE  Handled(t)
<1>1. CASE \/ HandlePlain(t) \/ OnPullPrivateChatReq(t) \/ OnGetPlayerFriendListRsp(t)
           \/ OnMarkMapReq(t)
  BY <1>1, PlainDoes DEF Handled
<1>2. \A to \in Sides : \A pkt : Sends(to, pkt) => pkt \in ToClient \cup Requests
  BY DEF Sends, To
<1>3. CASE OnPrivateChatReq(t) \/ SendConsoleAnswer(t) \/ SendPrivateChatRsp(t)
  <2>1. PICK pkt : Sends("endpoint", pkt) /\ pkt.name \in {"PrivateChatNotify", "PrivateChatRsp"}
    BY <1>3, ChatDoes
  <2>2. pkt.name \in Extras /\ pkt \in ToClient \cup Requests /\ "endpoint" \in Sides
    BY <1>2, <2>1, SidesDiffer DEF Extras
  <2> QED
    BY <1>3, <2>1, <2>2, ChatDoes DEF Handled
<1>4. CASE \/ OnGetPlayerTokenReq(t) \/ OnGetPlayerTokenRsp(t) \/ OnClientSetGameTimeReq(t)
           \/ OnChangeGameTimeRsp(t) \/ ReadTime(t) \/ ClearTime(t) \/ OnPullRecentChatReq(t)
           \/ OnPullRecentChatRsp(t)
  BY <1>4, TokenReqDoes, TokenRspDoes, SetTimeDoes, ChangeRspDoes, ReadTimeDoes, ClearTimeDoes,
     PullReqDoes, PullRspDoes DEF Handled
<1>5. CASE SendChangeGameTimeReq(t)
  <2>1. PICK pkt : Sends("upstream", pkt) /\ pkt.name = "ChangeGameTimeReq"
    BY <1>5, SendChangeDoes
  <2>2. pkt.name \in Extras /\ pkt \in ToClient \cup Requests /\ "upstream" \in Sides
    BY <1>2, <2>1, SidesDiffer DEF Extras
  <2> QED
    BY <1>5, <2>1, <2>2, SendChangeDoes DEF Handled
<1>6. CASE SendClientSetGameTimeRsp(t)
  <2>1. PICK pkt : Sends("endpoint", pkt) /\ pkt.name = "ClientSetGameTimeRsp"
    BY <1>6, AnswerDoes
  <2>2. pkt.name \in Extras /\ pkt \in ToClient \cup Requests /\ "endpoint" \in Sides
    BY <1>2, <2>1, SidesDiffer DEF Extras
  <2> QED
    BY <1>6, <2>1, <2>2, AnswerDoes DEF Handled
<1> QED
  BY <1>1, <1>3, <1>4, <1>5, <1>6 DEF Handle

\* The exchange of keys is in the two handlers of handler_login.go alone.
LEMMA HandleKeys ==
  ASSUME TInv, NEW t \in Sides, Handle(t)
  PROVE  \/ OnGetPlayerTokenReq(t) \/ OnGetPlayerTokenRsp(t)
         \/ /\ UNCHANGED keys
            /\ g[t].pkt.name \notin {"GetPlayerTokenReq", "GetPlayerTokenRsp"}
<1>1. CASE \/ HandlePlain(t) \/ OnPullPrivateChatReq(t) \/ OnGetPlayerFriendListRsp(t)
           \/ OnMarkMapReq(t) \/ OnPrivateChatReq(t) \/ SendConsoleAnswer(t)
           \/ SendPrivateChatRsp(t)
  BY <1>1, PlainDoes, ChatDoes
<1>2. CASE \/ OnClientSetGameTimeReq(t) \/ OnChangeGameTimeRsp(t) \/ ReadTime(t) \/ ClearTime(t)
           \/ OnPullRecentChatReq(t) \/ OnPullRecentChatRsp(t) \/ SendChangeGameTimeReq(t)
           \/ SendClientSetGameTimeRsp(t)
  BY <1>2, SetTimeDoes, ChangeRspDoes, ReadTimeDoes, ClearTimeDoes, PullReqDoes, PullRspDoes,
     SendChangeDoes, AnswerDoes
<1> QED
  BY <1>1, <1>2 DEF Handle

Pair(ask, answer) ==
  \/ ask = "GetPlayerTokenReq" /\ answer = "GetPlayerTokenRsp"
  \/ ask = "PullRecentChatReq" /\ answer = "PullRecentChatRsp"

\* The eight places, in the order in which they are passed.
Place(i, ask, answer) ==
  \/ i = 1 /\ Has(inq["endpoint"], ask)
  \/ i = 2 /\ g["endpoint"].pkt.name = ask /\ g["endpoint"].pc = "handle"
  \/ i = 3 /\ g["endpoint"].pkt.name = ask /\ g["endpoint"].pc # "handle"
  \/ i = 4 /\ Has(outq["upstream"], ask)
  \/ i = 5 /\ Has(inq["upstream"], answer)
  \/ i = 6 /\ g["upstream"].pkt.name = answer /\ g["upstream"].pc = "handle"
  \/ i = 7 /\ g["upstream"].pkt.name = answer /\ g["upstream"].pc # "handle"
  \/ i = 8 /\ Has(outq["endpoint"], answer)

Single(ask, answer) ==
  /\ Once(inq["endpoint"], ask) /\ Once(outq["upstream"], ask)
  /\ Once(inq["upstream"], answer) /\ Once(outq["endpoint"], answer)

Alone(ask, answer) ==
  /\ Single(ask, answer)
  /\ \A i, j \in 1..8 : Place(i, ask, answer) /\ Place(j, ask, answer) => i = j

\* What was at place k may have gone on to the next, or be lost; the rest is
\* where it was.
Shift(k, ask, answer) ==
  /\ \A i \in 1..8 : Place(i, ask, answer)' =>
       \/ Place(i, ask, answer)
       \/ i = k + 1 /\ k \in 1..7 /\ Place(k, ask, answer) /\ ~Place(k, ask, answer)'
  /\ \A i \in {7, 8} \ {k} : Place(i, ask, answer) => Place(i, ask, answer)'

LEMMA ShiftAlone ==
  ASSUME NEW ask, NEW answer, NEW k \in 0..8, Alone(ask, answer), Single(ask, answer)',
         Shift(k, ask, answer)
  PROVE  Alone(ask, answer)'
<1> SUFFICES ASSUME NEW i \in 1..8, NEW j \in 1..8, Place(i, ask, answer)', Place(j, ask, answer)'
             PROVE  i = j
  BY DEF Alone
<1> HIDE DEF Place
<1>1. \A a, b \in 1..8 : Place(a, ask, answer) /\ Place(b, ask, answer) => a = b
  BY DEF Alone
<1>2. CASE Place(i, ask, answer) /\ Place(j, ask, answer)
  BY <1>1, <1>2
<1>3. CASE ~Place(i, ask, answer)
  <2>1. i = k + 1 /\ k \in 1..7 /\ Place(k, ask, answer) /\ ~Place(k, ask, answer)'
    BY <1>3 DEF Shift
  <2>2. CASE Place(j, ask, answer)
    <3>1. j = k
      BY <1>1, <2>1, <2>2
    <3> QED
      BY <2>1, <3>1
  <2>3. CASE ~Place(j, ask, answer)
    BY <2>1, <2>3 DEF Shift
  <2> QED
    BY <2>2, <2>3
<1>4. CASE Place(i, ask, answer) /\ ~Place(j, ask, answer)
  <2>1. j = k + 1 /\ k \in 1..7 /\ Place(k, ask, answer) /\ ~Place(k, ask, answer)'
    BY <1>4 DEF Shift
  <2>2. i = k
    BY <1>1, <1>4, <2>1
  <2> QED
    BY <2>1, <2>2
<1> QED
  BY <1>2, <1>3, <1>4

LEMMA PairNames ==
  ASSUME NEW ask, NEW answer, Pair(ask, answer)
  PROVE  /\ ask # answer /\ ask \notin Extras /\ answer \notin Extras
         /\ ask # "none" /\ answer # "none" /\ ask \in RequestNames /\ answer \in AnswerNames
         /\ ask # "Notify" /\ answer # "Notify" /\ answer # "ChangeGameTimeRsp"
         /\ NoPacket.name # ask /\ NoPacket.name # answer
  BY DEF Pair, Extras, RequestNames, AnswerNames, NoPacket, Packet

\* A goroutine's step from place 2 or 6.
Steps(t) == IF t = "endpoint" THEN 2 ELSE 6

LEMMA HandledShifts ==
  ASSUME TInv, NEW ask, NEW answer, Pair(ask, answer), Single(ask, answer),
         NEW t \in Sides, Handled(t)
  PROVE  Single(ask, answer)' /\ Shift(Steps(t), ask, answer)
<1>1. inq' = inq
  BY DEF Handled, Aside, transports
<1>2. /\ Once(outq'["upstream"], ask) /\ Once(outq'["endpoint"], answer)
      /\ Has(outq'["upstream"], ask) <=> Has(outq["upstream"], ask)
      /\ Has(outq'["endpoint"], answer) <=> Has(outq["endpoint"], answer)
  <2>1. CASE outq' = outq
    BY <2>1 DEF Single
  <2>2. ASSUME NEW to \in Sides, NEW pkt \in ToClient \cup Requests, Sends(to, pkt),
               pkt.name \in Extras
        PROVE  \A name : name \notin Extras =>
                 \A s \in Sides : /\ Has(outq'[s], name) <=> Has(outq[s], name)
                                  /\ Once(outq[s], name) => Once(outq'[s], name)
    <3> SUFFICES ASSUME NEW name, name \notin Extras, NEW s \in Sides
                 PROVE  /\ Has(outq'[s], name) <=> Has(outq[s], name)
                        /\ Once(outq[s], name) => Once(outq'[s], name)
      OBVIOUS
    <3>1. CASE outq'[s] = outq[s]
      BY <3>1
    <3>2. CASE s = to /\ outq'[s] = Append(outq[s], pkt)
      <4>1. outq[s] \in Seq(To(s)) /\ pkt \in To(s) /\ pkt.name # name
        BY <2>2, <3>2, Queues DEF Sends
      <4> QED
        BY <3>2, <4>1, AppendHas, AppendOnce
    <3> QED
      BY <2>2, <3>1, <3>2, SendsKeep
  <2> QED
    BY <2>1, <2>2, PairNames, SidesDiffer DEF Handled, Single
<1>3. /\ \A s \in Sides \ {t} : g'[s] = g[s]
      /\ g'[t].pc # "handle" /\ g'[t].pkt.name \in {g[t].pkt.name, "none"} /\ g[t].pc # "send"
  BY DEF Handled, Moves
<1>4. Single(ask, answer)'
  BY <1>1, <1>2 DEF Single
<1>5. ask # "none" /\ answer # "none"
  BY PairNames
<1>6. CASE t = "endpoint"
  <2>1. g'["upstream"] = g["upstream"]
    BY <1>3, <1>6, SidesDiffer
  <2>2. g'["endpoint"].pc # "handle" /\ (g'["endpoint"].pkt.name = ask => g["endpoint"].pkt.name = ask)
    BY <1>3, <1>5, <1>6
  <2> QED
    BY <1>1, <1>2, <1>4, <1>6, <2>1, <2>2 DEF Shift, Place, Steps
<1>7. CASE t = "upstream"
  <2>1. g'["endpoint"] = g["endpoint"]
    BY <1>3, <1>7, SidesDiffer
  <2>2. g'["upstream"].pc # "handle" /\ (g'["upstream"].pkt.name = answer => g["upstream"].pkt.name = answer)
    BY <1>3, <1>5, <1>7
  <2>3. g["upstream"].pkt.name = answer => g["upstream"].pc = "handle"
    <3>1. UpstreamAt(g["upstream"])
      BY <1>7, SidesDiffer DEF TInv, GoroutinesOK, Is
    <3> QED
      BY <1>3, <1>7, <3>1, PairNames DEF UpstreamAt
  <2> QED
    BY <1>1, <1>2, <1>4, <1>7, <2>1, <2>2, <2>3 DEF Shift, Place, Steps
<1> QED
  BY <1>6, <1>7, SidesDiffer

LEMMA ReadShifts ==
  ASSUME TInv, NEW ask, NEW answer, Pair(ask, answer), Single(ask, answer),
         NEW t \in Sides, ReadPayload(t)
  PROVE  Single(ask, answer)' /\ Shift(IF t = "endpoint" THEN 1 ELSE 5, ask, answer)
<1> DEFINE name == IF t = "endpoint" THEN ask ELSE answer
<1>1. /\ g[t].pc = "payload" /\ g[t].pkt = NoPacket /\ inq[t] # <<>> /\ inq'[t] = Tail(inq[t])
      /\ \A s \in Sides \ {t} : inq'[s] = inq[s] /\ g'[s] = g[s]
      /\ outq' = outq /\ inq[t] \in Seq(From(t))
      /\ \/ g' = g
         \/ g'[t].pc = "handle" /\ g'[t].pkt = Head(inq[t])
  BY ReadDoes, Queues
<1>2. Once(inq[t], name)
  BY SidesDiffer DEF Single
<1>3. NoPacket.name # ask /\ NoPacket.name # answer
  BY PairNames
<1> HIDE DEF name
<1>4. /\ Once(inq'[t], name)
      /\ Has(inq[t], name) <=> Head(inq[t]).name = name \/ Has(inq'[t], name)
      /\ ~(Head(inq[t]).name = name /\ Has(inq'[t], name))
  BY <1>1, <1>2, TailOnce
<1>5. g'[t].pkt.name = name => /\ g'[t].pc = "handle" /\ Has(inq[t], name) /\ ~Has(inq'[t], name)
  BY <1>1, <1>3, <1>4 DEF name
<1>6. Has(inq'[t], name) => Has(inq[t], name)
  BY <1>4
<1>7. CASE t = "endpoint"
  <2>1. /\ inq'["upstream"] = inq["upstream"] /\ g'["upstream"] = g["upstream"] /\ name = ask
    BY <1>1, <1>7, SidesDiffer DEF name
  <2>2. Single(ask, answer)'
    BY <1>1, <1>4, <1>7, <2>1 DEF Single
  <2>3. Shift(1, ask, answer)
    BY <1>1, <1>5, <1>6, <1>7, <2>1 DEF Shift, Place
  <2> QED
    BY <1>7, <2>2, <2>3
<1>8. CASE t = "upstream"
  <2>1. /\ inq'["endpoint"] = inq["endpoint"] /\ g'["endpoint"] = g["endpoint"] /\ name = answer
    BY <1>1, <1>8, SidesDiffer DEF name
  <2>2. Single(ask, answer)'
    BY <1>1, <1>4, <1>8, <2>1 DEF Single
  <2>3. ~Place(7, ask, answer)
    BY <1>1, <1>3, <1>8 DEF Place
  <2>4. Shift(5, ask, answer)
    BY <1>1, <1>5, <1>6, <1>8, <2>1, <2>3 DEF Shift, Place
  <2> QED
    BY <1>8, <2>2, <2>4
<1> QED
  BY <1>7, <1>8, SidesDiffer

LEMMA SendOnShifts ==
  ASSUME TInv, NEW ask, NEW answer, Pair(ask, answer), Alone(ask, answer),
         NEW t \in Sides, SendOn(t)
  PROVE  /\ Single(ask, answer)' /\ Shift(IF t = "endpoint" THEN 3 ELSE 7, ask, answer)
         /\ Place(7, ask, answer) /\ "endpoint" \notin closed =>
              Place(7, ask, answer)' \/ Place(8, ask, answer)'
<1> DEFINE name == IF t = "endpoint" THEN ask ELSE answer
           o == Opposite(t)
<1>1. PICK pkt : Sends(o, pkt) /\ pkt.name = g[t].pkt.name
  BY SendOnDoes
<1>2. /\ g[t].pc = "send" /\ g'[t].pkt = NoPacket /\ \A s \in Sides \ {t} : g'[s] = g[s]
      /\ inq' = inq /\ o \in Sides /\ o # t /\ Single(ask, answer)
  BY SendOnDoes, SidesDiffer DEF Aside, transports, Alone
<1>3. /\ outq'[t] = outq[t] /\ outq[o] \in Seq(To(o)) /\ pkt \in To(o)
      /\ outq'[o] = IF o \in closed THEN outq[o] ELSE Append(outq[o], pkt)
  BY <1>1, <1>2, SendsKeep, Queues DEF Sends
<1>4. NoPacket.name # ask /\ NoPacket.name # answer
  BY PairNames
<1>5. Once(outq[o], name)
  BY <1>2, SidesDiffer DEF Single
<1>6. pkt.name = name => ~Has(outq[o], name)
  <2>1. CASE t = "endpoint"
    <3>1. ~(Place(3, ask, answer) /\ Place(4, ask, answer))
      BY DEF Alone
    <3> QED
      BY <1>1, <1>2, <2>1, <3>1, SidesDiffer DEF Place
  <2>2. CASE t = "upstream"
    <3>1. ~(Place(7, ask, answer) /\ Place(8, ask, answer))
      BY DEF Alone
    <3> QED
      BY <1>1, <1>2, <2>2, <3>1, SidesDiffer DEF Place
  <2> QED
    BY <2>1, <2>2, SidesDiffer
<1> HIDE DEF name, o
<1>7. /\ Once(outq'[o], name) /\ (Has(outq[o], name) => Has(outq'[o], name))
      /\ Has(outq'[o], name) => Has(outq[o], name) \/ g[t].pkt.name = name
      /\ o \notin closed /\ g[t].pkt.name = name => Has(outq'[o], name)
  <2>1. CASE o \in closed
    BY <1>3, <1>5, <2>1
  <2>2. CASE o \notin closed
    BY <1>1, <1>3, <1>5, <1>6, <2>2, AppendHas, AppendOnce
  <2> QED
    BY <2>1, <2>2
<1>8. CASE t = "endpoint"
  <2>1. g'["upstream"] = g["upstream"] /\ name = ask /\ o = "upstream"
    BY <1>2, <1>8, SidesDiffer DEF name, o
  <2>2. Single(ask, answer)'
    BY <1>2, <1>3, <1>7, <1>8, <2>1 DEF Single
  <2>3. Shift(3, ask, answer) /\ (Place(7, ask, answer) => Place(7, ask, answer)')
    BY <1>2, <1>3, <1>4, <1>7, <1>8, <2>1 DEF Shift, Place
  <2> QED
    BY <1>8, <2>2, <2>3
<1>9. CASE t = "upstream"
  <2>1. g'["endpoint"] = g["endpoint"] /\ name = answer /\ o = "endpoint"
    BY <1>2, <1>9, SidesDiffer DEF name, o
  <2>2. Single(ask, answer)'
    BY <1>2, <1>3, <1>7, <1>9, <2>1 DEF Single
  <2>3. /\ Shift(7, ask, answer)
        /\ Place(7, ask, answer) /\ "endpoint" \notin closed => Place(8, ask, answer)'
    BY <1>2, <1>3, <1>4, <1>7, <1>9, <2>1 DEF Shift, Place
  <2> QED
    BY <1>9, <2>2, <2>3
<1> QED
  BY <1>8, <1>9, SidesDiffer

LEMMA SaysShifts ==
  ASSUME TInv, NEW ask, NEW answer, Pair(ask, answer), Single(ask, answer),
         NEW pkt, ClientSays(pkt), pkt.name = ask => ~Place(1, ask, answer)
  PROVE  /\ Single(ask, answer)'
         /\ pkt.name # ask => Shift(0, ask, answer)
         /\ \A i \in 1..8 : Place(i, ask, answer)' => Place(i, ask, answer) \/ i = 1
<1>1. /\ inq'["endpoint"] = Append(inq["endpoint"], pkt) /\ inq'["upstream"] = inq["upstream"]
      /\ UNCHANGED <<outq, g>>
  BY ArrivesKeep, SidesDiffer DEF ClientSays, ClientOnly
<1>2. inq["endpoint"] \in Seq(From("endpoint")) /\ pkt \in From("endpoint")
  BY Queues, SidesDiffer DEF ClientSays, Arrives
<1>3. /\ Has(inq'["endpoint"], ask) <=> Has(inq["endpoint"], ask) \/ pkt.name = ask
      /\ Once(inq'["endpoint"], ask)
  BY <1>1, <1>2, AppendHas, AppendOnce DEF Single, Place
<1> QED
  BY <1>1, <1>3 DEF Single, Shift, Place

LEMMA PushShifts ==
  ASSUME TInv, NEW ask, NEW answer, Pair(ask, answer), Single(ask, answer), ServerPush
  PROVE  Single(ask, answer)' /\ Shift(0, ask, answer)
<1>1. PICK pkt : Arrives("upstream", pkt) /\ pkt.name = "Notify"
  BY PushDoes
<1>2. /\ inq'["upstream"] = Append(inq["upstream"], pkt) /\ inq'["endpoint"] = inq["endpoint"]
      /\ UNCHANGED <<outq, g>>
  BY <1>1, ArrivesKeep, SidesDiffer, PushDoes
<1>3. /\ inq["upstream"] \in Seq(From("upstream")) /\ pkt \in From("upstream")
      /\ pkt.name # answer
  BY <1>1, Queues, SidesDiffer, PairNames DEF Arrives
<1>4. /\ Has(inq'["upstream"], answer) <=> Has(inq["upstream"], answer)
      /\ Once(inq'["upstream"], answer)
  BY <1>2, <1>3, AppendHas, AppendOnce DEF Single
<1> QED
  BY <1>2, <1>4 DEF Single, Shift, Place

LEMMA ClientReadsShifts ==
  ASSUME TInv, NEW ask, NEW answer, Pair(ask, answer), Single(ask, answer), ClientReads
  PROVE  /\ Single(ask, answer)' /\ Shift(8, ask, answer)
         /\ Place(8, ask, answer)' => Head(outq["endpoint"]).name # answer
         /\ Place(8, ask, answer) <=>
              Head(outq["endpoint"]).name = answer \/ Place(8, ask, answer)'
<1> DEFINE pkt == Head(outq["endpoint"])
<1>1. /\ outq["endpoint"] # <<>> /\ outq' = [outq EXCEPT !["endpoint"] = Tail(@)]
      /\ UNCHANGED <<inq, g>>
  BY ClientReadsDoes DEF transports
<1>2. /\ outq'["endpoint"] = Tail(outq["endpoint"]) /\ outq'["upstream"] = outq["upstream"]
      /\ outq["endpoint"] \in Seq(To("endpoint")) /\ Once(outq["endpoint"], answer)
  BY <1>1, TakesDoes, Queues, SidesDiffer DEF Single
<1>3. /\ Once(outq'["endpoint"], answer)
      /\ Has(outq["endpoint"], answer) <=> pkt.name = answer \/ Has(outq'["endpoint"], answer)
      /\ ~(pkt.name = answer /\ Has(outq'["endpoint"], answer))
  BY <1>1, <1>2, TailOnce
<1> HIDE DEF pkt
<1>4. Single(ask, answer)' /\ Shift(8, ask, answer)
  BY <1>1, <1>2, <1>3 DEF Single, Shift, Place
<1>5. /\ Place(8, ask, answer) <=> Has(outq["endpoint"], answer)
      /\ Place(8, ask, answer)' <=> Has(outq'["endpoint"], answer)
  BY DEF Place
<1> QED
  BY <1>3, <1>4, <1>5 DEF pkt

LEMMA ServerReadsShifts ==
  ASSUME TInv, NEW ask, NEW answer, Pair(ask, answer), Alone(ask, answer), ServerReads
  PROVE  /\ Single(ask, answer)' /\ Shift(4, ask, answer)
         /\ Place(4, ask, answer)' => Head(outq["upstream"]).name # ask
         /\ Place(4, ask, answer) <=> Head(outq["upstream"]).name = ask \/ Place(4, ask, answer)'
         /\ Place(5, ask, answer)' => Place(5, ask, answer) \/ ~UNCHANGED <<inq, server>>
<1> DEFINE pkt == Head(outq["upstream"])
<1>1. /\ outq["upstream"] # <<>> /\ outq' = [outq EXCEPT !["upstream"] = Tail(@)]
      /\ UNCHANGED g
      /\ \/ inq' = inq
         \/ \E rsp : /\ Arrives("upstream", rsp)
                     /\ rsp.name = "GetPlayerTokenRsp" => pkt.name = "GetPlayerTokenReq"
                     /\ rsp.name = "PullRecentChatRsp" => pkt.name = "PullRecentChatReq"
  BY ServerReadsDoes
<1>2. /\ outq'["upstream"] = Tail(outq["upstream"]) /\ outq'["endpoint"] = outq["endpoint"]
      /\ outq["upstream"] \in Seq(To("upstream")) /\ Once(outq["upstream"], ask)
      /\ Single(ask, answer)
  BY <1>1, TakesDoes, Queues, SidesDiffer DEF Single, Alone
<1>3. /\ Once(outq'["upstream"], ask)
      /\ Has(outq["upstream"], ask) <=> pkt.name = ask \/ Has(outq'["upstream"], ask)
      /\ ~(pkt.name = ask /\ Has(outq'["upstream"], ask))
  BY <1>1, <1>2, TailOnce
<1> HIDE DEF pkt
<1>4. /\ inq'["endpoint"] = inq["endpoint"] /\ Once(inq'["upstream"], answer)
      /\ Has(inq["upstream"], answer) => Has(inq'["upstream"], answer)
      /\ Has(inq'["upstream"], answer) => Has(inq["upstream"], answer) \/ pkt.name = ask
  <2>1. CASE inq' = inq
    BY <1>2, <2>1 DEF Single
  <2>2. ASSUME NEW rsp, Arrives("upstream", rsp),
               rsp.name = "GetPlayerTokenRsp" => pkt.name = "GetPlayerTokenReq",
               rsp.name = "PullRecentChatRsp" => pkt.name = "PullRecentChatReq"
        PROVE  /\ inq'["endpoint"] = inq["endpoint"] /\ Once(inq'["upstream"], answer)
               /\ Has(inq["upstream"], answer) => Has(inq'["upstream"], answer)
               /\ Has(inq'["upstream"], answer) => Has(inq["upstream"], answer) \/ pkt.name = ask
    <3>1. rsp.name = answer => pkt.name = ask
      BY <2>2 DEF Pair
    <3>2. /\ inq'["upstream"] = Append(inq["upstream"], rsp) /\ inq'["endpoint"] = inq["endpoint"]
          /\ inq["upstream"] \in Seq(From("upstream")) /\ rsp \in From("upstream")
      BY <2>2, ArrivesKeep, Queues, SidesDiffer DEF Arrives
    <3>3. rsp.name = answer => ~Has(inq["upstream"], answer)
      <4>1. ~(Place(4, ask, answer) /\ Place(5, ask, answer))
        BY DEF Alone
      <4> QED
        BY <1>3, <3>1, <4>1 DEF Place
    <3>4. Once(inq["upstream"], answer)
      BY <1>2 DEF Single
    <3> QED
      BY <3>1, <3>2, <3>3, <3>4, AppendHas, AppendOnce
  <2> QED
    BY <1>1, <2>1, <2>2
<1>5. Single(ask, answer)'
  BY <1>2, <1>3, <1>4 DEF Single
<1>6. Shift(4, ask, answer)
  BY <1>1, <1>2, <1>3, <1>4 DEF Shift, Place
<1>7. /\ Place(4, ask, answer) <=> Has(outq["upstream"], ask)
      /\ Place(4, ask, answer)' <=> Has(outq'["upstream"], ask)
      /\ Place(5, ask, answer) <=> Has(inq["upstream"], answer)
      /\ Place(5, ask, answer)' <=> Has(inq'["upstream"], answer)
  BY DEF Place
<1> QED
  BY <1>3, <1>5, <1>6, <1>7 DEF pkt

\* The packets are where they were.
LEMMA StillShifts ==
  ASSUME TInv, NEW ask, NEW answer, Pair(ask, answer), Single(ask, answer),
         UNCHANGED <<inq, outq>>,
         \/ g' = g
         \/ \E t \in Sides : PayloadFails(t)
  PROVE  Single(ask, answer)' /\ Shift(0, ask, answer)
<1>1. Single(ask, answer)'
  BY DEF Single
<1>2. CASE g' = g
  BY <1>1, <1>2 DEF Shift, Place
<1>3. ASSUME NEW t \in Sides, PayloadFails(t)
      PROVE  Shift(0, ask, answer)
  <2>1. t = "endpoint" /\ g'["upstream"] = g["upstream"]
    BY <1>3, FailsDoes, SidesDiffer
  <2>2. g'["endpoint"].pkt.name # ask
    BY <1>3, <2>1, FailsDoes, Where, PairNames
  <2> QED
    BY <2>1, <2>2 DEF Shift, Place
<1> QED
  BY <1>1, <1>2, <1>3

-----------------------------------------------------------------------------
(* Types are kept, once it is known that the rand comes before the seed.    *)

LEMMA StopSame ==
  ASSUME TInv, UNCHANGED <<closed, ctxDone, wg>>,
         g'["endpoint"].pc = "ended" <=> g["endpoint"].pc = "ended"
  PROVE  StopOK'
  BY DEF TInv, StopOK

LEMMA QueuesSame ==
  ASSUME TInv,
         \/ inq' = inq
         \/ \E t \in Sides : \E pkt : Arrives(t, pkt)
         \/ \E t \in Sides : ReadPayload(t),
         \/ outq' = outq
         \/ \E t \in Sides : \E pkt : Sends(t, pkt)
         \/ \E t \in Sides : outq[t] # <<>> /\ outq' = [outq EXCEPT ![t] = Tail(@)]
  PROVE  QueuesOK'
<1>1. /\ inq' \in [Sides -> Seq(Requests) \cup Seq(Answers)]
      /\ \A t \in Sides : inq'[t] \in Seq(From(t))
  <2>1. CASE inq' = inq
    BY <2>1 DEF TInv, QueuesOK
  <2>2. CASE \E t \in Sides : \E pkt : Arrives(t, pkt)
    BY <2>2, ArrivesKeep
  <2>3. ASSUME NEW t \in Sides, ReadPayload(t)
        PROVE  /\ inq' \in [Sides -> Seq(Requests) \cup Seq(Answers)]
               /\ \A s \in Sides : inq'[s] \in Seq(From(s))
    BY <2>3, ReadDoes, Queues
  <2> QED
    BY <2>1, <2>2, <2>3
<1>2. /\ outq' \in [Sides -> Seq(ToClient) \cup Seq(Requests)]
      /\ \A t \in Sides : outq'[t] \in Seq(To(t))
  <2>1. CASE outq' = outq
    BY <2>1 DEF TInv, QueuesOK
  <2>2. CASE \E t \in Sides : \E pkt : Sends(t, pkt)
    BY <2>2, SendsKeep
  <2>3. CASE \E t \in Sides : outq[t] # <<>> /\ outq' = [outq EXCEPT ![t] = Tail(@)]
    BY <2>3, TakesDoes
  <2> QED
    BY <2>1, <2>2, <2>3
<1> QED
  BY <1>1, <1>2 DEF QueuesOK, From, To

LEMMA HandleTypes ==
  ASSUME TInv, NEW t \in Sides, Handle(t),
         OnGetPlayerTokenRsp(t) => loginRand = Rand
  PROVE  TInv'
<1>1. Moves(t) /\ Aside /\ (outq' = outq \/ \E to \in Sides : \E pkt : Sends(to, pkt))
  BY HandleDoes DEF Handled
<1>2. GoroutinesOK' /\ QueuesOK'
  BY <1>1, QueuesSame DEF Moves, Aside, transports
<1>3. StopOK'
  <2>1. g'["endpoint"].pc = "ended" <=> g["endpoint"].pc = "ended"
    <3>1. CASE t = "endpoint"
      BY <1>1, <3>1 DEF Moves
    <3>2. CASE t # "endpoint"
      BY <1>1, <3>2, SidesDiffer DEF Moves
    <3> QED
      BY <3>1, <3>2
  <2> QED
    BY <1>1, <2>1, StopSame DEF Aside, transports
<1>4. PeersOK'
  BY <1>1 DEF TInv, PeersOK, Aside
<1>5. SharedOK'
  <2>1. loginRand' \in {0, Rand} /\ loginKey' \in Keys /\ playerUid' \in {0, Uid}
    <3>1. loginRand \in {0, Rand} /\ loginKey \in Keys /\ playerUid \in {0, Uid}
      BY DEF TInv, SharedOK
    <3>2. CASE OnGetPlayerTokenReq(t)
      BY <3>1, <3>2, TokenReqDoes
    <3>3. CASE OnGetPlayerTokenRsp(t)
      <4>1. loginKey' = SessionKey
        BY <3>3, TokenRspDoes DEF SessionKey
      <4> QED
        BY <3>1, <3>3, <4>1, TokenRspDoes, KeysDiffer
    <3>4. CASE UNCHANGED keys
      BY <3>1, <3>4 DEF keys
    <3> QED
      BY <3>2, <3>3, <3>4, HandleKeys
  <2>2. cachedPullRecentChat' \in {-1, 0} /\ cachedClientSetGameTime' \in 0..MaxSends
    <3>1. cachedPullRecentChat \in {-1, 0} /\ cachedClientSetGameTime \in 0..MaxSends
      BY DEF TInv, SharedOK
    <3>2. CASE \/ HandlePlain(t) \/ OnPullPrivateChatReq(t) \/ OnGetPlayerFriendListRsp(t)
               \/ OnMarkMapReq(t) \/ OnPrivateChatReq(t) \/ SendConsoleAnswer(t)
               \/ SendPrivateChatRsp(t) \/ OnGetPlayerTokenReq(t) \/ OnGetPlayerTokenRsp(t)
               \/ OnChangeGameTimeRsp(t) \/ ReadTime(t) \/ SendChangeGameTimeReq(t)
               \/ SendClientSetGameTimeRsp(t)
      <4>1. UNCHANGED caches
        BY <3>2, PlainDoes, ChatDoes, TokenReqDoes, TokenRspDoes, ChangeRspDoes, ReadTimeDoes,
           SendChangeDoes, AnswerDoes
      <4> QED
        BY <3>1, <4>1 DEF caches
    <3>3. CASE OnClientSetGameTimeReq(t)
      BY <3>1, <3>3, SetTimeDoes, ProxyConstants
    <3>4. CASE ClearTime(t)
      BY <3>1, <3>4, ClearTimeDoes, ProxyConstants
    <3>5. CASE OnPullRecentChatReq(t)
      BY <3>1, <3>5, PullReqDoes
    <3>6. CASE OnPullRecentChatRsp(t)
      BY <3>1, <3>6, PullRspDoes
    <3> QED
      BY <3>2, <3>3, <3>4, <3>5, <3>6 DEF Handle
  <2> QED
    BY <2>1, <2>2 DEF SharedOK
<1> QED
  BY <1>2, <1>3, <1>4, <1>5 DEF TInv

LEMMA GoroutineTypes ==
  ASSUME TInv, NEW t \in Sides, ReadPayload(t) \/ PayloadFails(t) \/ SendOn(t)
  PROVE  TInv'
<1>1. UNCHANGED <<closed, ctxDone, keys, caches, client, server>>
  BY ReadDoes, FailsDoes, SendOnDoes DEF Aside, transports
<1>2. SharedOK' /\ PeersOK'
  BY <1>1 DEF TInv, SharedOK, PeersOK, keys, caches
<1>3. GoroutinesOK' /\ \A s \in Sides \ {t} : g'[s] = g[s]
  BY ReadDoes, FailsDoes, SendOnDoes
<1>4. QueuesOK'
  <2>1. CASE ReadPayload(t)
    <3>1. outq' = outq
      BY <2>1, ReadDoes
    <3> QED
      BY <2>1, <3>1, QueuesSame
  <2>2. CASE PayloadFails(t)
    BY <2>2, FailsDoes, QueuesSame DEF transports
  <2>3. CASE SendOn(t)
    <3>1. inq' = inq /\ \E pkt : Sends(Opposite(t), pkt)
      BY <2>3, SendOnDoes DEF Aside, transports
    <3> QED
      BY <3>1, QueuesSame, SidesDiffer
  <2> QED
    BY <2>1, <2>2, <2>3
<1>5. StopOK'
  <2>1. CASE PayloadFails(t)
    <3>1. g["endpoint"].pc = "payload" /\ g'["endpoint"].pc = "ended" /\ wg' = wg - 1
      BY <2>1, FailsDoes
    <3> QED
      BY <1>1, <3>1 DEF TInv, StopOK
  <2>2. CASE ReadPayload(t) \/ SendOn(t)
    <3>1. UNCHANGED <<closed, ctxDone, wg>>
      BY <2>2, ReadDoes, SendOnDoes DEF Aside, transports
    <3>2. /\ g[t].pc \in {"payload", "send"}
          /\ g' = g \/ g'[t].pc \in {"handle", "payload"}
      BY <2>2, ReadDoes, SendOnDoes
    <3>3. g'["endpoint"].pc = "ended" <=> g["endpoint"].pc = "ended"
      BY <1>3, <3>2, SidesDiffer
    <3> QED
      BY <3>1, <3>3, StopSame
  <2> QED
    BY <2>1, <2>2
<1> QED
  BY <1>2, <1>3, <1>4, <1>5 DEF TInv

\* What the client may say.
LEMMA SaysDoes ==
  ASSUME TInv,
         ClientLogin \/ ClientPing \/ ClientTime \/ ClientChange \/ ClientPull \/ ClientChat \/ ClientAsks
  PROVE  \E pkt : /\ ClientSays(pkt)
                  /\ \/ /\ pkt.name = "GetPlayerTokenReq"
                        /\ client.state = "new" /\ client'.state = "waiting"
                     \/ /\ pkt.name \in RequestNames \ {"GetPlayerTokenReq"}
                        /\ client'.state = client.state
                        /\ pkt.name = "PrivateChatReq" => client.state = "in"
<1> DEFINE Said(pkt) ==
      \/ /\ pkt.name = "GetPlayerTokenReq"
         /\ client.state = "new" /\ client'.state = "waiting"
      \/ /\ pkt.name \in RequestNames \ {"GetPlayerTokenReq"}
         /\ client'.state = client.state
         /\ pkt.name = "PrivateChatReq" => client.state = "in"
<1>1. CASE ClientLogin
  BY <1>1, LoginDoes
<1>2. CASE ClientPing
  <2>1. PICK pkt : ClientSays(pkt) /\ pkt.name = "PingReq" /\ client'.state = client.state
    BY <1>2, PingDoes
  <2>2. Said(pkt)
    BY <2>1 DEF RequestNames
  <2> QED
    BY <2>1, <2>2
<1>3. CASE ClientTime
  <2>1. PICK pkt : ClientSays(pkt) /\ pkt.name = "ClientSetGameTimeReq"
    BY <1>3, TimeDoes
  <2>2. Said(pkt)
    BY <1>3, <2>1, TimeDoes DEF RequestNames
  <2> QED
    BY <2>1, <2>2
<1>4. CASE ClientPull
  <2>1. PICK pkt : ClientSays(pkt) /\ pkt.name = "PullRecentChatReq"
    BY <1>4, PullDoes
  <2>2. Said(pkt)
    BY <1>4, <2>1, PullDoes DEF RequestNames
  <2> QED
    BY <2>1, <2>2
<1>5. CASE ClientChange \/ ClientChat \/ ClientAsks
  <2>1. PICK pkt : ClientSays(pkt) /\ pkt.name \in RequestNames \ {"GetPlayerTokenReq"}
    BY <1>5, OtherAskDoes DEF RequestNames
  <2>2. Said(pkt)
    BY <1>5, <2>1, OtherAskDoes
  <2> QED
    BY <2>1, <2>2
<1> QED
  BY <1>1, <1>2, <1>3, <1>4, <1>5

LEMMA PeerTypes ==
  ASSUME TInv, ClientStep \/ ServerReads \/ ServerPush
  PROVE  TInv'
<1>1. UNCHANGED <<closed, ctxDone, g, wg, keys, caches>>
  <2>1. CASE ClientStep /\ ~ClientReads
    <3>1. \E pkt : ClientSays(pkt)
      BY <2>1, SaysDoes DEF ClientStep
    <3> QED
      BY <3>1 DEF ClientSays, ClientOnly
  <2>2. CASE ClientReads
    BY <2>2, ClientReadsDoes DEF transports
  <2>3. CASE ServerReads
    BY <2>3, ServerReadsDoes
  <2>4. CASE ServerPush
    BY <2>4, PushDoes
  <2> QED
    BY <2>1, <2>2, <2>3, <2>4
<1>2. SharedOK' /\ GoroutinesOK' /\ StopOK'
  BY <1>1 DEF TInv, SharedOK, GoroutinesOK, StopOK, Is, EndpointAt, UpstreamAt, keys, caches
<1>3. QueuesOK' /\ client' \in Clients /\ server' \in Servers
  <2>1. client \in Clients /\ server \in Servers
    BY ClientAt, ServerAt
  <2>2. CASE ClientStep /\ ~ClientReads
    <3>1. PICK pkt : ClientSays(pkt)
      BY <2>2, SaysDoes DEF ClientStep
    <3>2. outq' = outq /\ client' \in Clients /\ server' = server /\ \E t \in Sides : \E p : Arrives(t, p)
      BY <3>1, SidesDiffer DEF ClientSays, ClientOnly
    <3> QED
      BY <2>1, <3>2, QueuesSame
  <2>3. CASE ClientReads
    <3>1. /\ client' \in Clients /\ server' = server /\ inq' = inq
          /\ \E t \in Sides : outq[t] # <<>> /\ outq' = [outq EXCEPT ![t] = Tail(@)]
      BY <2>3, ClientReadsDoes, SidesDiffer DEF transports
    <3> QED
      BY <2>1, <3>1, QueuesSame
  <2>4. CASE ServerReads
    <3>1. /\ server' \in Servers /\ client' = client
          /\ inq' = inq \/ \E t \in Sides : \E p : Arrives(t, p)
          /\ \E t \in Sides : outq[t] # <<>> /\ outq' = [outq EXCEPT ![t] = Tail(@)]
      BY <2>4, ServerReadsDoes, SidesDiffer
    <3> QED
      BY <2>1, <3>1, QueuesSame
  <2>5. CASE ServerPush
    <3>1. /\ server' \in Servers /\ client' = client /\ outq' = outq
          /\ \E t \in Sides : \E p : Arrives(t, p)
      BY <2>5, PushDoes, SidesDiffer
    <3> QED
      BY <2>1, <3>1, QueuesSame
  <2> QED
    BY <2>2, <2>3, <2>4, <2>5
<1>4. PeersOK'
  BY <1>3 DEF PeersOK, Clients, Servers
<1> QED
  BY <1>2, <1>3, <1>4 DEF TInv

LEMMA CloseTypes ==
  ASSUME TInv, NEW t \in Sides, CloseTransport(t)
  PROVE  TInv'
<1>1. UNCHANGED <<inq, outq, g, wg, keys, caches, client, server>>
  BY DEF CloseTransport
<1>2. QueuesOK' /\ GoroutinesOK' /\ SharedOK' /\ PeersOK'
  BY <1>1 DEF TInv, QueuesOK, GoroutinesOK, SharedOK, PeersOK, Is, EndpointAt, UpstreamAt, keys,
              caches, From, To
<1>3. StopOK'
  BY <1>1 DEF TInv, StopOK, CloseTransport, Cancels
<1> QED
  BY <1>2, <1>3 DEF TInv

-----------------------------------------------------------------------------
(* The exchange of keys: as long as it is under way, its packet is in one   *)
(* of the eight places, and the place tells who has the new key.            *)

Token(i) == Place(i, "GetPlayerTokenReq", "GetPlayerTokenRsp")

LoginOK ==
  /\ Alone("GetPlayerTokenReq", "GetPlayerTokenRsp")
  /\ client.state = "new" => loginKey = Shared /\ server.key = Shared
  /\ client.state = "in" => loginKey = SessionKey
  /\ client.state \in {"new", "in"} => \A i \in 1..8 : ~Token(i)
  /\ loginKey = SessionKey => server.key = SessionKey
  /\ loginKey = SessionKey /\ "endpoint" \notin closed =>
       client.state = "in" \/ Token(7) \/ Token(8)
  /\ \A i \in 1..8 : Token(i) =>
       /\ i \in 1..4 => server.key = Shared
       /\ i \in 3..8 => loginRand = Rand
       /\ i \in 5..8 => server.key = SessionKey
       /\ i \in 7..8 <=> loginKey = SessionKey

\* The console hears only a client that is in.
ChatOK ==
  Has(inq["endpoint"], "PrivateChatReq") \/ g["endpoint"].pkt.name = "PrivateChatReq" =>
    client.state = "in"

LEMMA TokenPair == Pair("GetPlayerTokenReq", "GetPlayerTokenRsp")
  BY DEF Pair

\* The key changes hands at the even places only.
LEMMA LoginKeeps ==
  ASSUME TInv, LoginOK, NEW k \in 0..8,
         Single("GetPlayerTokenReq", "GetPlayerTokenRsp")',
         Shift(k, "GetPlayerTokenReq", "GetPlayerTokenRsp"),
         k \in {2, 4, 6, 8} => ~Token(k),
         loginRand' = loginRand, loginKey' = loginKey, client'.state = client.state,
         server'.key = server.key, closed \subseteq closed',
         Token(7) /\ "endpoint" \notin closed => Token(7)' \/ Token(8)'
  PROVE  LoginOK'
<1>1. Alone("GetPlayerTokenReq", "GetPlayerTokenRsp")'
  BY ShiftAlone DEF LoginOK
<1>2. /\ \A i \in 1..8 : Token(i)' => Token(i) \/ (i = k + 1 /\ k \in 1..7 /\ Token(k))
      /\ \A i \in {7, 8} \ {k} : Token(i) => Token(i)'
  BY DEF Shift, Token
<1> HIDE DEF Token
<1>3. ASSUME NEW i \in 1..8, Token(i)'
      PROVE  /\ \E j \in 1..8 : Token(j)
             /\ i \in 1..4 => server.key = Shared
             /\ i \in 3..8 => loginRand = Rand
             /\ i \in 5..8 => server.key = SessionKey
             /\ i \in 7..8 <=> loginKey = SessionKey
  <2>1. CASE Token(i)
    BY <2>1 DEF LoginOK
  <2>2. CASE i = k + 1 /\ k \in 1..7 /\ Token(k)
    <3>1. k \in {1, 3, 5, 7} /\ k \in 1..8
      BY <2>2
    <3>2. /\ k \in 1..4 => server.key = Shared
          /\ k \in 3..8 => loginRand = Rand
          /\ k \in 5..8 => server.key = SessionKey
          /\ k \in 7..8 <=> loginKey = SessionKey
      BY <2>2, <3>1 DEF LoginOK
    <3> QED
      BY <2>2, <3>1, <3>2
  <2> QED
    BY <1>2, <1>3, <2>1, <2>2
<1>4. loginKey = SessionKey /\ "endpoint" \notin closed' =>
        client'.state = "in" \/ Token(7)' \/ Token(8)'
  <2> SUFFICES ASSUME loginKey = SessionKey, "endpoint" \notin closed'
               PROVE  client'.state = "in" \/ Token(7)' \/ Token(8)'
    OBVIOUS
  <2>1. client.state = "in" \/ Token(7) \/ Token(8)
    BY DEF LoginOK
  <2>2. Token(8) => Token(8)'
    BY <1>2
  <2> QED
    BY <2>1, <2>2
<1>5. client.state \in {"new", "in"} => \A i \in 1..8 : ~Token(i)
  BY DEF LoginOK
<1>6. client'.state \in {"new", "in"} => \A i \in 1..8 : ~Token(i)'
  BY <1>3, <1>5
<1>7. \A i \in 1..8 : Token(i)' =>
        /\ i \in 1..4 => server'.key = Shared
        /\ i \in 3..8 => loginRand' = Rand
        /\ i \in 5..8 => server'.key = SessionKey
        /\ i \in 7..8 <=> loginKey' = SessionKey
  BY <1>3
<1>8. /\ client'.state = "new" => loginKey' = Shared /\ server'.key = Shared
      /\ client'.state = "in" => loginKey' = SessionKey
      /\ loginKey' = SessionKey => server'.key = SessionKey
  BY DEF LoginOK
<1>9. loginKey' = SessionKey /\ "endpoint" \notin closed' =>
        client'.state = "in" \/ Token(7)' \/ Token(8)'
  BY <1>4
<1> QED
  BY <1>1, <1>6, <1>7, <1>8, <1>9 DEF LoginOK

\* Places 2 and 6: the handlers of handler_login.go.
LEMMA LoginHandled ==
  ASSUME TInv, LoginOK, NEW t \in Sides, Handle(t)
  PROVE  /\ LoginOK'
         /\ OnGetPlayerTokenRsp(t) => loginRand = Rand
<1> DEFINE ask == "GetPlayerTokenReq"
           answer == "GetPlayerTokenRsp"
<1>1. Pair(ask, answer) /\ Single(ask, answer) /\ Handled(t)
  BY TokenPair, HandleDoes DEF LoginOK, Alone
<1>2. Single(ask, answer)' /\ Shift(Steps(t), ask, answer)
  BY <1>1, HandledShifts
<1>3. Alone(ask, answer)'
  BY <1>2, ShiftAlone DEF LoginOK, Steps
<1>4. client' = client /\ server' = server /\ closed' = closed
  BY <1>1 DEF Handled, Aside, transports
<1>5. CASE OnGetPlayerTokenReq(t)
  <2>1. /\ t = "endpoint" /\ loginRand' = Rand /\ loginKey' = loginKey
        /\ Token(2)
    BY <1>5, TokenReqDoes DEF Token, Place
  <2>2. \A i \in 1..8 : Token(i) => i = 2
    BY <2>1 DEF LoginOK, Alone, Token
  <2>3. \A i \in 1..8 : Token(i)' => i \in {2, 3}
    BY <1>2, <2>1, <2>2 DEF Shift, Steps, Token
  <2>4. /\ server.key = Shared /\ loginKey # SessionKey
        /\ client.state \notin {"new", "in"}
    BY <2>1 DEF LoginOK
  <2>5. ~Token(2)'
    BY <1>5, <2>1, TokenReqDoes DEF Token, Place
  <2> HIDE DEF Token
  <2> QED
    BY <1>3, <1>4, <2>1, <2>3, <2>4, <2>5, <1>5, TokenRspDoes, SidesDiffer DEF LoginOK
<1>6. CASE OnGetPlayerTokenRsp(t)
  <2>1. /\ t = "upstream" /\ loginRand' = loginRand /\ loginKey' = Key(loginRand, Seed)
        /\ Token(6) /\ Token(7)'
    BY <1>6, TokenRspDoes DEF Token, Place
  <2>2. \A i \in 1..8 : Token(i)' => i = 7
    BY <1>3, <2>1 DEF Alone, Token
  <2>3. /\ server.key = SessionKey /\ loginRand = Rand
        /\ client.state \notin {"new", "in"}
    BY <2>1 DEF LoginOK
  <2>4. loginKey' = SessionKey
    BY <2>1, <2>3 DEF SessionKey
  <2> HIDE DEF Token
  <2> QED
    BY <1>3, <1>4, <2>1, <2>2, <2>3, <2>4 DEF LoginOK
<1>7. CASE UNCHANGED keys /\ g[t].pkt.name \notin {ask, answer}
  <2>1. ~Token(Steps(t))
    BY <1>7, SidesDiffer DEF Token, Place, Steps
  <2>2. Token(7) => Token(7)'
    BY <1>2 DEF Shift, Steps, Token
  <2>3. loginRand' = loginRand /\ loginKey' = loginKey
    BY <1>7 DEF keys
  <2>4. Steps(t) \in {2, 6}
    BY DEF Steps
  <2>5. LoginOK'
    BY <1>2, <1>4, <2>1, <2>2, <2>3, <2>4, LoginKeeps
  <2>6. ~OnGetPlayerTokenRsp(t)
    BY <1>7, TokenRspDoes
  <2> QED
    BY <2>5, <2>6
<1> QED
  BY <1>5, <1>6, <1>7, HandleKeys

\* Places 1, 3, 5 and 7, and the end of a goroutine.
LEMMA LoginGoes ==
  ASSUME TInv, LoginOK, NEW t \in Sides,
         ReadPayload(t) \/ SendOn(t) \/ PayloadFails(t) \/ CloseTransport(t)
  PROVE  LoginOK'
<1> DEFINE ask == "GetPlayerTokenReq"
           answer == "GetPlayerTokenRsp"
<1>1. Pair(ask, answer) /\ Single(ask, answer) /\ Alone(ask, answer)
  BY TokenPair DEF LoginOK, Alone
<1>2. /\ UNCHANGED <<keys, client, server>> /\ closed \subseteq closed'
  BY ReadDoes, SendOnDoes, FailsDoes DEF Aside, transports, CloseTransport
<1>3. loginRand' = loginRand /\ loginKey' = loginKey
  BY <1>2 DEF keys
<1>4. CASE ReadPayload(t)
  <2>1. Single(ask, answer)' /\ Shift(IF t = "endpoint" THEN 1 ELSE 5, ask, answer)
    BY <1>1, <1>4, ReadShifts
  <2>2. Token(7) => Token(7)'
    BY <2>1 DEF Shift, Token
  <2>3. PICK k \in {1, 5} : Shift(k, ask, answer)
    BY <2>1
  <2> QED
    BY <1>2, <1>3, <2>1, <2>2, <2>3, LoginKeeps
<1>5. CASE SendOn(t)
  <2>1. /\ Single(ask, answer)' /\ Shift(IF t = "endpoint" THEN 3 ELSE 7, ask, answer)
        /\ Token(7) /\ "endpoint" \notin closed => Token(7)' \/ Token(8)'
    BY <1>1, <1>5, SendOnShifts DEF Token
  <2>2. PICK k \in {3, 7} : Shift(k, ask, answer)
    BY <2>1
  <2> QED
    BY <1>2, <1>3, <2>1, <2>2, LoginKeeps
<1>6. CASE PayloadFails(t) \/ CloseTransport(t)
  <2>1. Single(ask, answer)' /\ Shift(0, ask, answer)
    BY <1>1, <1>6, StillShifts, FailsDoes DEF CloseTransport, transports
  <2>2. Token(7) => Token(7)'
    BY <2>1 DEF Shift, Token
  <2> QED
    BY <1>2, <1>3, <2>1, <2>2, LoginKeeps
<1> QED
  BY <1>4, <1>5, <1>6

\* The client begins the exchange, and ends it.
LEMMA LoginClient ==
  ASSUME TInv, LoginOK, ClientStep,
         ClientReads /\ Head(outq["endpoint"]).name = "GetPlayerTokenRsp" =>
           Opens(client.key, Head(outq["endpoint"]))
  PROVE  LoginOK'
<1> DEFINE ask == "GetPlayerTokenReq"
           answer == "GetPlayerTokenRsp"
<1>1. Pair(ask, answer) /\ Single(ask, answer) /\ Alone(ask, answer)
  BY TokenPair DEF LoginOK, Alone
<1>2. CASE ClientReads
  <2> DEFINE pkt == Head(outq["endpoint"])
  <2>1. /\ Single(ask, answer)' /\ Shift(8, ask, answer)
        /\ Token(8)' => pkt.name # answer
        /\ Token(8) <=> pkt.name = answer \/ Token(8)'
    BY <1>1, <1>2, ClientReadsShifts DEF Token
  <2>2. UNCHANGED <<transports, g, wg, keys, caches, server>>
    BY <1>2, ClientReadsDoes
  <2>3. loginRand' = loginRand /\ loginKey' = loginKey /\ closed' = closed /\ server' = server
    BY <2>2 DEF keys, transports
  <2>4. Alone(ask, answer)'
    BY <1>1, <2>1, ShiftAlone
  <2>5. /\ \A i \in 1..8 : Token(i)' => Token(i)
        /\ Token(7) => Token(7)'
    BY <2>1 DEF Shift, Token
  <2>6. CASE pkt.name = answer
    <3>1. client'.state = "in" /\ Token(8) /\ ~Token(8)'
      BY <1>2, <2>1, <2>6, ClientReadsDoes
    <3>2. \A i \in 1..8 : Token(i) => i = 8
      BY <1>1, <3>1 DEF Alone, Token
    <3> HIDE DEF Token
    <3>3. loginKey = SessionKey /\ server.key = SessionKey
      BY <3>1 DEF LoginOK
    <3>4. \A i \in 1..8 : ~Token(i)'
      BY <2>5, <3>1, <3>2
    <3> QED
      BY <2>3, <2>4, <3>1, <3>3, <3>4 DEF LoginOK
  <2>7. CASE pkt.name # answer
    <3>1. client'.state = client.state
      BY <1>2, <2>7, ClientReadsDoes
    <3>2. Token(8) => Token(8)'
      BY <2>1, <2>7
    <3>3. Shift(0, ask, answer)
      BY <2>5, <3>2 DEF Shift, Token
    <3> QED
      BY <2>1, <2>3, <2>5, <3>1, <3>3, LoginKeeps
  <2> QED
    BY <2>6, <2>7
<1>3. CASE ~ClientReads
  <2>1. PICK pkt : /\ ClientSays(pkt)
                   /\ \/ pkt.name = ask /\ client.state = "new" /\ client'.state = "waiting"
                      \/ pkt.name # ask /\ client'.state = client.state
    BY <1>3, SaysDoes DEF ClientStep
  <2>2. loginRand' = loginRand /\ loginKey' = loginKey /\ closed' = closed /\ server' = server
    BY <2>1 DEF ClientSays, ClientOnly, keys
  <2>3. CASE pkt.name = ask /\ client.state = "new" /\ client'.state = "waiting"
    <3>1. \A i \in 1..8 : ~Token(i)
      BY <2>3 DEF LoginOK
    <3>2. /\ Single(ask, answer)'
          /\ \A i \in 1..8 : Token(i)' => Token(i) \/ i = 1
      BY <1>1, <2>1, <3>1, SaysShifts DEF Token
    <3>3. \A i \in 1..8 : Token(i)' => i = 1
      BY <3>1, <3>2
    <3>4. Alone(ask, answer)'
      BY <3>2, <3>3 DEF Alone, Token
    <3>5. loginKey = Shared /\ server.key = Shared /\ Shared # SessionKey
      BY <2>3, KeysDiffer DEF LoginOK
    <3> HIDE DEF Token
    <3> QED
      BY <2>2, <2>3, <3>3, <3>4, <3>5 DEF LoginOK
  <2>4. CASE pkt.name # ask /\ client'.state = client.state
    <3>1. Single(ask, answer)' /\ Shift(0, ask, answer)
      BY <1>1, <2>1, <2>4, SaysShifts
    <3>2. Token(7) => Token(7)'
      BY <3>1 DEF Shift, Token
    <3> QED
      BY <2>2, <2>4, <3>1, <3>2, LoginKeeps
  <2> QED
    BY <2>1, <2>3, <2>4
<1> QED
  BY <1>2, <1>3

\* Place 4.
LEMMA LoginServer ==
  ASSUME TInv, LoginOK, ServerReads \/ ServerPush
  PROVE  LoginOK'
<1> DEFINE ask == "GetPlayerTokenReq"
           answer == "GetPlayerTokenRsp"
<1>1. Pair(ask, answer) /\ Single(ask, answer) /\ Alone(ask, answer)
  BY TokenPair DEF LoginOK, Alone
<1>2. UNCHANGED <<closed, keys, client>>
  BY ServerReadsDoes, PushDoes
<1>3. loginRand' = loginRand /\ loginKey' = loginKey
  BY <1>2 DEF keys
<1>4. CASE ServerPush
  <2>1. Single(ask, answer)' /\ Shift(0, ask, answer) /\ server'.key = server.key
    BY <1>1, <1>4, PushShifts, PushDoes
  <2>2. Token(7) => Token(7)'
    BY <2>1 DEF Shift, Token
  <2> QED
    BY <1>2, <1>3, <2>1, <2>2, LoginKeeps
<1>5. CASE ServerReads
  <2> DEFINE pkt == Head(outq["upstream"])
  <2>1. /\ Single(ask, answer)' /\ Shift(4, ask, answer)
        /\ Token(4)' => pkt.name # ask
        /\ Token(4) <=> pkt.name = ask \/ Token(4)'
        /\ Token(5)' => Token(5) \/ ~UNCHANGED <<inq, server>>
    BY <1>1, <1>5, ServerReadsShifts DEF Token
  <2>2. /\ \A i \in 1..8 : Token(i)' => Token(i) \/ (i = 5 /\ Token(4) /\ ~Token(4)')
        /\ Token(7) => Token(7)'
    BY <2>1 DEF Shift, Token
  <2>3. \/ UNCHANGED <<inq, server>>
        \/ server'.key = IF pkt.name = ask THEN SessionKey ELSE server.key
    BY <1>5, ServerReadsDoes
  <2>4. CASE pkt.name = ask
    <3>1. Token(4) /\ ~Token(4)'
      BY <2>1, <2>4
    <3>2. \A i \in 1..8 : Token(i) => i = 4
      BY <1>1, <3>1 DEF Alone, Token
    <3>3. Alone(ask, answer)'
      BY <1>1, <2>1, ShiftAlone
    <3> HIDE DEF Token
    <3>4. /\ server.key = Shared /\ loginRand = Rand /\ loginKey # SessionKey
          /\ client.state \notin {"new", "in"}
      BY <3>1 DEF LoginOK
    <3>5. \A i \in 1..8 : Token(i)' => i = 5
      BY <2>2, <3>1, <3>2
    <3>6. Token(5)' => server'.key = SessionKey
      BY <2>1, <2>3, <2>4, <3>2
    <3> QED
      BY <1>2, <1>3, <3>3, <3>4, <3>5, <3>6 DEF LoginOK
  <2>5. CASE pkt.name # ask
    <3>1. server'.key = server.key
      BY <2>3, <2>5
    <3>2. Shift(0, ask, answer)
      <4>1. Token(4) => Token(4)'
        BY <2>1, <2>5
      <4>2. \A i \in 1..8 : Token(i)' => Token(i)
        BY <2>2, <4>1
      <4>3. \A i \in {7, 8} : Token(i) => Token(i)'
        BY <2>1 DEF Shift, Token
      <4> QED
        BY <4>2, <4>3 DEF Shift, Token
    <3> QED
      BY <1>2, <1>3, <2>1, <2>2, <3>1, <3>2, LoginKeeps
  <2> QED
    BY <2>4, <2>5
<1> QED
  BY <1>4, <1>5

-----------------------------------------------------------------------------
(* What the peers can decrypt.                                             *)

ClientCan(q, in) ==
  \A i \in DOMAIN q :
    q[i].key = IF in \/ \E j \in 1..(i - 1) : q[j].name = "GetPlayerTokenRsp"
               THEN SessionKey ELSE Shared

ServerCan(q, key) ==
  \A i \in DOMAIN q :
    /\ q[i].key \in {Shared, key}
    /\ \A j \in 1..(i - 1) : q[j].key # Shared => q[i].key # Shared

LEMMA AppendCan ==
  ASSUME NEW S, NEW q \in Seq(S), NEW x \in S, NEW in, NEW key
  PROVE  /\ /\ ClientCan(q, in)
            /\ x.key = IF in \/ Has(q, "GetPlayerTokenRsp") THEN SessionKey ELSE Shared
            => ClientCan(Append(q, x), in)
         /\ /\ ServerCan(q, key) /\ x.key \in {Shared, key}
            /\ x.key = Shared => \A pkt \in Items(q) : pkt.key = Shared
            => ServerCan(Append(q, x), key)
<1> DEFINE r == Append(q, x)
           n == Len(q)
<1>1. /\ r \in Seq(S) /\ Len(r) = n + 1 /\ r[n + 1] = x /\ DOMAIN q = 1..n /\ n \in Nat
      /\ \A i \in 1..n : r[i] = q[i]
  BY AppendItems
<1>2. DOMAIN r = 1..(n + 1)
  BY <1>1, LenProperties
<1> HIDE DEF r, n
<1>3. \A i \in 1..(n + 1) : i = n + 1 \/ i \in 1..n
  BY <1>1
<1>4. \A i \in 1..(n + 1) : \A j \in 1..(i - 1) : j \in 1..n
  BY <1>1
<1>5. (n + 1) - 1 = n
  BY <1>1
<1>6. ASSUME ClientCan(q, in),
             x.key = IF in \/ Has(q, "GetPlayerTokenRsp") THEN SessionKey ELSE Shared
      PROVE  ClientCan(r, in)
  <2> SUFFICES ASSUME NEW i \in 1..(n + 1)
               PROVE  r[i].key = IF in \/ \E j \in 1..(i - 1) : r[j].name = "GetPlayerTokenRsp"
                                 THEN SessionKey ELSE Shared
    BY <1>2 DEF ClientCan
  <2>1. (\E j \in 1..(i - 1) : r[j].name = "GetPlayerTokenRsp")
          <=> \E j \in 1..(i - 1) : q[j].name = "GetPlayerTokenRsp"
    BY <1>1, <1>4
  <2>2. CASE i \in 1..n
    BY <1>1, <1>6, <2>1, <2>2 DEF ClientCan
  <2>3. CASE i = n + 1
    <3>1. Has(q, "GetPlayerTokenRsp") <=> \E j \in 1..(i - 1) : q[j].name = "GetPlayerTokenRsp"
      BY <1>1, <1>5, <2>3 DEF Has, Items
    <3> QED
      BY <1>1, <1>6, <2>1, <2>3, <3>1
  <2> QED
    BY <1>3, <2>2, <2>3
<1>7. ASSUME ServerCan(q, key), x.key \in {Shared, key},
             x.key = Shared => \A pkt \in Items(q) : pkt.key = Shared
      PROVE  ServerCan(r, key)
  <2> SUFFICES ASSUME NEW i \in 1..(n + 1)
               PROVE  /\ r[i].key \in {Shared, key}
                      /\ \A j \in 1..(i - 1) : r[j].key # Shared => r[i].key # Shared
    BY <1>2 DEF ServerCan
  <2>1. \A j \in 1..(i - 1) : r[j] = q[j] /\ q[j] \in Items(q)
    BY <1>1, <1>4 DEF Items
  <2>2. CASE i \in 1..n
    BY <1>1, <1>7, <2>1, <2>2 DEF ServerCan
  <2>3. CASE i = n + 1
    BY <1>1, <1>7, <2>1, <2>3
  <2> QED
    BY <1>3, <2>2, <2>3
<1> QED
  BY <1>6, <1>7 DEF r

LEMMA TailCan ==
  ASSUME NEW S, NEW q \in Seq(S), q # <<>>, NEW in, NEW key
  PROVE  /\ ClientCan(q, in) =>
              /\ Head(q).key = IF in THEN SessionKey ELSE Shared
              /\ ClientCan(Tail(q), in \/ Head(q).name = "GetPlayerTokenRsp")
         /\ ServerCan(q, key) => ServerCan(Tail(q), key)
<1> DEFINE r == Tail(q)
           n == Len(q)
<1>1. /\ Head(q) = q[1] /\ n \in Nat \ {0} /\ DOMAIN q = 1..n /\ DOMAIN r = 1..(n - 1)
      /\ \A i \in 1..(n - 1) : r[i] = q[i + 1]
  BY TailItems
<1> HIDE DEF r, n
<1>2. /\ \A i \in 1..(n - 1) : i + 1 \in 1..n /\ (i + 1) - 1 = i
      /\ \A i \in 1..(n - 1) : \A j \in 1..(i - 1) : j \in 1..(n - 1) /\ j + 1 \in 1..i
      /\ \A i \in 1..(n - 1) : \A j \in 1..i : j = 1 \/ j - 1 \in 1..(i - 1)
      /\ \A i \in 1..(n - 1) : \A j \in 1..(i - 1) : j \in 1..(n - 1)
      /\ 1..(1 - 1) = {} /\ 1 \in 1..n
  BY <1>1
<1>3. ASSUME ClientCan(q, in)
      PROVE  /\ q[1].key = IF in THEN SessionKey ELSE Shared
             /\ ClientCan(r, in \/ q[1].name = "GetPlayerTokenRsp")
  <2>1. q[1].key = IF in THEN SessionKey ELSE Shared
    BY <1>1, <1>2, <1>3 DEF ClientCan
  <2> SUFFICES ASSUME NEW i \in 1..(n - 1)
               PROVE  r[i].key = IF \/ in \/ q[1].name = "GetPlayerTokenRsp"
                                    \/ \E j \in 1..(i - 1) : r[j].name = "GetPlayerTokenRsp"
                                 THEN SessionKey ELSE Shared
    BY <1>1, <2>1 DEF ClientCan
  <2>2. q[i + 1].key = IF in \/ \E j \in 1..i : q[j].name = "GetPlayerTokenRsp"
                       THEN SessionKey ELSE Shared
    <3>1. i + 1 \in 1..n /\ (i + 1) - 1 = i
      BY <1>2
    <3> QED
      BY <1>1, <1>3, <3>1 DEF ClientCan
  <2>3. (\E j \in 1..i : q[j].name = "GetPlayerTokenRsp")
          <=> \/ q[1].name = "GetPlayerTokenRsp"
              \/ \E j \in 1..(i - 1) : r[j].name = "GetPlayerTokenRsp"
    <3>1. ASSUME NEW j \in 1..i, q[j].name = "GetPlayerTokenRsp"
          PROVE  \/ q[1].name = "GetPlayerTokenRsp"
                 \/ \E k \in 1..(i - 1) : r[k].name = "GetPlayerTokenRsp"
      <4>1. CASE j = 1
        BY <3>1, <4>1
      <4>2. CASE j - 1 \in 1..(i - 1)
        <5>1. j - 1 \in 1..(n - 1) /\ (j - 1) + 1 = j
          BY <1>1, <4>2
        <5>2. r[j - 1] = q[j]
          BY <1>1, <5>1
        <5> QED
          BY <3>1, <4>2, <5>2
      <4> QED
        BY <1>2, <4>1, <4>2
    <3>2. 1 \in 1..i
      BY <1>1
    <3>3. ASSUME NEW k \in 1..(i - 1), r[k].name = "GetPlayerTokenRsp"
          PROVE  \E j \in 1..i : q[j].name = "GetPlayerTokenRsp"
      <4>1. k \in 1..(n - 1) /\ k + 1 \in 1..i
        BY <1>2
      <4>2. q[k + 1].name = "GetPlayerTokenRsp"
        BY <1>1, <3>3, <4>1
      <4> QED
        BY <4>1, <4>2
    <3> QED
      BY <3>1, <3>2, <3>3
  <2> QED
    BY <1>1, <2>2, <2>3
<1>4. ASSUME ServerCan(q, key)
      PROVE  ServerCan(r, key)
  <2> SUFFICES ASSUME NEW i \in 1..(n - 1)
               PROVE  /\ r[i].key \in {Shared, key}
                      /\ \A j \in 1..(i - 1) : r[j].key # Shared => r[i].key # Shared
    BY <1>1 DEF ServerCan
  <2>1. /\ q[i + 1].key \in {Shared, key}
        /\ \A j \in 1..i : q[j].key # Shared => q[i + 1].key # Shared
    <3>1. i + 1 \in 1..n /\ (i + 1) - 1 = i
      BY <1>2
    <3> QED
      BY <1>1, <1>4, <3>1 DEF ServerCan
  <2>2. \A j \in 1..(i - 1) : r[j] = q[j + 1] /\ j + 1 \in 1..i
    BY <1>1, <1>2
  <2> QED
    BY <1>1, <2>1, <2>2
<1> QED
  BY <1>1, <1>3, <1>4 DEF r

LEMMA CanIs ==
  /\ ClientUnderstands <=> ClientCan(outq["endpoint"], client.state = "in")
  /\ ServerUnderstands <=> ServerCan(outq["upstream"], server.key)
  BY DEF ClientUnderstands, ServerUnderstands, ClientCan, ServerCan, SessionKey

\* The server's key is used once the proxy has it.
Understood ==
  /\ ClientCan(outq["endpoint"], client.state = "in")
  /\ ServerCan(outq["upstream"], server.key)
  /\ \A pkt \in Items(outq["upstream"]) : pkt.key # Shared => loginKey = SessionKey

IInv == TInv /\ LoginOK /\ ChatOK /\ Understood

LEMMA SentUnderstood ==
  ASSUME TInv, LoginOK, Understood, NEW to \in Sides, NEW pkt, Sends(to, pkt),
         UNCHANGED <<keys, client, server>>,
         to = "endpoint" => (pkt.name = "GetPlayerTokenRsp" <=> Token(7)),
         to = "upstream" /\ pkt.name = "GetPlayerTokenReq" => Token(3)
  PROVE  Understood'
<1> DEFINE in == client.state = "in"
<1>1. /\ loginKey' = loginKey /\ client'.state = client.state /\ server'.key = server.key
      /\ loginKey \in Keys /\ pkt \in To(to) /\ outq[to] \in Seq(To(to))
  BY Queues DEF keys, Sends, TInv, SharedOK
<1>2. pkt.key = IF pkt.name \in {"GetPlayerTokenReq", "GetPlayerTokenRsp"} THEN Shared ELSE loginKey
  BY DEF Sends, KeyFor
<1>3. /\ \A s \in Sides \ {to} : outq'[s] = outq[s]
      /\ outq'[to] = IF to \in closed THEN outq[to] ELSE Append(outq[to], pkt)
  BY SendsKeep
<1>4. CASE to \in closed
  BY <1>1, <1>3, <1>4, SidesDiffer DEF Understood
<1>5. CASE to = "endpoint" /\ to \notin closed
  <2>1. outq'["upstream"] = outq["upstream"] /\ outq'["endpoint"] = Append(outq["endpoint"], pkt)
    BY <1>3, <1>5, SidesDiffer
  <2>2. pkt.name # "GetPlayerTokenReq"
    BY <1>1, <1>5, Directions DEF To, RequestNames
  <2>3. Has(outq["endpoint"], "GetPlayerTokenRsp") <=> Token(8)
    BY DEF Token, Place
  <2>4. pkt.key = IF in \/ Token(8) THEN SessionKey ELSE Shared
    <3>1. CASE pkt.name = "GetPlayerTokenRsp"
      <4>1. ~in /\ ~Token(8)
        BY <1>5, <3>1 DEF LoginOK, Alone, Token
      <4> QED
        BY <1>2, <3>1, <4>1
    <3>2. CASE pkt.name # "GetPlayerTokenRsp"
      <4>1. loginKey = SessionKey <=> in \/ Token(8)
        <5>1. loginKey = SessionKey => in \/ Token(8)
          BY <1>5, <3>2 DEF LoginOK
        <5>2. in \/ Token(8) => loginKey = SessionKey
          BY DEF LoginOK
        <5> QED
          BY <5>1, <5>2
      <4> QED
        BY <1>1, <1>2, <2>2, <3>2, <4>1, KeysDiffer DEF Keys
    <3> QED
      BY <3>1, <3>2
  <2> HIDE DEF Token
  <2>5. ClientCan(outq["endpoint"], in) /\ outq["endpoint"] \in Seq(To("endpoint"))
    BY <1>1, <1>5 DEF Understood
  <2>6. pkt \in To("endpoint") /\ pkt.key = IF in \/ Has(outq["endpoint"], "GetPlayerTokenRsp")
                                           THEN SessionKey ELSE Shared
    BY <1>1, <1>5, <2>3, <2>4
  <2> HIDE DEF in
  <2>7. ClientCan(Append(outq["endpoint"], pkt), in)
    BY <2>5, <2>6, AppendCan
  <2> QED
    BY <1>1, <2>1, <2>7 DEF Understood, in
<1>6. CASE to = "upstream" /\ to \notin closed
  <2>1. outq'["endpoint"] = outq["endpoint"] /\ outq'["upstream"] = Append(outq["upstream"], pkt)
    BY <1>3, <1>6, SidesDiffer
  <2>2. pkt.name # "GetPlayerTokenRsp"
    BY <1>1, <1>6, Directions DEF To, AnswerNames
  <2>3. pkt.key \in {Shared, server.key} /\ (pkt.key # Shared => loginKey = SessionKey)
    <3>1. loginKey \in {Shared, SessionKey} /\ (loginKey = SessionKey => server.key = SessionKey)
      BY <1>1 DEF Keys, LoginOK
    <3> QED
      BY <1>2, <3>1, KeysDiffer
  <2>4. pkt.key = Shared => loginKey # SessionKey
    <3>1. CASE pkt.name = "GetPlayerTokenReq"
      BY <1>6, <3>1 DEF LoginOK
    <3>2. CASE pkt.name # "GetPlayerTokenReq"
      BY <1>2, <2>2, <3>2, KeysDiffer
    <3> QED
      BY <3>1, <3>2
  <2>5. pkt.key = Shared => \A p \in Items(outq["upstream"]) : p.key = Shared
    BY <2>4 DEF Understood
  <2>6. /\ ServerCan(outq["upstream"], server.key) /\ outq["upstream"] \in Seq(To("upstream"))
        /\ pkt \in To("upstream")
    BY <1>1, <1>6 DEF Understood
  <2>7. /\ ServerCan(Append(outq["upstream"], pkt), server.key)
        /\ Items(Append(outq["upstream"], pkt)) = Items(outq["upstream"]) \cup {pkt}
    <3> DEFINE q == outq["upstream"]
               key == server.key
               S == To("upstream")
    <3>1. q \in Seq(S) /\ pkt \in S /\ ServerCan(q, key) /\ pkt.key \in {Shared, key}
      BY <2>3, <2>6
    <3>2. pkt.key = Shared => \A p \in Items(q) : p.key = Shared
      BY <2>5
    <3> HIDE DEF q, key, S
    <3>3. ServerCan(Append(q, pkt), key)
      BY <3>1, <3>2, AppendCan
    <3>4. Items(Append(q, pkt)) = Items(q) \cup {pkt}
      BY <3>1, AppendItems
    <3> QED
      BY <3>3, <3>4 DEF q, key
  <2> QED
    BY <1>1, <2>1, <2>3, <2>7 DEF Understood
<1> QED
  BY <1>4, <1>5, <1>6, SidesDiffer

LEMMA HandleUnderstood ==
  ASSUME TInv, LoginOK, ChatOK, Understood, NEW t \in Sides, Handle(t)
  PROVE  Understood'
<1>1. Handled(t)
  BY HandleDoes
<1>2. client' = client /\ server' = server
  BY <1>1 DEF Handled, Aside
<1>3. CASE outq' = outq
  <2>1. loginKey = SessionKey => loginKey' = SessionKey
    <3>1. CASE OnGetPlayerTokenReq(t)
      BY <3>1, TokenReqDoes
    <3>2. CASE OnGetPlayerTokenRsp(t)
      BY <3>2, TokenRspDoes, LoginHandled DEF SessionKey
    <3>3. CASE UNCHANGED keys
      BY <3>3 DEF keys
    <3> QED
      BY <3>1, <3>2, <3>3, HandleKeys
  <2> QED
    BY <1>2, <1>3, <2>1 DEF Understood
<1>4. ASSUME NEW to \in Sides, NEW pkt \in ToClient \cup Requests, Sends(to, pkt),
             pkt.name \in Extras, UNCHANGED keys,
             to = "upstream" \/ t = "upstream" \/ g[t].pkt.name = "PrivateChatReq"
      PROVE  Understood'
  <2>1. pkt.name \notin {"GetPlayerTokenReq", "GetPlayerTokenRsp"}
    BY <1>4 DEF Extras
  <2>2. to = "endpoint" => ~Token(7)
    <3> SUFFICES ASSUME to = "endpoint"
                 PROVE  ~Token(7)
      OBVIOUS
    <3>1. CASE t = "upstream"
      <4>1. UpstreamAt(g["upstream"]) /\ g["upstream"].pc # "send"
        BY <1>1, <3>1, SidesDiffer DEF TInv, GoroutinesOK, Is, Handled, Moves
      <4> QED
        BY <4>1 DEF UpstreamAt, Token, Place, NoPacket, Packet
    <3>2. CASE t = "endpoint"
      <4>1. client.state = "in"
        BY <1>4, <3>2, SidesDiffer DEF ChatOK
      <4> QED
        BY <4>1 DEF LoginOK
    <3> QED
      BY <3>1, <3>2, SidesDiffer
  <2> QED
    BY <1>2, <1>4, <2>1, <2>2, SentUnderstood
<1> QED
  BY <1>1, <1>3, <1>4 DEF Handled

LEMMA SendOnUnderstood ==
  ASSUME TInv, LoginOK, Understood, NEW t \in Sides, SendOn(t)
  PROVE  Understood'
<1>1. PICK pkt : Sends(Opposite(t), pkt) /\ pkt.name = g[t].pkt.name
  BY SendOnDoes
<1>2. UNCHANGED <<keys, client, server>> /\ g[t].pc = "send"
  BY SendOnDoes DEF Aside
<1>3. Opposite(t) \in Sides /\ (Opposite(t) = "endpoint" => t = "upstream")
      /\ (Opposite(t) = "upstream" => t = "endpoint")
  BY SidesDiffer
<1>4. Opposite(t) = "endpoint" => (pkt.name = "GetPlayerTokenRsp" <=> Token(7))
  BY <1>1, <1>2, <1>3 DEF Token, Place
<1>5. Opposite(t) = "upstream" /\ pkt.name = "GetPlayerTokenReq" => Token(3)
  BY <1>1, <1>2, <1>3 DEF Token, Place
<1> QED
  BY <1>1, <1>2, <1>3, <1>4, <1>5, SentUnderstood

LEMMA ClientUnderstood ==
  ASSUME TInv, LoginOK, Understood, ClientReads
  PROVE  /\ Understood'
         /\ Head(outq["endpoint"]).name = "GetPlayerTokenRsp" =>
              Opens(client.key, Head(outq["endpoint"]))
<1> DEFINE pkt == Head(outq["endpoint"])
           in == client.state = "in"
<1>1. /\ outq["endpoint"] # <<>> /\ outq' = [outq EXCEPT !["endpoint"] = Tail(@)]
      /\ UNCHANGED <<keys, server>>
  BY ClientReadsDoes
<1>2. /\ outq'["endpoint"] = Tail(outq["endpoint"]) /\ outq'["upstream"] = outq["upstream"]
      /\ outq["endpoint"] \in Seq(To("endpoint"))
  BY <1>1, TakesDoes, Queues, SidesDiffer
<1>3. ClientCan(outq["endpoint"], in)
  BY DEF Understood
<1>4. \/ ~Opens(client.key, pkt) /\ client' = client
      \/ /\ Opens(client.key, pkt)
         /\ client'.state = IF pkt.name = "GetPlayerTokenRsp" THEN "in" ELSE client.state
  BY ClientReadsDoes
<1>5. ~in => Opens(client.key, pkt)
  <2> HIDE DEF in
  <2>1. pkt.key = IF in THEN SessionKey ELSE Shared
    BY <1>1, <1>2, <1>3, TailCan
  <2> QED
    BY <2>1 DEF Opens
<1>6. pkt.name = "GetPlayerTokenRsp" => ~in
  <2>1. pkt.name = "GetPlayerTokenRsp" => Token(8)
    <3>1. Pair("GetPlayerTokenReq", "GetPlayerTokenRsp")
          /\ Single("GetPlayerTokenReq", "GetPlayerTokenRsp")
      BY TokenPair DEF LoginOK, Alone
    <3> QED
      BY <3>1, ClientReadsShifts DEF Token
  <2> HIDE DEF Token
  <2> QED
    BY <2>1 DEF LoginOK
<1> DEFINE now == in \/ pkt.name = "GetPlayerTokenRsp"
<1>7. (client'.state = "in") = now
  BY <1>4, <1>5
<1>8. ClientCan(Tail(outq["endpoint"]), now)
  <2> DEFINE q == outq["endpoint"]
  <2>1. q # <<>> /\ q \in Seq(To("endpoint")) /\ ClientCan(q, in)
    BY <1>1, <1>2, <1>3
  <2> HIDE DEF in
  <2> HIDE DEF q
  <2>2. ClientCan(Tail(q), in \/ Head(q).name = "GetPlayerTokenRsp")
    BY <2>1, TailCan
  <2> QED
    BY <2>2 DEF q
<1> HIDE DEF now
<1>9. Understood'
  <2>1. ClientCan(outq'["endpoint"], client'.state = "in")
    BY <1>2, <1>7, <1>8
  <2> QED
    BY <1>1, <1>2, <2>1 DEF Understood, keys
<1> QED
  BY <1>5, <1>6, <1>9

LEMMA ServerUnderstood ==
  ASSUME TInv, LoginOK, Understood, ServerReads
  PROVE  Understood'
<1>1. /\ outq["upstream"] # <<>> /\ outq' = [outq EXCEPT !["upstream"] = Tail(@)]
      /\ UNCHANGED <<keys, client>> /\ server'.key \in {server.key, SessionKey}
  BY ServerReadsDoes
<1>2. /\ outq'["upstream"] = Tail(outq["upstream"]) /\ outq'["endpoint"] = outq["endpoint"]
      /\ outq["upstream"] \in Seq(To("upstream"))
  BY <1>1, TakesDoes, Queues, SidesDiffer
<1>3. /\ ServerCan(Tail(outq["upstream"]), server.key)
      /\ Items(Tail(outq["upstream"])) \subseteq Items(outq["upstream"])
  BY <1>1, <1>2, TailCan, TailItems DEF Understood
<1>4. ServerCan(Tail(outq["upstream"]), server'.key)
  <2>1. server.key \in {Shared, SessionKey}
    BY ServerAt DEF Keys
  <2> QED
    BY <1>1, <1>3, <2>1 DEF ServerCan
<1> QED
  BY <1>1, <1>2, <1>3, <1>4 DEF Understood, keys

\* Nothing is sent, and nobody's key changes.
LEMMA SameUnderstood ==
  ASSUME Understood, outq' = outq, loginKey' = loginKey, server'.key = server.key,
         client'.state = "in" <=> client.state = "in"
  PROVE  Understood'
<1>1. (client'.state = "in") = (client.state = "in")
  OBVIOUS
<1> QED
  BY <1>1 DEF Understood

LEMMA ChatKeeps ==
  ASSUME TInv, ChatOK, Next
  PROVE  ChatOK'
<1>1. "none" # "PrivateChatReq" /\ NoPacket.name # "PrivateChatReq"
  BY DEF NoPacket, Packet
<1>2. ASSUME inq'["endpoint"] = inq["endpoint"],
             g'["endpoint"].pkt.name \in {g["endpoint"].pkt.name, "none"},
             client.state = "in" => client'.state = "in"
      PROVE  ChatOK'
  BY <1>1, <1>2 DEF ChatOK
<1>3. ASSUME NEW t \in Sides, Handle(t)
      PROVE  ChatOK'
  <2>1. Moves(t) /\ Aside
    BY <1>3, HandleDoes DEF Handled
  <2>2. g'["endpoint"].pkt.name \in {g["endpoint"].pkt.name, "none"}
    <3>1. CASE t = "endpoint"
      BY <2>1, <3>1 DEF Moves
    <3>2. CASE t # "endpoint"
      BY <2>1, <3>2, SidesDiffer DEF Moves
    <3> QED
      BY <3>1, <3>2
  <2> QED
    BY <1>2, <2>1, <2>2 DEF Aside, transports
<1>4. ASSUME NEW t \in Sides, ReadPayload(t)
      PROVE  ChatOK'
  <2>1. client' = client
    BY <1>4, ReadDoes
  <2>2. CASE t = "endpoint"
    <3>1. /\ inq[t] # <<>> /\ inq'[t] = Tail(inq[t]) /\ inq[t] \in Seq(From(t))
          /\ g'[t].pkt \in {g[t].pkt, Head(inq[t])}
      BY <1>4, ReadDoes, Queues
    <3>2. Items(inq[t]) = {Head(inq[t])} \cup Items(Tail(inq[t]))
      BY <3>1, TailItems
    <3>3. Has(inq'[t], "PrivateChatReq") => Has(inq[t], "PrivateChatReq")
      BY <3>1, <3>2 DEF Has
    <3>4. Head(inq[t]).name = "PrivateChatReq" => Has(inq[t], "PrivateChatReq")
      BY <3>2 DEF Has
    <3> QED
      BY <2>1, <2>2, <3>1, <3>3, <3>4 DEF ChatOK
  <2>3. CASE t = "upstream"
    <3>1. inq'["endpoint"] = inq["endpoint"] /\ g'["endpoint"] = g["endpoint"]
      BY <1>4, <2>3, ReadDoes, SidesDiffer
    <3> QED
      BY <1>2, <2>1, <3>1
  <2> QED
    BY <2>2, <2>3, SidesDiffer
<1>5. ASSUME NEW t \in Sides, SendOn(t) \/ PayloadFails(t) \/ CloseTransport(t)
      PROVE  ChatOK'
  <2>1. inq' = inq /\ client' = client
    BY <1>5, SendOnDoes, FailsDoes DEF Aside, transports, CloseTransport
  <2>2. g'["endpoint"].pkt.name \in {g["endpoint"].pkt.name, "none"}
    <3>1. g' = g \/ g'[t].pkt \in {g[t].pkt, NoPacket}
      BY <1>5, SendOnDoes, FailsDoes DEF CloseTransport
    <3>2. g' = g \/ \A s \in Sides \ {t} : g'[s] = g[s]
      BY <1>5, SendOnDoes, FailsDoes DEF CloseTransport
    <3>3. NoPacket.name = "none"
      BY DEF NoPacket, Packet
    <3> QED
      BY <3>1, <3>2, <3>3, SidesDiffer
  <2> QED
    BY <1>2, <2>1, <2>2
<1>6. CASE ClientStep /\ ~ClientReads
  <2>1. PICK pkt : /\ ClientSays(pkt)
                   /\ \/ /\ pkt.name = "GetPlayerTokenReq"
                         /\ client.state = "new" /\ client'.state = "waiting"
                      \/ /\ client'.state = client.state
                         /\ pkt.name = "PrivateChatReq" => client.state = "in"
    BY <1>6, SaysDoes DEF ClientStep
  <2>2. /\ inq'["endpoint"] = Append(inq["endpoint"], pkt) /\ g' = g
        /\ inq["endpoint"] \in Seq(From("endpoint")) /\ pkt \in From("endpoint")
    BY <2>1, ArrivesKeep, Queues, SidesDiffer DEF ClientSays, ClientOnly, Arrives
  <2>3. Has(inq'["endpoint"], "PrivateChatReq") <=>
          Has(inq["endpoint"], "PrivateChatReq") \/ pkt.name = "PrivateChatReq"
    BY <2>2, AppendHas
  <2> QED
    BY <2>1, <2>2, <2>3 DEF ChatOK
<1>7. CASE ClientReads
  <2>1. UNCHANGED <<transports, g>> /\ (client.state = "in" => client'.state = "in")
    BY <1>7, ClientReadsDoes
  <2> QED
    BY <1>2, <2>1 DEF transports
<1>8. CASE ServerReads \/ ServerPush
  <2>1. UNCHANGED <<g, client>> /\ (inq' = inq \/ \E pkt : Arrives("upstream", pkt))
    BY <1>8, ServerReadsDoes, PushDoes
  <2>2. inq'["endpoint"] = inq["endpoint"]
    BY <2>1, ArrivesKeep, SidesDiffer
  <2> QED
    BY <1>2, <2>1, <2>2
<1> QED
  BY <1>3, <1>4, <1>5, <1>6, <1>7, <1>8 DEF Next, Goroutine, ClientStep

-----------------------------------------------------------------------------
(* The invariant.                                                          *)

LEMMA InitInv == Init => IInv
<1> SUFFICES ASSUME Init
             PROVE  IInv
  OBVIOUS
<1>1. inq = [t \in Sides |-> <<>>] /\ outq = [t \in Sides |-> <<>>]
  BY DEF Init
<1>2. inq["endpoint"] = <<>> /\ outq["endpoint"] = <<>> /\ inq["upstream"] = <<>> /\ outq["upstream"] = <<>>
  BY <1>1, SidesDiffer
<1>3. QueuesOK
  <2>1. \A S : <<>> \in Seq(S)
    BY EmptySeq
  <2> QED
    BY <1>1, <2>1 DEF QueuesOK
<1>4. GoroutinesOK
  <2> DEFINE r == [pc |-> "payload", pkt |-> NoPacket, times |-> <<>>]
  <2>1. r \in Goroutines /\ EndpointAt(r) /\ UpstreamAt(r)
    BY EmptySeq DEF Goroutines, Pcs, EndpointAt, UpstreamAt
  <2>2. g = [t \in Sides |-> r]
    BY DEF Init
  <2> HIDE DEF r
  <2> QED
    BY <2>1, <2>2 DEF GoroutinesOK, Is
<1>5. /\ g["endpoint"].pc = "payload" /\ g["endpoint"].pkt.name = "none"
      /\ g["upstream"].pkt.name = "none"
  BY SidesDiffer DEF Init, NoPacket, Packet
<1>6. StopOK
  BY <1>5 DEF StopOK, Init
<1>7. SharedOK
  BY ProxyConstants, KeysDiffer DEF SharedOK, Init
<1>8. PeersOK
  BY ProxyConstants, KeysDiffer, EmptySeq DEF PeersOK, Init
<1>9. /\ client.state = "new" /\ loginKey = Shared /\ server.key = Shared
  BY DEF Init
<1>10. \A i \in 1..8 : ~Token(i)
  BY <1>2, <1>5, EmptyItems DEF Token, Place
<1>11. Alone("GetPlayerTokenReq", "GetPlayerTokenRsp")
  <2>1. Single("GetPlayerTokenReq", "GetPlayerTokenRsp")
    BY <1>2, EmptyItems DEF Single
  <2> QED
    BY <1>10, <2>1 DEF Alone, Token
<1>12. LoginOK
  <2> HIDE DEF Token
  <2> QED
    BY <1>9, <1>10, <1>11, KeysDiffer DEF LoginOK
<1>13. ChatOK
  BY <1>2, <1>5, EmptyItems DEF ChatOK
<1>14. Understood
  <2>1. DOMAIN <<>> = {}
    OBVIOUS
  <2> QED
    BY <1>2, <2>1, EmptyItems DEF Understood, ClientCan, ServerCan
<1> QED
  BY <1>3, <1>4, <1>6, <1>7, <1>8, <1>12, <1>13, <1>14 DEF IInv, TInv

LEMMA NextInv == IInv /\ [Next]_vars => IInv'
<1> SUFFICES ASSUME IInv, [Next]_vars
             PROVE  IInv'
  OBVIOUS
<1>1. TInv /\ LoginOK /\ ChatOK /\ Understood
  BY DEF IInv
<1>2. CASE UNCHANGED vars
  <2>1. UNCHANGED <<inq, outq, closed, ctxDone, g, wg, loginRand, loginKey, playerUid,
                    cachedPullRecentChat, cachedClientSetGameTime, client, server>>
    BY <1>2 DEF vars, transports, keys, caches
  <2>2. TInv'
    BY <1>1, <2>1 DEF TInv, QueuesOK, GoroutinesOK, StopOK, SharedOK, PeersOK, Is, EndpointAt,
                      UpstreamAt, From, To
  <2>3. LoginOK'
    <3>1. \A i, ask, answer : Place(i, ask, answer)' <=> Place(i, ask, answer)
      BY <2>1 DEF Place
    <3>2. \A ask, answer : Alone(ask, answer)' <=> Alone(ask, answer)
      BY <2>1, <3>1 DEF Alone, Single
    <3> QED
      BY <1>1, <2>1, <3>1, <3>2 DEF LoginOK, Token
  <2>4. ChatOK' /\ Understood'
    BY <1>1, <2>1 DEF ChatOK, Understood
  <2> QED
    BY <2>2, <2>3, <2>4 DEF IInv
<1>3. ASSUME NEW t \in Sides, Handle(t)
      PROVE  TInv' /\ LoginOK' /\ Understood'
  BY <1>1, <1>3, LoginHandled, HandleUnderstood, HandleTypes, HandleDoes
<1>4. ASSUME NEW t \in Sides, ReadPayload(t) \/ PayloadFails(t)
      PROVE  TInv' /\ LoginOK' /\ Understood'
  <2>1. TInv' /\ LoginOK'
    BY <1>1, <1>4, GoroutineTypes, LoginGoes
  <2>2. UNCHANGED <<outq, keys, client, server>>
    BY <1>1, <1>4, ReadDoes, FailsDoes
  <2> QED
    BY <1>1, <2>1, <2>2, SameUnderstood DEF keys
<1>5. ASSUME NEW t \in Sides, SendOn(t)
      PROVE  TInv' /\ LoginOK' /\ Understood'
  BY <1>1, <1>5, GoroutineTypes, LoginGoes, SendOnUnderstood
<1>6. ASSUME NEW t \in Sides, CloseTransport(t)
      PROVE  TInv' /\ LoginOK' /\ Understood'
  <2>1. TInv' /\ LoginOK'
    BY <1>1, <1>6, CloseTypes, LoginGoes
  <2> QED
    BY <1>1, <1>6, <2>1, SameUnderstood DEF CloseTransport, keys
<1>7. ASSUME ClientReads
      PROVE  TInv' /\ LoginOK' /\ Understood'
  <2>1. TInv'
    BY <1>1, <1>7, PeerTypes DEF ClientStep
  <2>2. /\ Understood'
        /\ Head(outq["endpoint"]).name = "GetPlayerTokenRsp" =>
             Opens(client.key, Head(outq["endpoint"]))
    BY <1>1, <1>7, ClientUnderstood
  <2>3. ClientStep
    BY <1>7 DEF ClientStep
  <2>4. LoginOK'
    BY <1>1, <2>2, <2>3, LoginClient
  <2> QED
    BY <2>1, <2>2, <2>4
<1>8. ASSUME ClientStep, ~ClientReads
      PROVE  TInv' /\ LoginOK' /\ Understood'
  <2>1. TInv' /\ LoginOK'
    BY <1>1, <1>8, PeerTypes, LoginClient
  <2>2. PICK pkt : /\ ClientSays(pkt)
                   /\ \/ client.state = "new" /\ client'.state = "waiting"
                      \/ client'.state = client.state
    BY <1>1, <1>8, SaysDoes DEF ClientStep
  <2>3. /\ outq' = outq /\ loginKey' = loginKey /\ server'.key = server.key
        /\ client'.state = "in" <=> client.state = "in"
    BY <2>2 DEF ClientSays, ClientOnly, keys
  <2> QED
    BY <1>1, <2>1, <2>3, SameUnderstood
<1>9. ASSUME ServerReads
      PROVE  TInv' /\ LoginOK' /\ Understood'
  <2>1. TInv'
    BY <1>1, <1>9, PeerTypes
  <2>2. LoginOK'
    BY <1>1, <1>9, LoginServer
  <2>3. Understood'
    BY <1>1, <1>9, ServerUnderstood
  <2> QED
    BY <2>1, <2>2, <2>3
<1>10. ASSUME ServerPush
      PROVE  TInv' /\ LoginOK' /\ Understood'
  <2>1. TInv' /\ LoginOK'
    BY <1>1, <1>10, PeerTypes, LoginServer
  <2>2. /\ outq' = outq /\ loginKey' = loginKey /\ server'.key = server.key
        /\ client'.state = "in" <=> client.state = "in"
    BY <1>1, <1>10, PushDoes DEF keys
  <2> QED
    BY <1>1, <2>1, <2>2, SameUnderstood
<1>11. CASE Next
  <2>1. TInv' /\ LoginOK' /\ Understood'
    <3>1. CASE \E t \in Sides : Goroutine(t) \/ CloseTransport(t)
      BY <1>3, <1>4, <1>5, <1>6, <3>1 DEF Goroutine
    <3>2. CASE ClientStep
      BY <1>7, <1>8, <3>2
    <3>3. CASE ServerReads \/ ServerPush
      BY <1>9, <1>10, <3>3
    <3> QED
      BY <1>11, <3>1, <3>2, <3>3 DEF Next
  <2>2. ChatOK'
    BY <1>1, <1>11, ChatKeeps
  <2> QED
    BY <2>1, <2>2 DEF IInv
<1> QED
  BY <1>2, <1>11

LEMMA InvHolds == Spec => []IInv
<1> QED
  BY InitInv, NextInv, PTL DEF Spec

\* Every packet is of a known kind, under one of two keys, in one of the two
\* protocols, wherever it is; the shared values keep their ranges.
THEOREM TypesHold == Spec => []TypeOK
<1>1. IInv => TypeOK
  <2> SUFFICES ASSUME TInv
               PROVE  TypeOK
    BY DEF IInv
  <2>1. \A names : \A pkt \in Packets(names) : PacketOK(pkt)
    BY PacketFields DEF PacketOK, Keys, SessionKey
  <2>2. PacketOK(NoPacket)
    BY EmptySeq, SidesDiffer DEF PacketOK, NoPacket, Packet, Shared
  <2>3. \A pkt \in Requests \cup Answers \cup ToClient : PacketOK(pkt)
    BY <2>1 DEF Requests, Answers, ToClient
  <2>4. ASSUME NEW t \in Sides
        PROVE  /\ \A i \in DOMAIN inq[t] : PacketOK(inq[t][i])
               /\ \A i \in DOMAIN outq[t] : PacketOK(outq[t][i])
               /\ PacketOK(g[t].pkt) /\ g[t].times \in Seq(Nat)
    <3>1. inq[t] \in Seq(Requests \cup Answers) /\ outq[t] \in Seq(Requests \cup ToClient)
      BY Queues DEF From, To
    <3>2. g[t].pkt \in Requests \cup Answers \cup {NoPacket} /\ g[t].times \in Seq(Nat)
      BY Where DEF Goroutines
    <3> QED
      BY <2>2, <2>3, <3>1, <3>2
  <2>5. /\ closed \subseteq Leaves /\ ctxDone \subseteq closed /\ wg \in Int
        /\ loginRand \in {0, Rand} /\ loginKey \in {Shared, Key(Rand, Seed)}
        /\ playerUid \in {0, Uid} /\ cachedPullRecentChat \in {-1, 0}
        /\ cachedClientSetGameTime \in 0..MaxSends
    BY DEF TInv, StopOK, SharedOK, Keys, SessionKey
  <2> QED
    BY <2>4, <2>5 DEF TypeOK
<1> QED
  BY <1>1, InvHolds, PTL

\* The wait group's counter does not go below zero: the goroutine of the
\* server's side never calls Done.
THEOREM NoNegativeCounterHolds == Spec => []NoNegativeCounter
<1>1. IInv => NoNegativeCounter
  BY DEF IInv, TInv, StopOK, NoNegativeCounter
<1> QED
  BY <1>1, InvHolds, PTL

\* What comes to the client is under the shared key up to GetPlayerTokenRsp,
\* and under the new one after it, for any number of packets.
THEOREM ClientUnderstandsHolds == Spec => []ClientUnderstands
<1>1. IInv => ClientUnderstands
  BY CanIs DEF IInv, Understood
<1> QED
  BY <1>1, InvHolds, PTL

\* What comes to the server is under its key or the shared one, and nothing
\* under the shared one after something under its own.
THEOREM ServerUnderstandsHolds == Spec => []ServerUnderstands
<1>1. IInv => ServerUnderstands
  BY CanIs DEF IInv, Understood
<1> QED
  BY <1>1, InvHolds, PTL

-----------------------------------------------------------------------------
(* A pull of the recent chat by a client that waits for its answers.        *)

\* What the client asks for.
LEMMA SaysWhat ==
  ASSUME TInv,
         ClientLogin \/ ClientPing \/ ClientTime \/ ClientChange \/ ClientPull \/ ClientChat \/ ClientAsks
  PROVE  \E pkt :
           /\ ClientSays(pkt)
           /\ IF pkt.name = "PullRecentChatReq"
              THEN /\ Patient => client.pull = -1
                   /\ client'.pull \in {0, 1} /\ pkt.info = <<client'.pull>>
              ELSE client'.pull = client.pull
           /\ IF pkt.name = "ClientSetGameTimeReq"
              THEN /\ Patient => client.time = 0
                   /\ client'.time \in 1..MaxSends /\ pkt.info = <<client'.time>>
              ELSE client'.time = client.time
<1> DEFINE Said(pkt) ==
      /\ IF pkt.name = "PullRecentChatReq"
         THEN /\ Patient => client.pull = -1
              /\ client'.pull \in {0, 1} /\ pkt.info = <<client'.pull>>
         ELSE client'.pull = client.pull
      /\ IF pkt.name = "ClientSetGameTimeReq"
         THEN /\ Patient => client.time = 0
              /\ client'.time \in 1..MaxSends /\ pkt.info = <<client'.time>>
         ELSE client'.time = client.time
<1>1. CASE ClientLogin
  <2>1. PICK pkt : /\ ClientSays(pkt) /\ pkt.name = "GetPlayerTokenReq"
                   /\ client'.time = client.time /\ client'.pull = client.pull
    BY <1>1, LoginDoes
  <2>2. Said(pkt)
    BY <2>1
  <2> QED
    BY <2>1, <2>2
<1>2. CASE ClientPing
  <2>1. PICK pkt : /\ ClientSays(pkt) /\ pkt.name = "PingReq"
                   /\ client'.time = client.time /\ client'.pull = client.pull
    BY <1>2, PingDoes
  <2>2. Said(pkt)
    BY <2>1
  <2> QED
    BY <2>1, <2>2
<1>3. CASE ClientTime
  <2>1. PICK pkt : /\ ClientSays(pkt) /\ pkt.name = "ClientSetGameTimeReq"
                   /\ pkt.info = <<client'.time>>
    BY <1>3, TimeDoes
  <2>2. Said(pkt)
    BY <1>3, <2>1, TimeDoes
  <2> QED
    BY <2>1, <2>2
<1>4. CASE ClientPull
  <2>1. PICK pkt : /\ ClientSays(pkt) /\ pkt.name = "PullRecentChatReq"
                   /\ pkt.info = <<client'.pull>>
    BY <1>4, PullDoes
  <2>2. Said(pkt)
    BY <1>4, <2>1, PullDoes
  <2> QED
    BY <2>1, <2>2
<1>5. CASE ClientChange \/ ClientChat \/ ClientAsks
  <2>1. PICK pkt : /\ ClientSays(pkt)
                   /\ pkt.name \in {"ChangeGameTimeReq", "PrivateChatReq", "MarkMapReq",
                                    "PullPrivateChatReq", "GetPlayerFriendListReq"}
    BY <1>5, OtherAskDoes
  <2>2. Said(pkt)
    BY <1>5, <2>1, OtherAskDoes
  <2> QED
    BY <2>1, <2>2
<1> QED
  BY <1>1, <1>2, <1>3, <1>4, <1>5

Pull(i) == Place(i, "PullRecentChatReq", "PullRecentChatRsp")

\* The pull carries its BeginSequence to the server and back, and from the
\* handler on what the client is to be told.
Begin(pkt, name, pull) == pkt.name = name => pkt.info = <<pull>>
Told(pkt, pull) ==
  pkt.name = "PullRecentChatRsp" =>
    pkt.info = IF pull = 0 THEN <<0, ConsoleUid>> ELSE <<1>>

Bodies ==
  /\ \A pkt \in Items(inq["endpoint"]) : Begin(pkt, "PullRecentChatReq", client.pull)
  /\ Begin(g["endpoint"].pkt, "PullRecentChatReq", client.pull)
  /\ \A pkt \in Items(outq["upstream"]) : Begin(pkt, "PullRecentChatReq", client.pull)
  /\ \A pkt \in Items(inq["upstream"]) : Begin(pkt, "PullRecentChatRsp", client.pull)
  /\ IF g["upstream"].pc = "handle"
     THEN Begin(g["upstream"].pkt, "PullRecentChatRsp", client.pull) ELSE Told(g["upstream"].pkt, client.pull)
  /\ \A pkt \in Items(outq["endpoint"]) : Told(pkt, client.pull)

\* The request is cached between the two handlers.
PullOK ==
  /\ Alone("PullRecentChatReq", "PullRecentChatRsp")
  /\ client.pull = -1 => cachedPullRecentChat = -1 /\ \A i \in 1..8 : ~Pull(i)
  /\ \A i \in 1..8 : Pull(i) =>
       (cachedPullRecentChat = 0 <=> i \in 3..6 /\ client.pull = 0)
  /\ Bodies

LEMMA PullIsPair == Pair("PullRecentChatReq", "PullRecentChatRsp")
  BY DEF Pair

LEMMA PullKeeps ==
  ASSUME TInv, PullOK, NEW k \in 0..8,
         Single("PullRecentChatReq", "PullRecentChatRsp")',
         Shift(k, "PullRecentChatReq", "PullRecentChatRsp"),
         k \in {2, 6} => ~Pull(k),
         cachedPullRecentChat' = cachedPullRecentChat, client'.pull = client.pull, Bodies'
  PROVE  PullOK'
<1>1. Alone("PullRecentChatReq", "PullRecentChatRsp")'
  BY ShiftAlone DEF PullOK
<1>2. \A i \in 1..8 : Pull(i)' => Pull(i) \/ (i = k + 1 /\ k \in 1..7 /\ Pull(k))
  BY DEF Shift, Pull
<1> HIDE DEF Pull
<1>3. ASSUME NEW i \in 1..8, Pull(i)'
      PROVE  /\ \E j \in 1..8 : Pull(j)
             /\ cachedPullRecentChat = 0 <=> i \in 3..6 /\ client.pull = 0
  <2>1. CASE Pull(i)
    BY <2>1 DEF PullOK
  <2>2. CASE i = k + 1 /\ k \in 1..7 /\ Pull(k)
    <3>1. k \in {1, 3, 4, 5, 7} /\ k \in 1..8
      BY <2>2
    <3>2. cachedPullRecentChat = 0 <=> k \in 3..6 /\ client.pull = 0
      BY <2>2, <3>1 DEF PullOK
    <3> QED
      BY <2>2, <3>1, <3>2
  <2> QED
    BY <1>2, <1>3, <2>1, <2>2
<1>4. client.pull = -1 => cachedPullRecentChat = -1 /\ \A i \in 1..8 : ~Pull(i)
  BY DEF PullOK
<1>5. client'.pull = -1 => cachedPullRecentChat' = -1 /\ \A i \in 1..8 : ~Pull(i)'
  BY <1>3, <1>4
<1>6. \A i \in 1..8 : Pull(i)' =>
        (cachedPullRecentChat' = 0 <=> i \in 3..6 /\ client'.pull = 0)
  BY <1>3
<1> QED
  BY <1>1, <1>5, <1>6 DEF PullOK

LEMMA HandlePulls ==
  ASSUME TInv, NEW t \in Sides, Handle(t)
  PROVE  \/ OnPullRecentChatReq(t) \/ OnPullRecentChatRsp(t)
         \/ /\ UNCHANGED cachedPullRecentChat
            /\ g[t].pkt.name \notin {"PullRecentChatReq", "PullRecentChatRsp"}
<1>1. CASE \/ HandlePlain(t) \/ OnPullPrivateChatReq(t) \/ OnGetPlayerFriendListRsp(t)
           \/ OnMarkMapReq(t) \/ OnPrivateChatReq(t) \/ SendConsoleAnswer(t)
           \/ SendPrivateChatRsp(t)
  BY <1>1, PlainDoes, ChatDoes DEF caches
<1>2. CASE \/ OnClientSetGameTimeReq(t) \/ OnChangeGameTimeRsp(t) \/ ReadTime(t) \/ ClearTime(t)
           \/ OnGetPlayerTokenReq(t) \/ OnGetPlayerTokenRsp(t) \/ SendChangeGameTimeReq(t)
           \/ SendClientSetGameTimeRsp(t)
  BY <1>2, SetTimeDoes, ChangeRspDoes, ReadTimeDoes, ClearTimeDoes, TokenReqDoes, TokenRspDoes,
     SendChangeDoes, AnswerDoes DEF caches
<1> QED
  BY <1>1, <1>2 DEF Handle

\* A packet of another name says nothing of a pull.
LEMMA OtherBody ==
  ASSUME NEW pkt, NEW pull, pkt.name \notin {"PullRecentChatReq", "PullRecentChatRsp"}
  PROVE  /\ Begin(pkt, "PullRecentChatReq", pull) /\ Begin(pkt, "PullRecentChatRsp", pull)
         /\ Told(pkt, pull)
  BY DEF Begin, Told

LEMMA HandledItems ==
  ASSUME TInv, NEW t \in Sides, Handled(t), NEW s \in Sides
  PROVE  \A pkt \in Items(outq'[s]) : pkt \in Items(outq[s]) \/ pkt.name \in Extras
<1>1. CASE outq' = outq
  BY <1>1
<1>2. ASSUME NEW to \in Sides, NEW pkt \in ToClient \cup Requests, Sends(to, pkt),
             pkt.name \in Extras
      PROVE  \A p \in Items(outq'[s]) : p \in Items(outq[s]) \/ p.name \in Extras
  <2>1. CASE outq'[s] = outq[s]
    BY <2>1
  <2>2. CASE s = to /\ outq'[s] = Append(outq[s], pkt)
    <3>1. outq[s] \in Seq(To(s)) /\ pkt \in To(s)
      BY <1>2, <2>2, Queues DEF Sends
    <3>2. Items(outq'[s]) = Items(outq[s]) \cup {pkt}
      BY <2>2, <3>1, AppendItems
    <3> QED
      BY <1>2, <3>2
  <2> QED
    BY <1>2, <2>1, <2>2, SendsKeep
<1> QED
  BY <1>1, <1>2 DEF Handled

LEMMA PullHandled ==
  ASSUME TInv, PullOK, NEW t \in Sides, Handle(t)
  PROVE  PullOK'
<1> DEFINE ask == "PullRecentChatReq"
           answer == "PullRecentChatRsp"
<1>1. Pair(ask, answer) /\ Single(ask, answer) /\ Handled(t) /\ Bodies
  BY PullIsPair, HandleDoes DEF PullOK, Alone
<1>2. Single(ask, answer)' /\ Shift(Steps(t), ask, answer)
  BY <1>1, HandledShifts
<1>3. Alone(ask, answer)'
  BY <1>2, ShiftAlone DEF PullOK, Steps
<1>4. /\ client' = client /\ inq' = inq /\ Moves(t)
      /\ \A s \in Sides : \A pkt \in Items(outq'[s]) :
           pkt \in Items(outq[s]) \/ pkt.name \notin {ask, answer}
  BY <1>1, HandledItems DEF Handled, Aside, transports, Extras
<1>5. /\ \A pkt \in Items(inq'["endpoint"]) : Begin(pkt, ask, client.pull)
      /\ \A pkt \in Items(outq'["upstream"]) : Begin(pkt, ask, client.pull)
      /\ \A pkt \in Items(inq'["upstream"]) : Begin(pkt, answer, client.pull)
      /\ \A pkt \in Items(outq'["endpoint"]) : Told(pkt, client.pull)
  BY <1>1, <1>4, SidesDiffer DEF Bodies, Begin, Told
<1>6. "none" \notin {ask, answer}
  OBVIOUS
<1>7. CASE OnPullRecentChatReq(t)
  <2>1. /\ t = "endpoint" /\ Pull(2) /\ ~Pull(2)' /\ g'[t].pkt.info = g[t].pkt.info
        /\ g[t].pkt.info \in {<<0>>, <<1>>} /\ g[t].pkt.name = ask /\ g'[t].pkt.name = ask
        /\ cachedPullRecentChat' = IF g[t].pkt.info = <<0>> THEN 0 ELSE cachedPullRecentChat
    BY <1>7, PullReqDoes DEF Pull, Place
  <2>2. g'["upstream"] = g["upstream"]
    BY <1>4, <2>1, SidesDiffer DEF Moves
  <2>3. Bodies'
    <3>1. Begin(g'["endpoint"].pkt, ask, client.pull)
      BY <1>1, <1>4, <2>1 DEF Bodies, Begin
    <3>2. IF g'["upstream"].pc = "handle"
          THEN Begin(g'["upstream"].pkt, answer, client.pull) ELSE Told(g'["upstream"].pkt, client.pull)
      BY <1>1, <1>4, <2>2 DEF Bodies, Begin, Told
    <3> QED
      BY <1>4, <1>5, <3>1, <3>2 DEF Bodies
  <2>4. \A i \in 1..8 : Pull(i) => i = 2
    BY <2>1 DEF PullOK, Alone, Pull
  <2>5. \A i \in 1..8 : Pull(i)' => i = 3
    BY <1>2, <2>1, <2>4 DEF Shift, Steps, Pull
  <2>6. g[t].pkt.info = <<client.pull>>
    BY <1>1, <2>1 DEF Bodies, Begin
  <2>7. client.pull \in {0, 1} /\ (g[t].pkt.info = <<0>> <=> client.pull = 0)
    BY <2>1, <2>6
  <2> HIDE DEF Pull
  <2>8. cachedPullRecentChat # 0
    BY <2>1 DEF PullOK
  <2> QED
    BY <1>3, <1>4, <2>1, <2>3, <2>5, <2>7, <2>8 DEF PullOK
<1>8. CASE OnPullRecentChatRsp(t)
  <2>1. /\ t = "upstream" /\ Pull(6) /\ Pull(7)' /\ cachedPullRecentChat' = -1
        /\ g[t].pkt.name = answer /\ g'[t].pkt.name = answer /\ g'[t].pc = "send"
        /\ g[t].pc = "handle"
        /\ g'[t].pkt.info = IF cachedPullRecentChat = 0
                            THEN Append(g[t].pkt.info, ConsoleUid) ELSE g[t].pkt.info
    BY <1>8, PullRspDoes DEF Pull, Place
  <2>2. g'["endpoint"] = g["endpoint"]
    BY <1>4, <2>1, SidesDiffer DEF Moves
  <2>3. g[t].pkt.info = <<client.pull>>
    BY <1>1, <2>1 DEF Bodies, Begin
  <2>4. \A i \in 1..8 : Pull(i)' => i = 7
    BY <1>3, <2>1 DEF Alone, Pull
  <2> HIDE DEF Pull
  <2>5. cachedPullRecentChat = 0 <=> client.pull = 0
    BY <2>1 DEF PullOK
  <2>6. client.pull \in {0, 1}
    <3>1. client.pull \in {-1, 0, 1}
      BY ClientAt DEF ClientFields
    <3>2. client.pull # -1
      BY <2>1 DEF PullOK
    <3> QED
      BY <3>1, <3>2
  <2>7. g'[t].pkt.info = IF client.pull = 0 THEN <<0, ConsoleUid>> ELSE <<1>>
    <3>1. Append(<<0>>, ConsoleUid) = <<0, ConsoleUid>>
      BY AppendPair DEF ConsoleUid
    <3>2. CASE client.pull = 0
      <4>1. g[t].pkt.info = <<0>> /\ cachedPullRecentChat = 0
        BY <2>3, <2>5, <3>2
      <4>2. g'[t].pkt.info = Append(<<0>>, ConsoleUid)
        BY <2>1, <4>1
      <4> QED
        BY <3>1, <3>2, <4>2
    <3>3. CASE client.pull = 1
      <4>1. g[t].pkt.info = <<1>> /\ cachedPullRecentChat # 0
        BY <2>3, <2>5, <3>3
      <4> QED
        BY <2>1, <3>3, <4>1
    <3> QED
      BY <2>6, <3>2, <3>3
  <2>8. Bodies'
    <3>1. Begin(g'["endpoint"].pkt, ask, client.pull)
      BY <1>1, <1>4, <2>2 DEF Bodies, Begin
    <3>2. Told(g'["upstream"].pkt, client.pull) /\ g'["upstream"].pc # "handle"
      BY <1>4, <2>1, <2>7 DEF Told
    <3> QED
      BY <1>4, <1>5, <3>1, <3>2 DEF Bodies
  <2> QED
    BY <1>3, <1>4, <2>1, <2>4, <2>6, <2>8 DEF PullOK
<1>9. CASE UNCHANGED cachedPullRecentChat /\ g[t].pkt.name \notin {ask, answer}
  <2>1. ~Pull(Steps(t))
    BY <1>9, SidesDiffer DEF Pull, Place, Steps
  <2>2. g'[t].pkt.name \notin {ask, answer} /\ \A s \in Sides \ {t} : g'[s] = g[s]
    BY <1>4, <1>6, <1>9 DEF Moves
  <2>3. Bodies'
    <3>1. Begin(g'["endpoint"].pkt, ask, client.pull)
      <4>1. CASE t = "endpoint"
        BY <2>2, <4>1 DEF Begin
      <4>2. CASE t # "endpoint"
        BY <1>1, <1>4, <2>2, <4>2, SidesDiffer DEF Bodies, Begin
      <4> QED
        BY <4>1, <4>2
    <3>2. IF g'["upstream"].pc = "handle"
          THEN Begin(g'["upstream"].pkt, answer, client.pull) ELSE Told(g'["upstream"].pkt, client.pull)
      <4>1. CASE t = "upstream"
        BY <2>2, <4>1 DEF Begin, Told
      <4>2. CASE t # "upstream"
        BY <1>1, <1>4, <2>2, <4>2, SidesDiffer DEF Bodies, Begin, Told
      <4> QED
        BY <4>1, <4>2
    <3> QED
      BY <1>4, <1>5, <3>1, <3>2 DEF Bodies
  <2>4. Steps(t) \in {2, 6}
    BY DEF Steps
  <2> QED
    BY <1>2, <1>4, <1>9, <2>1, <2>3, <2>4, PullKeeps
<1> QED
  BY <1>7, <1>8, <1>9, HandlePulls

LEMMA PullGoes ==
  ASSUME TInv, PullOK, NEW t \in Sides,
         ReadPayload(t) \/ SendOn(t) \/ PayloadFails(t) \/ CloseTransport(t)
  PROVE  PullOK'
<1> DEFINE ask == "PullRecentChatReq"
           answer == "PullRecentChatRsp"
<1>1. Pair(ask, answer) /\ Single(ask, answer) /\ Alone(ask, answer) /\ Bodies
  BY PullIsPair DEF PullOK, Alone
<1>2. UNCHANGED <<caches, client>>
  BY ReadDoes, SendOnDoes, FailsDoes DEF Aside, transports, CloseTransport
<1>3. cachedPullRecentChat' = cachedPullRecentChat /\ client'.pull = client.pull
  BY <1>2 DEF caches
<1>4. /\ Begin(NoPacket, ask, client.pull) /\ Begin(NoPacket, answer, client.pull)
      /\ Told(NoPacket, client.pull)
  <2>1. NoPacket.name \notin {ask, answer}
    BY DEF NoPacket, Packet
  <2> HIDE DEF ask, answer
  <2> QED
    BY <2>1, OtherBody DEF ask, answer
<1>5. CASE ReadPayload(t)
  <2>1. /\ inq[t] # <<>> /\ inq'[t] = Tail(inq[t]) /\ inq[t] \in Seq(From(t)) /\ outq' = outq
        /\ \A s \in Sides \ {t} : inq'[s] = inq[s] /\ g'[s] = g[s]
        /\ g' = g \/ (g'[t].pc = "handle" /\ g'[t].pkt = Head(inq[t]))
    BY <1>5, ReadDoes, Queues
  <2>2. Items(inq[t]) = {Head(inq[t])} \cup Items(inq'[t])
    BY <2>1, TailItems
  <2>3. Bodies'
    <3>1. CASE t = "endpoint"
      <4>1. inq'["upstream"] = inq["upstream"] /\ g'["upstream"] = g["upstream"]
        BY <2>1, <3>1, SidesDiffer
      <4>2. \A pkt \in Items(inq["endpoint"]) : Begin(pkt, ask, client.pull)
        BY <1>1 DEF Bodies
      <4>3. Begin(g'["endpoint"].pkt, ask, client.pull)
        BY <1>1, <2>1, <2>2, <3>1, <4>2 DEF Bodies
      <4>4. \A pkt \in Items(inq'["endpoint"]) : Begin(pkt, ask, client.pull)
        BY <2>2, <3>1, <4>2
      <4> QED
        BY <1>1, <1>2, <2>1, <4>1, <4>3, <4>4 DEF Bodies
    <3>2. CASE t = "upstream"
      <4>1. inq'["endpoint"] = inq["endpoint"] /\ g'["endpoint"] = g["endpoint"]
        BY <2>1, <3>2, SidesDiffer
      <4>2. \A pkt \in Items(inq["upstream"]) : Begin(pkt, answer, client.pull)
        BY <1>1 DEF Bodies
      <4>3. IF g'["upstream"].pc = "handle"
            THEN Begin(g'["upstream"].pkt, answer, client.pull)
            ELSE Told(g'["upstream"].pkt, client.pull)
        BY <1>1, <2>1, <2>2, <3>2, <4>2 DEF Bodies
      <4>4. \A pkt \in Items(inq'["upstream"]) : Begin(pkt, answer, client.pull)
        BY <2>2, <3>2, <4>2
      <4> QED
        BY <1>1, <1>2, <2>1, <4>1, <4>3, <4>4 DEF Bodies
    <3> QED
      BY <3>1, <3>2, SidesDiffer
  <2>4. Single(ask, answer)' /\ Shift(IF t = "endpoint" THEN 1 ELSE 5, ask, answer)
    BY <1>1, <1>5, ReadShifts
  <2>5. PICK k \in {1, 5} : Shift(k, ask, answer)
    BY <2>4
  <2> QED
    BY <1>3, <2>3, <2>4, <2>5, PullKeeps
<1>6. CASE SendOn(t)
  <2>1. PICK pkt : /\ Sends(Opposite(t), pkt) /\ pkt.name = g[t].pkt.name
                   /\ pkt.info = g[t].pkt.info
    BY <1>6, SendOnDoes
  <2>2. /\ g[t].pc = "send" /\ g'[t].pc = "payload" /\ g'[t].pkt = NoPacket
        /\ \A s \in Sides \ {t} : g'[s] = g[s]
        /\ inq' = inq /\ Opposite(t) \in Sides /\ outq[Opposite(t)] \in Seq(To(Opposite(t)))
        /\ pkt \in To(Opposite(t))
    BY <1>6, <2>1, SendOnDoes, SidesDiffer, Queues DEF Aside, transports, Sends
  <2>3. /\ outq'[t] = outq[t]
        /\ \A p \in Items(outq'[Opposite(t)]) : p \in Items(outq[Opposite(t)]) \/ p = pkt
    BY <2>1, <2>2, SendsKeep, AppendItems, SidesDiffer
  <2>4. Bodies'
    <3>1. CASE t = "endpoint"
      <4>1. g'["upstream"] = g["upstream"] /\ outq'["endpoint"] = outq["endpoint"]
        BY <2>2, <2>3, <3>1, SidesDiffer
      <4>2. Begin(pkt, ask, client.pull)
        BY <1>1, <2>1, <3>1 DEF Bodies, Begin
      <4>3. \A p \in Items(outq'["upstream"]) : Begin(p, ask, client.pull)
        <5>1. \A p \in Items(outq["upstream"]) : Begin(p, ask, client.pull)
          BY <1>1 DEF Bodies
        <5> QED
          BY <2>3, <3>1, <4>2, <5>1, SidesDiffer
      <4> QED
        BY <1>1, <1>2, <1>4, <2>2, <3>1, <4>1, <4>3 DEF Bodies
    <3>2. CASE t = "upstream"
      <4>1. g'["endpoint"] = g["endpoint"] /\ outq'["upstream"] = outq["upstream"]
        BY <2>2, <2>3, <3>2, SidesDiffer
      <4>2. Told(pkt, client.pull)
        BY <1>1, <2>1, <2>2, <3>2 DEF Bodies, Told
      <4>3. \A p \in Items(outq'["endpoint"]) : Told(p, client.pull)
        <5>1. \A p \in Items(outq["endpoint"]) : Told(p, client.pull)
          BY <1>1 DEF Bodies
        <5> QED
          BY <2>3, <3>2, <4>2, <5>1, SidesDiffer
      <4> QED
        BY <1>1, <1>2, <1>4, <2>2, <3>2, <4>1, <4>3 DEF Bodies
    <3> QED
      BY <3>1, <3>2, SidesDiffer
  <2>5. Single(ask, answer)' /\ Shift(IF t = "endpoint" THEN 3 ELSE 7, ask, answer)
    BY <1>1, <1>6, SendOnShifts
  <2>6. PICK k \in {3, 7} : Shift(k, ask, answer)
    BY <2>5
  <2> QED
    BY <1>3, <2>4, <2>5, <2>6, PullKeeps
<1>7. CASE PayloadFails(t) \/ CloseTransport(t)
  <2>1. UNCHANGED <<inq, outq>> /\ (g' = g \/ PayloadFails(t))
    BY <1>7, FailsDoes DEF CloseTransport, transports
  <2>2. Single(ask, answer)' /\ Shift(0, ask, answer)
    BY <1>1, <2>1, StillShifts
  <2>3. g'["upstream"] = g["upstream"] /\ g'["endpoint"].pkt = g["endpoint"].pkt
    BY <2>1, FailsDoes, SidesDiffer
  <2>4. Bodies'
    BY <1>1, <1>2, <2>1, <2>3 DEF Bodies
  <2> QED
    BY <1>3, <2>2, <2>4, PullKeeps
<1> QED
  BY <1>5, <1>6, <1>7

\* Where a client has only one pull under way, nothing else bears its name.
LEMMA NoPull ==
  ASSUME TInv, Bodies, \A i \in 1..8 : ~Pull(i), NEW pull, NEW t \in Sides
  PROVE  /\ \A pkt \in Items(inq[t]) : Begin(pkt, IF t = "endpoint" THEN "PullRecentChatReq"
                                                   ELSE "PullRecentChatRsp", pull)
         /\ \A pkt \in Items(outq["upstream"]) : Begin(pkt, "PullRecentChatReq", pull)
         /\ \A pkt \in Items(outq["endpoint"]) : Told(pkt, pull)
         /\ Begin(g["endpoint"].pkt, "PullRecentChatReq", pull)
         /\ Begin(g["upstream"].pkt, "PullRecentChatRsp", pull) /\ Told(g["upstream"].pkt, pull)
<1>1. ~Pull(1) /\ ~Pull(2) /\ ~Pull(3) /\ ~Pull(4) /\ ~Pull(5) /\ ~Pull(6) /\ ~Pull(7) /\ ~Pull(8)
  OBVIOUS
<1>2. /\ \A pkt \in Items(inq["endpoint"]) : pkt.name # "PullRecentChatReq"
      /\ \A pkt \in Items(outq["upstream"]) : pkt.name # "PullRecentChatReq"
      /\ \A pkt \in Items(inq["upstream"]) : pkt.name # "PullRecentChatRsp"
      /\ \A pkt \in Items(outq["endpoint"]) : pkt.name # "PullRecentChatRsp"
      /\ g["endpoint"].pkt.name # "PullRecentChatReq"
      /\ g["upstream"].pkt.name # "PullRecentChatRsp"
  BY <1>1 DEF Pull, Place, Has
<1> QED
  BY <1>2, SidesDiffer DEF Begin, Told

LEMMA PullClient ==
  ASSUME Patient, TInv, PullOK, ClientStep
  PROVE  PullOK'
<1> DEFINE ask == "PullRecentChatReq"
           answer == "PullRecentChatRsp"
<1>1. Pair(ask, answer) /\ Single(ask, answer) /\ Alone(ask, answer) /\ Bodies
  BY PullIsPair DEF PullOK, Alone
<1>2. CASE ClientReads
  <2> DEFINE pkt == Head(outq["endpoint"])
  <2>1. /\ Single(ask, answer)' /\ Shift(8, ask, answer)
        /\ Pull(8)' => pkt.name # answer
        /\ Pull(8) <=> pkt.name = answer \/ Pull(8)'
    BY <1>1, <1>2, ClientReadsShifts DEF Pull
  <2>2. UNCHANGED <<transports, g, caches>> /\ outq["endpoint"] # <<>>
        /\ outq' = [outq EXCEPT !["endpoint"] = Tail(@)]
    BY <1>2, ClientReadsDoes
  <2>3. /\ outq'["endpoint"] = Tail(outq["endpoint"]) /\ outq'["upstream"] = outq["upstream"]
        /\ outq["endpoint"] \in Seq(To("endpoint")) /\ inq' = inq /\ g' = g
        /\ cachedPullRecentChat' = cachedPullRecentChat
    BY <2>2, TakesDoes, Queues, SidesDiffer DEF transports, caches
  <2>4. Items(outq["endpoint"]) = {pkt} \cup Items(outq'["endpoint"])
    BY <2>2, <2>3, TailItems
  <2>5. \A i \in 1..8 : Pull(i)' => Pull(i)
    BY <2>1 DEF Shift, Pull
  <2>6. CASE client'.pull = client.pull
    <3>1. Bodies'
      <4>1. \A p \in Items(outq'["endpoint"]) : Told(p, client.pull)
        BY <1>1, <2>4 DEF Bodies
      <4> QED
        BY <1>1, <2>3, <2>6, <4>1 DEF Bodies
    <3> QED
      BY <2>1, <2>3, <2>6, <3>1, PullKeeps
  <2>7. CASE client'.pull = -1 /\ pkt.name = answer
    <3>1. Pull(8) /\ ~Pull(8)'
      BY <2>1, <2>7
    <3>2. \A i \in 1..8 : Pull(i) => i = 8
      BY <1>1, <3>1 DEF Alone, Pull
    <3>3. \A i \in 1..8 : ~Pull(i)'
      BY <2>5, <3>1, <3>2
    <3>4. Alone(ask, answer)'
      BY <1>1, <2>1, ShiftAlone
    <3>5. cachedPullRecentChat = -1
      <4> HIDE DEF Pull
      <4>1. cachedPullRecentChat # 0
        BY <3>1 DEF PullOK
      <4> QED
        BY <4>1 DEF TInv, SharedOK
    <3>6. Bodies'
      <4>1. /\ \A i \in 1..7 : ~Pull(i)
            /\ ~Has(outq'["endpoint"], answer)
        BY <3>1, <3>2 DEF Pull, Place
      <4>2. ~Pull(1) /\ ~Pull(2) /\ ~Pull(3) /\ ~Pull(4) /\ ~Pull(5) /\ ~Pull(6) /\ ~Pull(7)
        BY <4>1
      <4>3. /\ \A p \in Items(inq["endpoint"]) : p.name # ask
            /\ \A p \in Items(outq["upstream"]) : p.name # ask
            /\ \A p \in Items(inq["upstream"]) : p.name # answer
            /\ \A p \in Items(outq'["endpoint"]) : p.name # answer
            /\ g["endpoint"].pkt.name # ask /\ g["upstream"].pkt.name # answer
        BY <4>1, <4>2 DEF Pull, Place, Has
      <4> QED
        BY <2>3, <4>3 DEF Bodies, Begin, Told
    <3> HIDE DEF Pull
    <3> QED
      BY <2>3, <2>7, <3>3, <3>4, <3>5, <3>6 DEF PullOK
  <2> QED
    BY <1>2, <2>6, <2>7, ClientReadsDoes
<1>3. CASE ~ClientReads
  <2>1. PICK pkt : /\ ClientSays(pkt)
                   /\ IF pkt.name = ask
                      THEN client.pull = -1 /\ client'.pull \in {0, 1} /\ pkt.info = <<client'.pull>>
                      ELSE client'.pull = client.pull
    BY <1>3, SaysWhat DEF ClientStep
  <2>2. /\ inq'["endpoint"] = Append(inq["endpoint"], pkt) /\ inq'["upstream"] = inq["upstream"]
        /\ outq' = outq /\ g' = g /\ cachedPullRecentChat' = cachedPullRecentChat
        /\ inq["endpoint"] \in Seq(From("endpoint")) /\ pkt \in From("endpoint")
    BY <2>1, ArrivesKeep, Queues, SidesDiffer DEF ClientSays, ClientOnly, Arrives, caches
  <2>3. Items(inq'["endpoint"]) = Items(inq["endpoint"]) \cup {pkt}
    BY <2>2, AppendItems
  <2>4. CASE pkt.name # ask
    <3>1. Single(ask, answer)' /\ Shift(0, ask, answer)
      BY <1>1, <2>1, <2>4, SaysShifts
    <3>2. Bodies'
      <4>1. \A p \in Items(inq'["endpoint"]) : Begin(p, ask, client.pull)
        BY <1>1, <2>3, <2>4 DEF Bodies, Begin
      <4> QED
        BY <1>1, <2>1, <2>2, <2>4, <4>1 DEF Bodies
    <3> QED
      BY <2>1, <2>2, <2>4, <3>1, <3>2, PullKeeps
  <2>5. CASE pkt.name = ask
    <3>1. /\ cachedPullRecentChat = -1 /\ \A i \in 1..8 : ~Pull(i)
          /\ client'.pull \in {0, 1} /\ pkt.info = <<client'.pull>>
      BY <2>1, <2>5 DEF PullOK
    <3>2. /\ Single(ask, answer)'
          /\ \A i \in 1..8 : Pull(i)' => Pull(i) \/ i = 1
      BY <1>1, <2>1, <3>1, SaysShifts DEF Pull
    <3>3. \A i \in 1..8 : Pull(i)' => i = 1
      BY <3>1, <3>2
    <3>4. Alone(ask, answer)'
      BY <3>2, <3>3 DEF Alone, Pull
    <3>5. Bodies'
      <4> DEFINE pull == client'.pull
      <4>1. /\ \A p \in Items(inq["endpoint"]) : Begin(p, ask, pull)
            /\ \A p \in Items(inq["upstream"]) : Begin(p, answer, pull)
            /\ \A p \in Items(outq["upstream"]) : Begin(p, ask, pull)
            /\ \A p \in Items(outq["endpoint"]) : Told(p, pull)
            /\ Begin(g["endpoint"].pkt, ask, pull) /\ Begin(g["upstream"].pkt, answer, pull)
            /\ Told(g["upstream"].pkt, pull)
        BY <1>1, <3>1, NoPull, SidesDiffer
      <4>2. Begin(pkt, ask, pull)
        BY <3>1 DEF Begin
      <4>3. \A p \in Items(inq'["endpoint"]) : Begin(p, ask, pull)
        BY <2>3, <4>1, <4>2
      <4> QED
        BY <2>2, <4>1, <4>3 DEF Bodies
    <3> HIDE DEF Pull
    <3> QED
      BY <2>2, <3>1, <3>3, <3>4, <3>5 DEF PullOK
  <2> QED
    BY <2>4, <2>5
<1> QED
  BY <1>2, <1>3

\* Place 4.
LEMMA PullServer ==
  ASSUME TInv, PullOK, ServerReads \/ ServerPush
  PROVE  PullOK'
<1> DEFINE ask == "PullRecentChatReq"
           answer == "PullRecentChatRsp"
<1>1. Pair(ask, answer) /\ Single(ask, answer) /\ Alone(ask, answer) /\ Bodies
  BY PullIsPair DEF PullOK, Alone
<1>2. UNCHANGED <<g, caches, client>>
  BY ServerReadsDoes, PushDoes
<1>3. cachedPullRecentChat' = cachedPullRecentChat /\ client'.pull = client.pull /\ g' = g
  BY <1>2 DEF caches
<1>4. CASE ServerPush
  <2>1. Single(ask, answer)' /\ Shift(0, ask, answer)
    BY <1>1, <1>4, PushShifts
  <2>2. PICK pkt : Arrives("upstream", pkt) /\ pkt.name = "Notify"
    BY <1>4, PushDoes
  <2>3. /\ inq'["upstream"] = Append(inq["upstream"], pkt) /\ inq'["endpoint"] = inq["endpoint"]
        /\ outq' = outq /\ inq["upstream"] \in Seq(From("upstream")) /\ pkt \in From("upstream")
    BY <1>4, <2>2, ArrivesKeep, Queues, SidesDiffer, PushDoes DEF Arrives
  <2>4. Items(inq'["upstream"]) = Items(inq["upstream"]) \cup {pkt}
    BY <2>3, AppendItems
  <2>5. \A p \in Items(inq'["upstream"]) : Begin(p, answer, client.pull)
    BY <1>1, <2>2, <2>4 DEF Bodies, Begin
  <2>6. Bodies'
    BY <1>1, <1>2, <1>3, <2>3, <2>5 DEF Bodies
  <2> QED
    BY <1>3, <2>1, <2>6, PullKeeps
<1>5. CASE ServerReads
  <2> DEFINE pkt == Head(outq["upstream"])
  <2>1. Single(ask, answer)' /\ Shift(4, ask, answer)
    BY <1>1, <1>5, ServerReadsShifts
  <2>2. /\ outq["upstream"] # <<>> /\ outq' = [outq EXCEPT !["upstream"] = Tail(@)]
        /\ \/ inq' = inq
           \/ \E rsp : /\ Arrives("upstream", rsp)
                       /\ rsp.name = answer => pkt.name = ask /\ rsp.info = pkt.info
    BY <1>5, ServerReadsDoes
  <2>3. /\ outq'["upstream"] = Tail(outq["upstream"]) /\ outq'["endpoint"] = outq["endpoint"]
        /\ outq["upstream"] \in Seq(To("upstream")) /\ inq["upstream"] \in Seq(From("upstream"))
    BY <2>2, TakesDoes, Queues, SidesDiffer
  <2>4. Items(outq["upstream"]) = {pkt} \cup Items(outq'["upstream"])
    BY <2>2, <2>3, TailItems
  <2>5. /\ \A p \in Items(outq'["upstream"]) : Begin(p, ask, client.pull)
        /\ Begin(pkt, ask, client.pull)
    BY <1>1, <2>4 DEF Bodies
  <2> HIDE DEF pkt
  <2>6. /\ inq'["endpoint"] = inq["endpoint"]
        /\ \A p \in Items(inq'["upstream"]) : Begin(p, answer, client.pull)
    <3>1. CASE inq' = inq
      BY <1>1, <3>1 DEF Bodies
    <3>2. CASE \E rsp : /\ Arrives("upstream", rsp)
                        /\ rsp.name = answer => pkt.name = ask /\ rsp.info = pkt.info
      <4>1. PICK rsp : /\ Arrives("upstream", rsp)
                       /\ rsp.name = answer => pkt.name = ask /\ rsp.info = pkt.info
        BY <3>2
      <4>2. /\ inq'["upstream"] = Append(inq["upstream"], rsp)
            /\ inq'["endpoint"] = inq["endpoint"] /\ rsp \in From("upstream")
        BY <4>1, ArrivesKeep, SidesDiffer DEF Arrives
      <4>3. Items(inq'["upstream"]) = Items(inq["upstream"]) \cup {rsp}
        BY <2>3, <4>2, AppendItems
      <4>4. Begin(rsp, answer, client.pull)
        BY <2>5, <4>1 DEF Begin
      <4> QED
        BY <1>1, <4>2, <4>3, <4>4 DEF Bodies
    <3> QED
      BY <2>2, <3>1, <3>2
  <2>7. Bodies'
    BY <1>1, <1>2, <1>3, <2>3, <2>5, <2>6 DEF Bodies
  <2> QED
    BY <1>3, <2>1, <2>7, PullKeeps
<1> QED
  BY <1>4, <1>5

LEMMA PullInit == Init => PullOK
<1> SUFFICES ASSUME Init
             PROVE  PullOK
  OBVIOUS
<1>1. inq = [t \in Sides |-> <<>>] /\ outq = [t \in Sides |-> <<>>]
  BY DEF Init
<1>2. /\ inq["endpoint"] = <<>> /\ outq["endpoint"] = <<>>
      /\ inq["upstream"] = <<>> /\ outq["upstream"] = <<>>
  BY <1>1, SidesDiffer
<1>3. /\ g["endpoint"].pkt.name = "none" /\ g["upstream"].pkt.name = "none"
      /\ cachedPullRecentChat = -1 /\ client.pull = -1
  BY SidesDiffer DEF Init, NoPacket, Packet
<1>4. \A i \in 1..8 : ~Pull(i)
  BY <1>2, <1>3, EmptyItems DEF Pull, Place
<1>5. Alone("PullRecentChatReq", "PullRecentChatRsp")
  <2>1. Single("PullRecentChatReq", "PullRecentChatRsp")
    BY <1>2, EmptyItems DEF Single
  <2> QED
    BY <1>4, <2>1 DEF Alone, Pull
<1>6. Items(<<>>) = {}
  BY DEF Items
<1>7. Bodies
  BY <1>2, <1>3, <1>6 DEF Bodies, Begin, Told
<1> HIDE DEF Pull
<1> QED
  BY <1>3, <1>4, <1>5, <1>7 DEF PullOK

LEMMA PullStep ==
  ASSUME Patient, TInv, PullOK, [Next]_vars
  PROVE  PullOK'
<1>1. CASE UNCHANGED vars
  <2>1. UNCHANGED <<inq, outq, g, cachedPullRecentChat, client>>
    BY <1>1 DEF vars, transports, caches
  <2>2. \A i, ask, answer : Place(i, ask, answer)' <=> Place(i, ask, answer)
    BY <2>1 DEF Place
  <2>3. \A ask, answer : Alone(ask, answer)' <=> Alone(ask, answer)
    BY <2>1, <2>2 DEF Alone, Single
  <2>4. Bodies'
    BY <2>1 DEF PullOK, Bodies
  <2> QED
    BY <2>1, <2>2, <2>3, <2>4 DEF PullOK, Pull
<1>2. CASE Next
  <2>1. CASE \E t \in Sides : Goroutine(t) \/ CloseTransport(t)
    BY <2>1, PullHandled, PullGoes DEF Goroutine
  <2>2. CASE ClientStep
    BY <2>2, PullClient
  <2>3. CASE ServerReads \/ ServerPush
    BY <2>3, PullServer
  <2> QED
    BY <1>2, <2>1, <2>2, <2>3 DEF Next
<1> QED
  BY <1>1, <1>2

\* To a client that waits for its answers, the console's welcome comes with
\* the recent chat pulled from the start, and only with that: what the one
\* goroutine caches is emptied by the other with the same pull.
THEOREM WelcomedOnceHolds ==
  ASSUME Patient
  PROVE  Spec => []WelcomedOnce
<1>1. Init => IInv /\ PullOK
  BY InitInv, PullInit
<1>2. (IInv /\ PullOK) /\ [Next]_vars => (IInv /\ PullOK)'
  BY NextInv, PullStep DEF IInv
<1>3. IInv /\ PullOK => WelcomedOnce
  <2> SUFFICES ASSUME PullOK, NEW i \in DOMAIN outq["endpoint"]
               PROVE  Told(outq["endpoint"][i], client.pull)
    BY DEF WelcomedOnce, Told
  <2> QED
    BY DEF PullOK, Bodies, Items
<1> QED
  BY <1>1, <1>2, <1>3, PTL DEF Spec

-----------------------------------------------------------------------------
(* A request for a time by a client that waits for its answers.            *)

\* The five places of the request: before its handler, in the cache, and in
\* the answer that the other goroutine makes of the cache.
Clock(i) ==
  \/ i = 1 /\ Has(inq["endpoint"], "ClientSetGameTimeReq")
  \/ i = 2 /\ g["endpoint"].pc = "handle" /\ g["endpoint"].pkt.name = "ClientSetGameTimeReq"
  \/ i = 3 /\ cachedClientSetGameTime # 0
  \/ i = 4 /\ g["upstream"].pc = "answer"
  \/ i = 5 /\ Has(outq["endpoint"], "ClientSetGameTimeRsp")

Asked(pkt, time) == pkt.name = "ClientSetGameTimeReq" => pkt.info = <<time>>
Timed(pkt, time) == pkt.name = "ClientSetGameTimeRsp" => pkt.info = <<time, time>>
Reading(pc, times, time) ==
  /\ pc = "clientGame" => times = <<time>>
  /\ pc \in {"clear", "answer"} => times = <<time, time>>

Numbers ==
  /\ \A pkt \in Items(inq["endpoint"]) : Asked(pkt, client.time)
  /\ g["endpoint"].pc = "handle" => Asked(g["endpoint"].pkt, client.time)
  /\ cachedClientSetGameTime # 0 => cachedClientSetGameTime = client.time
  /\ Reading(g["upstream"].pc, g["upstream"].times, client.time)
  /\ \A pkt \in Items(outq["endpoint"]) : Timed(pkt, client.time)

TimeSingle ==
  Once(inq["endpoint"], "ClientSetGameTimeReq") /\ Once(outq["endpoint"], "ClientSetGameTimeRsp")

OneClock == TimeSingle /\ \A i, j \in 1..5 : Clock(i) /\ Clock(j) => i = j

\* While the cache is read it is full.
TimeOK ==
  /\ OneClock /\ Numbers
  /\ \A i \in 1..5 : Clock(i) => client.time # 0
  /\ g["upstream"].pc \in {"game", "clientGame", "clear"} => cachedClientSetGameTime # 0

\* What was at place k may have gone on to the next.
LEMMA ClockGoesOn ==
  ASSUME TimeOK, NEW k \in 0..4, TimeSingle', Numbers', client'.time = client.time,
         g'["upstream"].pc \in {"game", "clientGame", "clear"} => cachedClientSetGameTime' # 0,
         \A i \in 1..5 : Clock(i)' =>
           Clock(i) \/ (i = k + 1 /\ k \in 1..4 /\ Clock(k) /\ ~Clock(k)')
  PROVE  TimeOK'
<1> HIDE DEF Clock
<1>1. \A i, j \in 1..5 : Clock(i) /\ Clock(j) => i = j
  BY DEF TimeOK, OneClock
<1>2. \A i \in 1..5 : Clock(i) => client.time # 0
  BY DEF TimeOK
<1>3. ASSUME NEW i \in 1..5, NEW j \in 1..5, Clock(i)', Clock(j)'
      PROVE  i = j
  <2>1. CASE Clock(i) /\ Clock(j)
    BY <1>1, <2>1
  <2>2. CASE ~Clock(i)
    <3>1. i = k + 1 /\ k \in 1..4 /\ Clock(k) /\ ~Clock(k)'
      BY <1>3, <2>2
    <3>2. k \in 1..5
      BY <3>1
    <3>3. Clock(j) => j = k
      BY <1>1, <3>1, <3>2
    <3> QED
      BY <1>3, <3>1, <3>3
  <2>3. CASE Clock(i) /\ ~Clock(j)
    <3>1. j = k + 1 /\ k \in 1..4 /\ Clock(k) /\ ~Clock(k)'
      BY <1>3, <2>3
    <3>2. k \in 1..5
      BY <3>1
    <3>3. i = k
      BY <1>1, <2>3, <3>1, <3>2
    <3> QED
      BY <1>3, <3>1, <3>3
  <2> QED
    BY <2>1, <2>2, <2>3
<1>4. ASSUME NEW i \in 1..5, Clock(i)'
      PROVE  client'.time # 0
  <2>1. \E j \in 1..5 : Clock(j)
    BY <1>4
  <2> QED
    BY <1>2, <2>1
<1>5. OneClock'
  BY <1>3 DEF OneClock
<1> QED
  BY <1>4, <1>5 DEF TimeOK

\* A step that touches no time.
LEMMA TimeKeeps ==
  ASSUME TimeOK, TimeSingle', client'.time = client.time,
         cachedClientSetGameTime' = cachedClientSetGameTime,
         \A pkt \in Items(inq'["endpoint"]) :
           pkt \in Items(inq["endpoint"]) \/ pkt.name # "ClientSetGameTimeReq",
         \A pkt \in Items(outq'["endpoint"]) :
           pkt \in Items(outq["endpoint"]) \/ pkt.name # "ClientSetGameTimeRsp",
         \/ g'["endpoint"] = g["endpoint"]
         \/ g'["endpoint"].pc # "handle"
         \/ g'["endpoint"].pkt.name # "ClientSetGameTimeReq",
         \/ g'["upstream"] = g["upstream"]
         \/ g'["upstream"].pc \notin {"game", "clientGame", "clear", "answer"}
  PROVE  TimeOK'
<1>1. /\ Clock(1)' => Clock(1)
      /\ Clock(2)' => Clock(2)
      /\ Clock(3)' => Clock(3)
      /\ Clock(4)' => Clock(4)
      /\ Clock(5)' => Clock(5)
  BY DEF Clock, Has
<1>2. \A i \in 1..5 : Clock(i)' => Clock(i)
  <2> HIDE DEF Clock
  <2> QED
    BY <1>1
<1>3. Numbers
  BY DEF TimeOK
<1>4. \A pkt \in Items(inq'["endpoint"]) : Asked(pkt, client.time)
  BY <1>3 DEF Numbers, Asked
<1>5. \A pkt \in Items(outq'["endpoint"]) : Timed(pkt, client.time)
  BY <1>3 DEF Numbers, Timed
<1>6. g'["endpoint"].pc = "handle" => Asked(g'["endpoint"].pkt, client.time)
  BY <1>3 DEF Numbers, Asked
<1>7. Reading(g'["upstream"].pc, g'["upstream"].times, client.time)
  BY <1>3 DEF Numbers, Reading
<1>8. Numbers'
  BY <1>3, <1>4, <1>5, <1>6, <1>7 DEF Numbers
<1>9. g'["upstream"].pc \in {"game", "clientGame", "clear"} => cachedClientSetGameTime' # 0
  BY DEF TimeOK
<1> QED
  BY <1>2, <1>8, <1>9, ClockGoesOn

LEMMA TimeHandled ==
  ASSUME TInv, TimeOK, NEW t \in Sides, Handle(t)
  PROVE  TimeOK'
<1> DEFINE ask == "ClientSetGameTimeReq"
           answer == "ClientSetGameTimeRsp"
<1>1. TimeSingle /\ Numbers /\ Handled(t)
  BY HandleDoes DEF TimeOK, OneClock
<1>2. /\ inq' = inq /\ client' = client /\ g'[t].pc # "handle"
      /\ \A s \in Sides \ {t} : g'[s] = g[s]
      /\ outq["endpoint"] \in Seq(To("endpoint"))
  BY <1>1, Queues, SidesDiffer DEF Handled, Moves, Aside, transports
<1>3. ASSUME cachedClientSetGameTime' = cachedClientSetGameTime,
             g[t].pkt.name # "ChangeGameTimeRsp" \/ g'[t].pc = "send",
             \/ outq' = outq
             \/ \E pkt : Sends("upstream", pkt)
             \/ \E pkt : Sends("endpoint", pkt) /\ pkt.name # answer
      PROVE  TimeOK'
  <2>1. /\ Once(outq'["endpoint"], answer)
        /\ \A pkt \in Items(outq'["endpoint"]) : pkt \in Items(outq["endpoint"]) \/ pkt.name # answer
    <3>1. CASE outq'["endpoint"] = outq["endpoint"]
      BY <1>1, <3>1 DEF TimeSingle
    <3>2. CASE \E pkt : /\ pkt \in To("endpoint") /\ pkt.name # answer
                        /\ outq'["endpoint"] = Append(outq["endpoint"], pkt)
      <4>1. PICK pkt : /\ pkt \in To("endpoint") /\ pkt.name # answer
                       /\ outq'["endpoint"] = Append(outq["endpoint"], pkt)
        BY <3>2
      <4> HIDE DEF answer
      <4>2. Items(outq'["endpoint"]) = Items(outq["endpoint"]) \cup {pkt}
        BY <1>2, <4>1, AppendItems
      <4>3. Once(outq["endpoint"], answer)
        BY <1>1 DEF TimeSingle, answer
      <4>4. Once(outq'["endpoint"], answer)
        BY <1>2, <4>1, <4>3, AppendOnce
      <4> QED
        BY <4>1, <4>2, <4>4
    <3>3. CASE \E pkt : Sends("upstream", pkt)
      BY <3>1, <3>3, SendsKeep, SidesDiffer
    <3>4. CASE \E pkt : Sends("endpoint", pkt) /\ pkt.name # answer
      <4>1. PICK pkt : Sends("endpoint", pkt) /\ pkt.name # answer
        BY <3>4
      <4>2. \/ outq'["endpoint"] = outq["endpoint"]
            \/ outq'["endpoint"] = Append(outq["endpoint"], pkt) /\ pkt \in To("endpoint")
        BY <4>1, SendsKeep, SidesDiffer DEF Sends
      <4> QED
        BY <3>1, <3>2, <4>1, <4>2
    <3> QED
      BY <1>3, <3>1, <3>3, <3>4
  <2>2. TimeSingle'
    BY <1>1, <1>2, <2>1 DEF TimeSingle
  <2>3. g'["upstream"] = g["upstream"]
        \/ g'["upstream"].pc \notin {"game", "clientGame", "clear", "answer"}
    <3>1. CASE t = "endpoint"
      BY <1>2, <3>1, SidesDiffer
    <3>2. CASE t = "upstream" /\ g[t].pkt.name # "ChangeGameTimeRsp"
      <4>1. g'[t].pkt.name \in {g[t].pkt.name, "none"} /\ UpstreamAt(g'["upstream"])
        BY <1>1, <3>2, SidesDiffer DEF Handled, Moves, GoroutinesOK, Is, UpstreamAt
      <4> QED
        BY <3>2, <4>1 DEF UpstreamAt
    <3>3. CASE t = "upstream" /\ g'[t].pc = "send"
      BY <3>3
    <3> QED
      BY <1>3, <3>1, <3>2, <3>3, SidesDiffer
  <2>4. g'["endpoint"] = g["endpoint"] \/ g'["endpoint"].pc # "handle"
    BY <1>2, SidesDiffer
  <2> QED
    BY <1>2, <1>3, <2>1, <2>2, <2>3, <2>4, TimeKeeps
<1>4. CASE \/ HandlePlain(t) \/ OnPullPrivateChatReq(t) \/ OnGetPlayerFriendListRsp(t)
           \/ OnMarkMapReq(t)
  BY <1>3, <1>4, PlainDoes DEF caches
<1>5. CASE OnPrivateChatReq(t) \/ SendConsoleAnswer(t) \/ SendPrivateChatRsp(t)
  <2>1. /\ UNCHANGED caches /\ g[t].pkt.name = "PrivateChatReq"
        /\ \E pkt : Sends("endpoint", pkt) /\ pkt.name # answer
    BY <1>5, ChatDoes
  <2> QED
    BY <1>3, <2>1 DEF caches
<1>6. CASE \/ OnGetPlayerTokenReq(t) \/ OnGetPlayerTokenRsp(t) \/ OnPullRecentChatReq(t)
           \/ OnPullRecentChatRsp(t)
  BY <1>3, <1>6, TokenReqDoes, TokenRspDoes, PullReqDoes, PullRspDoes DEF caches
<1>7. CASE SendChangeGameTimeReq(t)
  <2>1. /\ UNCHANGED caches /\ g[t].pkt.name = ask
        /\ \E pkt : Sends("upstream", pkt)
    BY <1>7, SendChangeDoes
  <2> QED
    BY <1>3, <2>1 DEF caches
<1>8. CASE OnClientSetGameTimeReq(t)
  <2>1. /\ t = "endpoint" /\ outq' = outq /\ g[t].pc = "handle" /\ g[t].pkt.name = ask
        /\ cachedClientSetGameTime' \in 1..MaxSends
        /\ g[t].pkt.info = <<cachedClientSetGameTime'>>
        /\ g'["upstream"] = g["upstream"]
    BY <1>2, <1>8, SetTimeDoes, SidesDiffer
  <2>2. cachedClientSetGameTime' = client.time /\ cachedClientSetGameTime' # 0
    <3>1. g[t].pkt.info = <<client.time>>
      BY <1>1, <2>1 DEF Numbers, Asked
    <3>2. <<client.time>> = <<cachedClientSetGameTime'>>
      BY <2>1, <3>1
    <3>3. ProxyConstants
      BY ProxyConstants
    <3> QED
      BY <2>1, <3>2
  <2>3. TimeSingle'
    BY <1>1, <1>2, <2>1 DEF TimeSingle
  <2>4. Numbers'
    BY <1>1, <1>2, <2>1, <2>2 DEF Numbers
  <2>5. /\ Clock(1)' => Clock(1)
        /\ ~Clock(2)'
        /\ Clock(2)
        /\ Clock(4)' => Clock(4)
        /\ Clock(5)' => Clock(5)
    BY <1>2, <2>1 DEF Clock
  <2>6. \A i \in 1..5 : Clock(i)' => Clock(i) \/ (i = 3 /\ Clock(2) /\ ~Clock(2)')
    <3> HIDE DEF Clock
    <3> QED
      BY <2>5
  <2> QED
    BY <1>2, <2>2, <2>3, <2>4, <2>6, ClockGoesOn
<1>9. CASE OnChangeGameTimeRsp(t)
  <2>1. /\ t = "upstream" /\ outq' = outq /\ g'["endpoint"] = g["endpoint"]
        /\ cachedClientSetGameTime' = cachedClientSetGameTime
        /\ g'[t].pc = IF cachedClientSetGameTime = 0 THEN "send" ELSE "game"
    BY <1>2, <1>9, ChangeRspDoes, SidesDiffer DEF caches
  <2>2. TimeSingle'
    BY <1>1, <1>2, <2>1 DEF TimeSingle
  <2>3. Numbers'
    BY <1>1, <1>2, <2>1 DEF Numbers, Reading
  <2>4. \A i \in 1..5 : Clock(i)' => Clock(i)
    BY <1>2, <2>1 DEF Clock
  <2> QED
    BY <1>2, <2>1, <2>2, <2>3, <2>4, ClockGoesOn
<1>10. CASE ReadTime(t)
  <2> DEFINE cached == cachedClientSetGameTime
             times == g[t].times
  <2>1. /\ t = "upstream" /\ outq' = outq /\ g'["endpoint"] = g["endpoint"]
        /\ cached' = cached /\ g[t].pc \in {"game", "clientGame"}
        /\ g[t].pc = "game" => times = <<>>
        /\ g'[t].pc = IF g[t].pc = "game" THEN "clientGame" ELSE "clear"
        /\ g'[t].times = Append(times, cached)
    BY <1>2, <1>10, ReadTimeDoes, SidesDiffer DEF caches
  <2>2. cached # 0 /\ cached = client.time /\ cached \in Nat
    BY <1>1, <2>1, ProxyConstants DEF TimeOK, Numbers, TInv, SharedOK
  <2>3. Reading(g'["upstream"].pc, g'["upstream"].times, client.time)
    <3>1. CASE g[t].pc = "game"
      <4>1. g'[t].times = <<cached>>
        <5>1. times = <<>> /\ g'[t].times = Append(times, cached)
          BY <2>1, <3>1
        <5> HIDE DEF times, cached
        <5>2. Append(<<>>, cached) = <<cached>>
          OBVIOUS
        <5> QED
          BY <5>1, <5>2
      <4> QED
        BY <2>1, <2>2, <3>1, <4>1 DEF Reading
    <3>2. CASE g[t].pc = "clientGame"
      <4>1. times = <<client.time>>
        BY <1>1, <2>1, <3>2 DEF Numbers, Reading
      <4>2. g'[t].times = Append(<<client.time>>, client.time)
        BY <2>1, <2>2, <4>1
      <4>3. Append(<<client.time>>, client.time) = <<client.time, client.time>>
        BY <2>2, AppendPair
      <4> QED
        BY <2>1, <3>2, <4>2, <4>3 DEF Reading
    <3> QED
      BY <2>1, <3>1, <3>2
  <2>4. TimeSingle'
    BY <1>1, <1>2, <2>1 DEF TimeSingle
  <2>5. Numbers'
    BY <1>1, <1>2, <2>1, <2>2, <2>3 DEF Numbers
  <2>6. \A i \in 1..5 : Clock(i)' => Clock(i)
    BY <1>2, <2>1 DEF Clock
  <2> QED
    BY <1>2, <2>1, <2>2, <2>4, <2>5, <2>6, ClockGoesOn
<1>11. CASE ClearTime(t)
  <2>1. /\ t = "upstream" /\ outq' = outq /\ g'["endpoint"] = g["endpoint"]
        /\ g[t].pc = "clear" /\ g'[t].pc = "answer" /\ g'[t].times = g[t].times
        /\ cachedClientSetGameTime' = 0
    BY <1>2, <1>11, ClearTimeDoes, SidesDiffer
  <2>2. TimeSingle'
    BY <1>1, <1>2, <2>1 DEF TimeSingle
  <2>3. Reading(g'["upstream"].pc, g'["upstream"].times, client.time)
    BY <1>1, <2>1 DEF Numbers, Reading
  <2>4. Numbers'
    BY <1>1, <1>2, <2>1, <2>3 DEF Numbers
  <2>5. /\ Clock(1)' => Clock(1)
        /\ Clock(2)' => Clock(2)
        /\ ~Clock(3)'
        /\ Clock(3)
        /\ Clock(5)' => Clock(5)
    BY <1>2, <2>1 DEF Clock, TimeOK
  <2>6. \A i \in 1..5 : Clock(i)' => Clock(i) \/ (i = 4 /\ Clock(3) /\ ~Clock(3)')
    <3> HIDE DEF Clock
    <3> QED
      BY <2>5
  <2> QED
    BY <1>2, <2>1, <2>2, <2>4, <2>6, ClockGoesOn
<1>12. CASE SendClientSetGameTimeRsp(t)
  <2>1. PICK pkt : Sends("endpoint", pkt) /\ pkt.name = answer /\ pkt.info = g[t].times
    BY <1>12, AnswerDoes
  <2>2. /\ t = "upstream" /\ g'["endpoint"] = g["endpoint"]
        /\ g[t].pc = "answer" /\ g'[t].pc = "send"
        /\ cachedClientSetGameTime' = cachedClientSetGameTime
    BY <1>2, <1>12, AnswerDoes, SidesDiffer DEF caches
  <2>3. pkt.info = <<client.time, client.time>>
    BY <1>1, <2>1, <2>2 DEF Numbers, Reading
  <2>4. ~Clock(5)
    <3>1. Clock(4)
      BY <2>2 DEF Clock
    <3> HIDE DEF Clock
    <3> QED
      BY <3>1 DEF TimeOK, OneClock
  <2>5. /\ Once(outq'["endpoint"], answer)
        /\ \A p \in Items(outq'["endpoint"]) : p \in Items(outq["endpoint"]) \/ p = pkt
    <3>1. pkt \in To("endpoint") /\ Once(outq["endpoint"], answer) /\ ~Has(outq["endpoint"], answer)
      BY <1>1, <2>1, <2>4 DEF Sends, TimeSingle, Clock
    <3>2. \/ outq'["endpoint"] = outq["endpoint"]
          \/ outq'["endpoint"] = Append(outq["endpoint"], pkt)
      BY <2>1, SendsKeep, SidesDiffer
    <3> DEFINE q == outq["endpoint"]
               r == Append(q, pkt)
    <3>3. q \in Seq(To("endpoint")) /\ Once(q, answer)
      BY <1>2, <3>1
    <3>4. Once(r, answer) /\ Items(r) = Items(q) \cup {pkt}
      <4> HIDE DEF q, answer
      <4> QED
        BY <3>1, <3>3, AppendItems, AppendOnce DEF q
    <3> QED
      BY <3>2, <3>3, <3>4
  <2>6. TimeSingle'
    BY <1>1, <1>2, <2>2, <2>5 DEF TimeSingle
  <2>7. \A p \in Items(outq'["endpoint"]) : Timed(p, client.time)
    BY <1>1, <2>3, <2>5 DEF Numbers, Timed
  <2>8. Numbers'
    BY <1>1, <1>2, <2>2, <2>7 DEF Numbers, Reading
  <2>9. /\ Clock(1)' => Clock(1)
        /\ Clock(2)' => Clock(2)
        /\ Clock(3)' => Clock(3)
        /\ ~Clock(4)'
        /\ Clock(4)
    BY <1>2, <2>2 DEF Clock
  <2>10. \A i \in 1..5 : Clock(i)' => Clock(i) \/ (i = 5 /\ Clock(4) /\ ~Clock(4)')
    <3> HIDE DEF Clock
    <3> QED
      BY <2>9
  <2> QED
    BY <1>2, <2>2, <2>6, <2>8, <2>10, ClockGoesOn
<1> QED
  BY <1>4, <1>5, <1>6, <1>7, <1>8, <1>9, <1>10, <1>11, <1>12 DEF Handle

\* Reading a request takes it from place 1 to 2.
LEMMA TimeGoes ==
  ASSUME TInv, TimeOK, NEW t \in Sides,
         ReadPayload(t) \/ SendOn(t) \/ PayloadFails(t) \/ CloseTransport(t)
  PROVE  TimeOK'
<1> DEFINE ask == "ClientSetGameTimeReq"
           answer == "ClientSetGameTimeRsp"
<1>1. TimeSingle /\ Numbers
  BY DEF TimeOK, OneClock
<1>2. UNCHANGED <<caches, client>>
  BY ReadDoes, SendOnDoes, FailsDoes DEF Aside, transports, CloseTransport
<1>3. client'.time = client.time /\ cachedClientSetGameTime' = cachedClientSetGameTime
  BY <1>2 DEF caches
<1>4. CASE ReadPayload(t) /\ t = "endpoint"
  <2> DEFINE q == inq["endpoint"]
             pkt == Head(q)
  <2>1. /\ q # <<>> /\ inq'["endpoint"] = Tail(q) /\ q \in Seq(From("endpoint")) /\ outq' = outq
        /\ g'["upstream"] = g["upstream"] /\ g["endpoint"].pc = "payload"
        /\ g' = g \/ (g'["endpoint"].pc = "handle" /\ g'["endpoint"].pkt = pkt)
    BY <1>4, ReadDoes, Queues, SidesDiffer
  <2>2. /\ Items(q) = {pkt} \cup Items(inq'["endpoint"])
        /\ Once(inq'["endpoint"], ask)
        /\ Has(q, ask) <=> pkt.name = ask \/ Has(inq'["endpoint"], ask)
        /\ ~(pkt.name = ask /\ Has(inq'["endpoint"], ask))
    <3>1. Once(q, ask)
      BY <1>1 DEF TimeSingle
    <3> HIDE DEF q, ask
    <3> QED
      BY <2>1, <3>1, TailItems, TailOnce
  <2>3. \A p \in Items(q) : Asked(p, client.time)
    BY <1>1 DEF Numbers
  <2> HIDE DEF pkt
  <2>4. TimeSingle'
    BY <1>1, <2>1, <2>2 DEF TimeSingle
  <2>5. /\ \A p \in Items(inq'["endpoint"]) : Asked(p, client.time)
        /\ Asked(pkt, client.time)
    BY <2>2, <2>3
  <2>6. Numbers'
    BY <1>1, <1>3, <2>1, <2>5 DEF Numbers
  <2>7. /\ Clock(1)' => Clock(1)
        /\ Clock(2)' => Clock(2) \/ (Clock(1) /\ ~Clock(1)')
        /\ Clock(3)' => Clock(3)
        /\ Clock(4)' => Clock(4)
        /\ Clock(5)' => Clock(5)
    BY <1>3, <2>1, <2>2 DEF Clock
  <2>8. \A i \in 1..5 : Clock(i)' => Clock(i) \/ (i = 2 /\ Clock(1) /\ ~Clock(1)')
    <3> HIDE DEF Clock
    <3> QED
      BY <2>7
  <2>9. g'["upstream"].pc \in {"game", "clientGame", "clear"} => cachedClientSetGameTime' # 0
    BY <1>3, <2>1 DEF TimeOK
  <2> QED
    BY <1>3, <2>4, <2>6, <2>8, <2>9, ClockGoesOn
<1>5. CASE ReadPayload(t) /\ t = "upstream"
  <2>1. /\ inq'["endpoint"] = inq["endpoint"] /\ outq' = outq /\ g'["endpoint"] = g["endpoint"]
        /\ g' = g \/ g'["upstream"].pc = "handle"
    BY <1>5, ReadDoes, SidesDiffer
  <2>2. TimeSingle'
    BY <1>1, <2>1 DEF TimeSingle
  <2> QED
    BY <1>3, <2>1, <2>2, TimeKeeps
<1>6. CASE SendOn(t)
  <2>1. PICK pkt : Sends(Opposite(t), pkt) /\ pkt.name = g[t].pkt.name
    BY <1>6, SendOnDoes
  <2>2. /\ g[t].pc = "send" /\ g'[t].pc = "payload" /\ inq' = inq
        /\ \A s \in Sides \ {t} : g'[s] = g[s]
    BY <1>6, SendOnDoes DEF Aside, transports
  <2>3. t = "upstream" => pkt.name # answer
    <3>1. t = "upstream" => g[t].pkt.name \in AnswerNames
      BY <2>2, SideOf
    <3> QED
      BY <2>1, <3>1 DEF AnswerNames
  <2>4. \/ outq'["endpoint"] = outq["endpoint"]
        \/ /\ outq'["endpoint"] = Append(outq["endpoint"], pkt) /\ pkt.name # answer
           /\ pkt \in To("endpoint")
    BY <2>1, <2>3, SendsKeep, SidesDiffer DEF Sends
  <2>5. /\ Once(outq'["endpoint"], answer)
        /\ \A p \in Items(outq'["endpoint"]) : p \in Items(outq["endpoint"]) \/ p.name # answer
    <3> DEFINE q == outq["endpoint"]
               r == Append(q, pkt)
    <3>1. q \in Seq(To("endpoint")) /\ Once(q, answer)
      BY <1>1, Queues, SidesDiffer DEF TimeSingle
    <3>2. ASSUME pkt.name # answer, pkt \in To("endpoint")
          PROVE  Once(r, answer) /\ Items(r) = Items(q) \cup {pkt}
      <4> HIDE DEF q, answer
      <4> QED
        BY <3>1, <3>2, AppendItems, AppendOnce
    <3> QED
      BY <2>4, <3>1, <3>2
  <2>6. TimeSingle'
    BY <1>1, <2>2, <2>5 DEF TimeSingle
  <2>7. /\ g'["endpoint"] = g["endpoint"] \/ g'["endpoint"].pc # "handle"
        /\ \/ g'["upstream"] = g["upstream"]
           \/ g'["upstream"].pc \notin {"game", "clientGame", "clear", "answer"}
    BY <2>2, SidesDiffer
  <2> QED
    BY <1>3, <2>2, <2>5, <2>6, <2>7, TimeKeeps
<1>7. CASE PayloadFails(t) \/ CloseTransport(t)
  <2>1. /\ UNCHANGED <<inq, outq>> /\ g'["upstream"] = g["upstream"]
        /\ g'["endpoint"] = g["endpoint"] \/ g'["endpoint"].pc # "handle"
    BY <1>7, FailsDoes, SidesDiffer DEF CloseTransport, transports
  <2>2. TimeSingle'
    BY <1>1, <2>1 DEF TimeSingle
  <2> QED
    BY <1>3, <2>1, <2>2, TimeKeeps
<1> QED
  BY <1>4, <1>5, <1>6, <1>7, SidesDiffer

LEMMA TimeServer ==
  ASSUME TInv, TimeOK, ServerReads \/ ServerPush
  PROVE  TimeOK'
<1>1. UNCHANGED <<g, caches, client>>
  BY ServerReadsDoes, PushDoes
<1>2. inq'["endpoint"] = inq["endpoint"] /\ outq'["endpoint"] = outq["endpoint"]
  <2>1. CASE ServerPush
    BY <2>1, PushDoes, ArrivesKeep, SidesDiffer
  <2>2. CASE ServerReads
    <3>1. /\ outq["upstream"] # <<>> /\ outq' = [outq EXCEPT !["upstream"] = Tail(@)]
          /\ inq' = inq \/ \E rsp : Arrives("upstream", rsp)
      BY <2>2, ServerReadsDoes
    <3> QED
      BY <3>1, TakesDoes, ArrivesKeep, SidesDiffer
  <2> QED
    BY <2>1, <2>2
<1>3. TimeSingle'
  BY <1>2 DEF TimeOK, OneClock, TimeSingle
<1>4. cachedClientSetGameTime' = cachedClientSetGameTime
  BY <1>1 DEF caches
<1> QED
  BY <1>1, <1>2, <1>3, <1>4, TimeKeeps

\* The client asks when nothing is under way, and the answer is the last of it.
LEMMA TimeClient ==
  ASSUME Patient, TInv, TimeOK, ClientStep
  PROVE  TimeOK'
<1> DEFINE ask == "ClientSetGameTimeReq"
           answer == "ClientSetGameTimeRsp"
<1>1. TimeSingle /\ Numbers
  BY DEF TimeOK, OneClock
<1>2. CASE ClientReads
  <2> DEFINE q == outq["endpoint"]
             pkt == Head(q)
  <2>1. /\ UNCHANGED <<transports, g, caches>> /\ q # <<>>
        /\ outq' = [outq EXCEPT !["endpoint"] = Tail(@)]
        /\ client'.time = client.time \/ (pkt.name = answer /\ client'.time = 0)
    BY <1>2, ClientReadsDoes
  <2>2. /\ inq' = inq /\ g' = g /\ cachedClientSetGameTime' = cachedClientSetGameTime
        /\ outq'["endpoint"] = Tail(q) /\ q \in Seq(To("endpoint"))
    <3>1. inq' = inq /\ g' = g /\ cachedClientSetGameTime' = cachedClientSetGameTime
      BY <2>1 DEF transports, caches
    <3>2. outq'["endpoint"] = Tail(outq["endpoint"])
      BY <2>1, TakesDoes, SidesDiffer
    <3> QED
      BY <3>1, <3>2, Queues, SidesDiffer
  <2>3. /\ Items(q) = {pkt} \cup Items(outq'["endpoint"])
        /\ Once(outq'["endpoint"], answer)
        /\ Has(q, answer) <=> pkt.name = answer \/ Has(outq'["endpoint"], answer)
        /\ ~(pkt.name = answer /\ Has(outq'["endpoint"], answer))
    <3> DEFINE r == Tail(q)
    <3>1. Once(q, answer) /\ q \in Seq(To("endpoint")) /\ q # <<>>
      BY <1>1, <2>1, <2>2 DEF TimeSingle
    <3>2. /\ Items(q) = {pkt} \cup Items(r) /\ Once(r, answer)
          /\ Has(q, answer) <=> pkt.name = answer \/ Has(r, answer)
          /\ ~(pkt.name = answer /\ Has(r, answer))
      <4> HIDE DEF q, answer
      <4> QED
        BY <3>1, TailItems, TailOnce
    <3> HIDE DEF r
    <3> QED
      BY <2>2, <3>2 DEF r
  <2> HIDE DEF pkt
  <2>4. TimeSingle'
    BY <1>1, <2>2, <2>3 DEF TimeSingle
  <2>5. CASE client'.time = client.time
    BY <2>2, <2>3, <2>4, <2>5, TimeKeeps
  <2>6. CASE pkt.name = answer /\ client'.time = 0
    <3>1. Clock(5) /\ ~Clock(5)'
      BY <2>3, <2>6 DEF Clock
    <3>2. ~Clock(1) /\ ~Clock(2) /\ ~Clock(3) /\ ~Clock(4)
      <4> HIDE DEF Clock
      <4>1. \A i \in 1..5 : Clock(i) => i = 5
        BY <3>1 DEF TimeOK, OneClock
      <4> QED
        BY <4>1
    <3>3. /\ \A p \in Items(inq["endpoint"]) : p.name # ask
          /\ g["endpoint"].pc = "handle" => g["endpoint"].pkt.name # ask
          /\ cachedClientSetGameTime = 0 /\ g["upstream"].pc # "answer"
          /\ \A p \in Items(outq'["endpoint"]) : p.name # answer
      BY <3>1, <3>2 DEF Clock, Has
    <3>4. g["upstream"].pc \notin {"game", "clientGame", "clear"}
      BY <3>3 DEF TimeOK
    <3>5. Numbers'
      BY <2>2, <3>3, <3>4 DEF Numbers, Asked, Timed, Reading
    <3>6. ~Clock(1)' /\ ~Clock(2)' /\ ~Clock(3)' /\ ~Clock(4)' /\ ~Clock(5)'
      BY <2>2, <3>1, <3>2 DEF Clock
    <3>7. \A i \in 1..5 : ~Clock(i)'
      <4> HIDE DEF Clock
      <4> QED
        BY <3>6
    <3> HIDE DEF Clock
    <3> QED
      BY <2>2, <2>4, <3>4, <3>5, <3>7 DEF TimeOK, OneClock
  <2> QED
    BY <2>1, <2>5, <2>6
<1>3. CASE ~ClientReads
  <2>1. PICK pkt : /\ ClientSays(pkt)
                   /\ IF pkt.name = ask
                      THEN client.time = 0 /\ client'.time \in 1..MaxSends
                           /\ pkt.info = <<client'.time>>
                      ELSE client'.time = client.time
    BY <1>3, SaysWhat DEF ClientStep
  <2>2. /\ inq'["endpoint"] = Append(inq["endpoint"], pkt)
        /\ outq' = outq /\ g' = g /\ cachedClientSetGameTime' = cachedClientSetGameTime
        /\ inq["endpoint"] \in Seq(From("endpoint")) /\ pkt \in From("endpoint")
    BY <2>1, ArrivesKeep, Queues, SidesDiffer DEF ClientSays, ClientOnly, Arrives, caches
  <2>3. pkt.name = ask => \A i \in 1..5 : ~Clock(i)
    BY <2>1 DEF TimeOK
  <2>4. /\ Items(inq'["endpoint"]) = Items(inq["endpoint"]) \cup {pkt}
        /\ Once(inq'["endpoint"], ask)
    <3> DEFINE q == inq["endpoint"]
    <3>1. Once(q, ask) /\ (pkt.name = ask => ~Has(q, ask))
      BY <1>1, <2>3 DEF TimeSingle, Clock
    <3> HIDE DEF q, ask
    <3> QED
      BY <2>2, <3>1, AppendItems, AppendOnce DEF q
  <2>5. TimeSingle'
    BY <1>1, <2>2, <2>4 DEF TimeSingle
  <2>6. CASE pkt.name # ask
    BY <2>1, <2>2, <2>4, <2>5, <2>6, TimeKeeps
  <2>7. CASE pkt.name = ask
    <3>1. /\ client'.time # 0 /\ pkt.info = <<client'.time>>
      BY <2>1, <2>7, ProxyConstants
    <3>2. ~Clock(1) /\ ~Clock(2) /\ ~Clock(3) /\ ~Clock(4) /\ ~Clock(5)
      BY <2>3, <2>7
    <3>3. /\ \A p \in Items(inq["endpoint"]) : p.name # ask
          /\ g["endpoint"].pc = "handle" => g["endpoint"].pkt.name # ask
          /\ cachedClientSetGameTime = 0 /\ g["upstream"].pc # "answer"
          /\ \A p \in Items(outq["endpoint"]) : p.name # answer
      BY <3>2 DEF Clock, Has
    <3>4. g["upstream"].pc \notin {"game", "clientGame", "clear"}
      BY <3>3 DEF TimeOK
    <3>5. Numbers'
      BY <2>2, <2>4, <3>1, <3>3, <3>4 DEF Numbers, Asked, Timed, Reading
    <3>6. ~Clock(2)' /\ ~Clock(3)' /\ ~Clock(4)' /\ ~Clock(5)'
      BY <2>2, <3>2 DEF Clock
    <3>7. \A i \in 1..5 : Clock(i)' => i = 1
      <4> HIDE DEF Clock
      <4> QED
        BY <3>6
    <3> HIDE DEF Clock
    <3> QED
      BY <2>2, <2>5, <3>1, <3>4, <3>5, <3>7 DEF TimeOK, OneClock
  <2> QED
    BY <2>6, <2>7
<1> QED
  BY <1>2, <1>3

LEMMA TimeInit == Init => TimeOK
<1> SUFFICES ASSUME Init
             PROVE  TimeOK
  OBVIOUS
<1>1. inq = [t \in Sides |-> <<>>] /\ outq = [t \in Sides |-> <<>>]
  BY DEF Init
<1>2. inq["endpoint"] = <<>> /\ outq["endpoint"] = <<>>
  BY <1>1, SidesDiffer
<1>3. /\ g["endpoint"].pc = "payload" /\ g["upstream"].pc = "payload"
      /\ cachedClientSetGameTime = 0
  BY SidesDiffer DEF Init
<1>4. Items(<<>>) = {}
  BY DEF Items
<1>5. \A i \in 1..5 : ~Clock(i)
  BY <1>2, <1>3, <1>4 DEF Clock, Has
<1>6. Numbers
  BY <1>2, <1>3, <1>4 DEF Numbers, Reading
<1>7. TimeSingle
  BY <1>2, EmptyItems DEF TimeSingle
<1> HIDE DEF Clock
<1> QED
  BY <1>3, <1>5, <1>6, <1>7 DEF TimeOK, OneClock

LEMMA TimeStep ==
  ASSUME Patient, TInv, TimeOK, [Next]_vars
  PROVE  TimeOK'
<1>1. CASE UNCHANGED vars
  <2>1. UNCHANGED <<inq, outq, g, cachedClientSetGameTime, client>>
    BY <1>1 DEF vars, transports, caches
  <2>2. \A i : Clock(i)' <=> Clock(i)
    BY <2>1 DEF Clock
  <2>3. Numbers' /\ TimeSingle'
    BY <2>1 DEF TimeOK, OneClock, TimeSingle, Numbers
  <2> QED
    BY <2>1, <2>2, <2>3 DEF TimeOK, OneClock
<1>2. CASE Next
  <2>1. CASE \E t \in Sides : Goroutine(t) \/ CloseTransport(t)
    BY <2>1, TimeHandled, TimeGoes DEF Goroutine
  <2>2. CASE ClientStep
    BY <2>2, TimeClient
  <2>3. CASE ServerReads \/ ServerPush
    BY <2>3, TimeServer
  <2> QED
    BY <1>2, <2>1, <2>2, <2>3 DEF Next
<1> QED
  BY <1>1, <1>2

\* A client that waits for its answers is told its own time twice: the one
\* goroutine writes the cache only after the other has read it, emptied it
\* and sent what it read.
THEOREM AnsweredWithOwnHolds ==
  ASSUME Patient
  PROVE  Spec => []AnsweredWithOwn
<1>1. Init => IInv /\ TimeOK
  BY InitInv, TimeInit
<1>2. (IInv /\ TimeOK) /\ [Next]_vars => (IInv /\ TimeOK)'
  BY NextInv, TimeStep DEF IInv
<1>3. IInv /\ TimeOK => AnsweredWithOwn
  <2> SUFFICES ASSUME TimeOK, NEW i \in DOMAIN outq["endpoint"],
                      outq["endpoint"][i].name = "ClientSetGameTimeRsp"
               PROVE  /\ client.time # 0
                      /\ outq["endpoint"][i].info = <<client.time, client.time>>
    BY DEF AnsweredWithOwn
  <2>1. outq["endpoint"][i] \in Items(outq["endpoint"])
    BY DEF Items
  <2>2. Clock(5)
    BY <2>1 DEF Clock, Has
  <2> HIDE DEF Clock
  <2>3. client.time # 0
    BY <2>2 DEF TimeOK
  <2>4. Timed(outq["endpoint"][i], client.time)
    BY <2>1 DEF TimeOK, Numbers
  <2> QED
    BY <2>3, <2>4 DEF Timed
<1> QED
  BY <1>1, <1>2, <1>3, PTL DEF Spec
-----------------------------------------------------------------------------
(* The pings of the client, from its own queue to the server.               *)

IsPing(pkt) == pkt.name = "PingReq"

LEMMA CarriesAppend ==
  ASSUME NEW S, NEW q \in Seq(S), NEW x \in S, NEW a \in Int, NEW b \in Int, a <= b,
         Carries(q, a, b)
  PROVE  /\ ~IsPing(x) => Carries(Append(q, x), a, b)
         /\ IsPing(x) /\ x.info = <<b + 1>> => Carries(Append(q, x), a, b + 1)
<1> DEFINE r == Append(q, x)
           m == Len(q)
           old == {i \in 1..m : IsPing(q[i])}
<1>1. /\ r \in Seq(S) /\ Len(r) = m + 1 /\ r[m + 1] = x /\ DOMAIN q = 1..m /\ m \in Nat
      /\ \A i \in 1..m : r[i] = q[i]
  BY AppendItems
<1>2. DOMAIN r = 1..(m + 1)
  BY <1>1, LenProperties
<1>3. /\ {q[i].info : i \in old} = {<<n>> : n \in (a + 1)..b}
      /\ \A i, j \in old : i < j => q[i].info[1] < q[j].info[1]
  BY <1>1 DEF Carries, IsPing
<1>4. \A i \in 1..(m + 1) : i = m + 1 \/ i \in 1..m
  BY <1>1
<1>5. 1..m \subseteq 1..(m + 1) /\ m + 1 \in 1..(m + 1)
  BY <1>1
<1> DEFINE new == {i \in 1..(m + 1) : IsPing(r[i])}
<1> HIDE DEF r, m
<1>6. ASSUME ~IsPing(x)
      PROVE  Carries(r, a, b)
  <2>1. new = old
    BY <1>1, <1>4, <1>5, <1>6
  <2>2. \A i \in old : r[i] = q[i]
    BY <1>1
  <2>3. {r[i].info : i \in old} = {q[i].info : i \in old}
    BY <2>2
  <2>4. {i \in DOMAIN r : r[i].name = "PingReq"} = new
    BY <1>2 DEF IsPing
  <2> HIDE DEF old, new
  <2> QED
    BY <1>3, <2>1, <2>2, <2>3, <2>4 DEF Carries
<1>7. ASSUME IsPing(x), x.info = <<b + 1>>
      PROVE  Carries(r, a, b + 1)
  <2>1. new = old \cup {m + 1}
    BY <1>1, <1>4, <1>5, <1>7
  <2>2. \A i \in old : r[i] = q[i] /\ i < m + 1
    BY <1>1
  <2>3. {i \in DOMAIN r : r[i].name = "PingReq"} = new
    BY <1>2 DEF IsPing
  <2>4. r[m + 1] = x
    BY <1>1
  <2> HIDE DEF old, new
  <2>5. {r[i].info : i \in new} = {q[i].info : i \in old} \cup {<<b + 1>>}
    BY <1>7, <2>1, <2>2, <2>4
  <2>6. {<<n>> : n \in (a + 1)..(b + 1)} = {<<n>> : n \in (a + 1)..b} \cup {<<b + 1>>}
    <3>1. (a + 1)..(b + 1) = ((a + 1)..b) \cup {b + 1}
      OBVIOUS
    <3> QED
      BY <3>1
  <2>7. \A i \in old : r[i].info[1] < b + 1
    <3> SUFFICES ASSUME NEW i \in old
                 PROVE  r[i].info[1] < b + 1
      OBVIOUS
    <3>1. PICK n \in (a + 1)..b : q[i].info = <<n>>
      BY <1>3
    <3>2. q[i].info[1] = n
      BY <3>1
    <3> QED
      BY <2>2, <3>2
  <2>8. x.info[1] = b + 1
    BY <1>7
  <2>9. \A i, j \in new : i < j => r[i].info[1] < r[j].info[1]
    <3> SUFFICES ASSUME NEW i \in new, NEW j \in new, i < j
                 PROVE  r[i].info[1] < r[j].info[1]
      OBVIOUS
    <3>1. m \in Nat /\ \A k \in old : k \in Int
      BY <1>1 DEF old
    <3>2. CASE i \in old /\ j \in old
      BY <1>3, <2>2, <3>2
    <3>3. CASE i \in old /\ j = m + 1
      BY <2>4, <2>7, <2>8, <3>3
    <3>4. i # m + 1
      BY <2>1, <2>2, <3>1
    <3> QED
      BY <2>1, <3>2, <3>3, <3>4
  <2> QED
    BY <1>3, <2>3, <2>5, <2>6, <2>9 DEF Carries
<1> QED
  BY <1>6, <1>7 DEF r

LEMMA CarriesTail ==
  ASSUME NEW S, NEW q \in Seq(S), q # <<>>, NEW a \in Int, NEW b \in Int, a <= b,
         Carries(q, a, b)
  PROVE  /\ ~IsPing(Head(q)) => Carries(Tail(q), a, b)
         /\ IsPing(Head(q)) => a + 1 <= b /\ Head(q).info = <<a + 1>> /\ Carries(Tail(q), a + 1, b)
<1> DEFINE r == Tail(q)
           m == Len(q)
           old == {i \in 1..m : IsPing(q[i])}
           new == {i \in 1..(m - 1) : IsPing(r[i])}
<1>1. /\ m \in Nat \ {0} /\ DOMAIN q = 1..m /\ Head(q) = q[1] /\ DOMAIN r = 1..(m - 1)
      /\ \A i \in 1..(m - 1) : r[i] = q[i + 1]
  BY TailItems
<1>2. /\ {q[i].info : i \in old} = {<<n>> : n \in (a + 1)..b}
      /\ \A i, j \in old : i < j => q[i].info[1] < q[j].info[1]
  BY <1>1 DEF Carries, IsPing
<1>3. {i \in DOMAIN r : r[i].name = "PingReq"} = new
  BY <1>1 DEF IsPing
<1> HIDE DEF r, m
<1>4. /\ \A i \in new : i + 1 \in old /\ r[i] = q[i + 1] /\ i \in Int /\ i + 1 # 1
      /\ \A i \in old : i = 1 \/ (i - 1 \in new /\ r[i - 1] = q[i])
  <2>1. \A i \in 1..(m - 1) : i + 1 \in 1..m /\ i + 1 # 1 /\ i \in Int
    BY <1>1
  <2>2. \A i \in 1..m : i = 1 \/ (i - 1 \in 1..(m - 1) /\ (i - 1) + 1 = i)
    BY <1>1
  <2> QED
    BY <1>1, <2>1, <2>2
<1>5. \A i, j \in new : i < j => r[i].info[1] < r[j].info[1]
  <2>1. \A i, j \in new : i < j => i + 1 < j + 1
    BY <1>4
  <2> HIDE DEF old, new
  <2> QED
    BY <1>2, <1>4, <2>1
<1>6. (1 \in old <=> IsPing(Head(q))) /\ \A i \in old : i = 1 \/ 1 < i
  BY <1>1
<1> HIDE DEF old, new
<1>7. \A i \in old : \E n \in (a + 1)..b : q[i].info = <<n>> /\ q[i].info[1] = n
  BY <1>2
<1>8. \A n \in (a + 1)..b : \E i \in old : q[i].info = <<n>> /\ q[i].info[1] = n
  <2> SUFFICES ASSUME NEW n \in (a + 1)..b
               PROVE  \E i \in old : q[i].info = <<n>> /\ q[i].info[1] = n
    OBVIOUS
  <2>1. <<n>> \in {q[i].info : i \in old}
    BY <1>2
  <2>2. PICK i \in old : q[i].info = <<n>>
    BY <2>1
  <2> QED
    BY <2>2
<1>9. ASSUME ~IsPing(Head(q))
      PROVE  Carries(r, a, b)
  <2>1. \A i \in new : \E n \in (a + 1)..b : r[i].info = <<n>>
    BY <1>4, <1>7
  <2>2. \A n \in (a + 1)..b : \E i \in new : r[i].info = <<n>>
    <3> SUFFICES ASSUME NEW n \in (a + 1)..b
                 PROVE  \E i \in new : r[i].info = <<n>>
      OBVIOUS
    <3>1. PICK i \in old : q[i].info = <<n>>
      BY <1>8
    <3>2. i # 1
      BY <1>6, <1>9
    <3> QED
      BY <1>4, <3>1, <3>2
  <2>3. {r[i].info : i \in new} = {<<n>> : n \in (a + 1)..b}
    BY <2>1, <2>2
  <2> QED
    BY <1>3, <1>5, <2>3 DEF Carries
<1>10. ASSUME IsPing(Head(q))
       PROVE  a + 1 <= b /\ Head(q).info = <<a + 1>> /\ Carries(r, a + 1, b)
  <2>1. 1 \in old
    BY <1>6, <1>10
  <2>2. PICK n \in (a + 1)..b : q[1].info = <<n>> /\ q[1].info[1] = n
    BY <1>7, <2>1
  <2>3. a + 1 \in (a + 1)..b /\ a + 1 <= b /\ n >= a + 1
    BY <2>2
  <2>4. PICK i \in old : q[i].info = <<a + 1>> /\ q[i].info[1] = a + 1
    BY <1>8, <2>3
  <2>5. i = 1
    <3> SUFFICES ASSUME 1 < i
                 PROVE  FALSE
      BY <1>6
    <3>1. q[1].info[1] < q[i].info[1]
      BY <1>2, <2>1
    <3>2. n < a + 1
      BY <2>2, <2>4, <3>1
    <3> QED
      BY <2>3, <3>2
  <2>6. Head(q).info = <<a + 1>> /\ q[1].info[1] = a + 1
    BY <1>1, <2>4, <2>5
  <2>7. \A j \in new : \E k \in ((a + 1) + 1)..b : r[j].info = <<k>>
    <3> SUFFICES ASSUME NEW j \in new
                 PROVE  \E k \in ((a + 1) + 1)..b : r[j].info = <<k>>
      OBVIOUS
    <3>1. j + 1 \in old /\ r[j] = q[j + 1] /\ j + 1 # 1
      BY <1>4
    <3>2. PICK k \in (a + 1)..b : q[j + 1].info = <<k>> /\ q[j + 1].info[1] = k
      BY <1>7, <3>1
    <3>3. q[1].info[1] < q[j + 1].info[1]
      BY <1>2, <1>6, <2>1, <3>1
    <3>4. a + 1 < k
      BY <2>6, <3>2, <3>3
    <3>5. k \in ((a + 1) + 1)..b
      BY <3>4
    <3> QED
      BY <3>1, <3>2, <3>5
  <2>8. \A k \in ((a + 1) + 1)..b : \E j \in new : r[j].info = <<k>>
    <3> SUFFICES ASSUME NEW k \in ((a + 1) + 1)..b
                 PROVE  \E j \in new : r[j].info = <<k>>
      OBVIOUS
    <3>1. k \in (a + 1)..b /\ k # a + 1
      OBVIOUS
    <3>2. PICK j \in old : q[j].info = <<k>> /\ q[j].info[1] = k
      BY <1>8, <3>1
    <3>3. j # 1
      BY <2>6, <3>1, <3>2
    <3> QED
      BY <1>4, <3>2, <3>3
  <2>9. {r[j].info : j \in new} = {<<k>> : k \in ((a + 1) + 1)..b}
    BY <2>7, <2>8
  <2> QED
    BY <1>3, <1>5, <2>3, <2>6, <2>9 DEF Carries
<1> QED
  BY <1>9, <1>10 DEF r

LEMMA CarriesOne ==
  ASSUME NEW pkt, NEW a \in Int, NEW b \in Int, a <= b
  PROVE  Carries(<<pkt>>, a, b) <=> IF IsPing(pkt) THEN b = a + 1 /\ pkt.info = <<b>> ELSE a = b
<1> DEFINE q == <<pkt>>
           pings == {i \in DOMAIN q : q[i].name = "PingReq"}
           numbers == {<<n>> : n \in (a + 1)..b}
<1>1. DOMAIN q = {1} /\ q[1] = pkt
  OBVIOUS
<1> HIDE DEF q
<1>2. CASE IsPing(pkt)
  <2>1. pings = {1}
    BY <1>1, <1>2 DEF IsPing
  <2>2. {q[i].info : i \in pings} = {pkt.info}
    BY <1>1, <2>1
  <2>3. \A i, j \in pings : ~(i < j)
    BY <2>1
  <2>4. (Carries(q, a, b)) <=> numbers = {pkt.info}
    <3> HIDE DEF pings, numbers
    <3>1. Carries(q, a, b) <=> /\ {q[i].info : i \in pings} = numbers
                               /\ \A i, j \in pings : i < j => q[i].info[1] < q[j].info[1]
      BY DEF Carries, pings, numbers
    <3> QED
      BY <2>2, <2>3, <3>1
  <2>5. ASSUME numbers = {pkt.info} PROVE b = a + 1 /\ pkt.info = <<b>>
    <3>1. a < b
      <4> SUFFICES ASSUME a = b
                   PROVE  FALSE
        OBVIOUS
      <4>1. (a + 1)..b = {}
        OBVIOUS
      <4> QED
        BY <2>5, <4>1
    <3>2. a + 1 \in (a + 1)..b /\ b \in (a + 1)..b
      BY <3>1
    <3>3. <<a + 1>> \in numbers /\ <<b>> \in numbers
      BY <3>2
    <3>4. <<a + 1>> = pkt.info /\ <<b>> = pkt.info
      BY <2>5, <3>3
    <3>5. <<a + 1>> = <<b>>
      BY <3>4
    <3>6. <<a + 1>>[1] = a + 1 /\ <<b>>[1] = b
      OBVIOUS
    <3> QED
      BY <3>4, <3>5, <3>6
  <2>6. ASSUME b = a + 1, pkt.info = <<b>> PROVE numbers = {pkt.info}
    <3>1. (a + 1)..b = {b}
      BY <2>6
    <3> QED
      BY <2>6, <3>1
  <2> HIDE DEF numbers
  <2> QED
    BY <1>2, <2>4, <2>5, <2>6 DEF q
<1>3. CASE ~IsPing(pkt)
  <2>1. pings = {}
    BY <1>1, <1>3 DEF IsPing
  <2>2. {q[i].info : i \in pings} = {} /\ \A i, j \in pings : FALSE
    BY <2>1
  <2>3. Carries(q, a, b) <=> numbers = {}
    BY <2>2 DEF Carries
  <2>4. numbers = {} <=> (a + 1)..b = {}
    OBVIOUS
  <2>5. (a + 1)..b = {} <=> a = b
    <3>1. CASE a = b
      BY <3>1
    <3>2. CASE a < b
      BY <3>2
    <3> QED
      BY <3>1, <3>2
  <2> HIDE DEF numbers
  <2> QED
    BY <1>3, <2>3, <2>4, <2>5 DEF q
<1> QED
  BY <1>2, <1>3

LEMMA CarriesNone ==
  ASSUME NEW a \in Int
  PROVE  Carries(<<>>, a, a)
<1> DEFINE q == <<>>
<1>1. {i \in DOMAIN q : q[i].name = "PingReq"} = {} /\ (a + 1)..a = {}
  OBVIOUS
<1> HIDE DEF q
<1>2. Carries(q, a, a)
  BY <1>1 DEF Carries
<1> QED
  BY <1>2 DEF q

\* What the proxy can decrypt: the client has the new key from a packet that
\* the proxy itself had decrypted before.
KeyOK ==
  /\ client.key # Shared => loginKey = SessionKey
  /\ \A pkt \in Items(inq["endpoint"]) : pkt.key # Shared => loginKey = SessionKey

\* The pings from the server's to the client's last one.
Pinging(told, out, pkt, in, last) ==
  /\ told = [i \in 1..Len(told) |-> i]
  /\ \E a, b \in Len(told)..last :
       a <= b /\ Carries(out, Len(told), a) /\ Carries(<<pkt>>, a, b) /\ Carries(in, b, last)

LEMMA PingsPassIs ==
  PingsPass <=>
    (closed = {} => Pinging(server.pings, outq["upstream"], g["endpoint"].pkt,
                            inq["endpoint"], client.pings))
  BY DEF PingsPass, Pinging

\* Whatever the client sends is under the shared key or its own.
LEMMA SaysHow ==
  ASSUME TInv,
         ClientLogin \/ ClientPing \/ ClientTime \/ ClientChange \/ ClientPull \/ ClientChat \/ ClientAsks
  PROVE  \E pkt : /\ ClientSays(pkt) /\ pkt.key \in {Shared, client.key}
                  /\ IF IsPing(pkt)
                     THEN pkt.info = <<client.pings + 1>> /\ client'.pings = client.pings + 1
                     ELSE client'.pings = client.pings
<1> DEFINE Heard(name, key, info) ==
      /\ inq' = [inq EXCEPT !["endpoint"] = Append(@, Packet(name, key, "endpoint", info))]
      /\ key \in {Shared, client.key}
      /\ IF name = "PingReq"
         THEN info = <<client.pings + 1>> /\ client'.pings = client.pings + 1
         ELSE client'.pings = client.pings
<1>1. client \in Clients
  BY ClientAt
<1>2. \E name, key, info : Heard(name, key, info)
  <2>1. CASE ClientLogin
    <3>1. Heard("GetPlayerTokenReq", Shared, <<Rand>>)
      BY <1>1, <2>1 DEF ClientLogin, FromClient, Clients
    <3> QED
      BY <3>1
  <2>2. CASE ClientPing
    <3>1. Heard("PingReq", client.key, <<client.pings + 1>>)
      BY <1>1, <2>2 DEF ClientPing, FromClient, Clients
    <3> QED
      BY <3>1
  <2>3. CASE ClientTime \/ ClientChange \/ ClientPull \/ ClientChat \/ ClientAsks
    <3>1. PICK name, info : name # "PingReq" /\ Asks(name, info)
      BY <2>3 DEF ClientTime, ClientChange, ClientPull, ClientChat, ClientAsks
    <3>2. client'.pings = client.pings
      BY <1>1, <2>3 DEF ClientTime, ClientChange, ClientPull, ClientChat, ClientAsks, Clients
    <3>3. Heard(name, client.key, info)
      BY <3>1, <3>2 DEF Asks, FromClient
    <3> QED
      BY <3>3
  <2> QED
    BY <2>1, <2>2, <2>3
<1>3. PICK name, key, info : Heard(name, key, info)
  BY <1>2
<1>4. PICK pkt : ClientSays(pkt)
  BY SaysDoes
<1> DEFINE q == inq["endpoint"]
           said == Packet(name, key, "endpoint", info)
<1>5. /\ q \in Seq(Requests) /\ pkt \in Requests /\ inq'["endpoint"] = Append(q, pkt)
  BY <1>4, ArrivesKeep, Queues, SidesDiffer DEF ClientSays, Arrives, From
<1>6. inq'["endpoint"] = Append(q, said)
  BY <1>3, Queues, SidesDiffer
<1>7. said.name = name /\ said.key = key /\ said.info = info
  BY DEF Packet
<1> HIDE DEF q, said
<1>8. pkt = said
  <2>1. q \in Seq(Requests \cup {said}) /\ pkt \in Requests \cup {said} /\ said \in Requests \cup {said}
    BY <1>5
  <2>2. Append(q, pkt)[Len(q) + 1] = pkt /\ Append(q, said)[Len(q) + 1] = said
    BY <2>1, AppendItems
  <2> QED
    BY <1>5, <1>6, <2>2
<1> QED
  BY <1>3, <1>4, <1>7, <1>8 DEF IsPing

\* The key of the session, once it is known, stays.
LEMMA KeyStays ==
  ASSUME TInv, LoginOK, NEW t \in Sides, Handle(t), loginKey = SessionKey
  PROVE  loginKey' = SessionKey
<1>1. CASE OnGetPlayerTokenRsp(t)
  <2>1. /\ t = "upstream" /\ g[t].pc = "handle" /\ g[t].pkt.name = "GetPlayerTokenRsp"
        /\ loginKey' = Key(loginRand, Seed)
    BY <1>1, TokenRspDoes
  <2>2. Token(6)
    BY <2>1 DEF Token, Place
  <2> HIDE DEF Token
  <2>3. loginRand = Rand
    BY <2>2 DEF LoginOK
  <2> QED
    BY <2>1, <2>3 DEF SessionKey
<1>2. CASE OnGetPlayerTokenReq(t)
  BY <1>2, TokenReqDoes
<1> QED
  BY <1>1, <1>2, HandleKeys DEF keys

LEMMA KeyStep ==
  ASSUME IInv, IInv', KeyOK, [Next]_vars
  PROVE  KeyOK'
<1>1. TInv /\ LoginOK /\ LoginOK'
  BY DEF IInv
<1>2. inq["endpoint"] \in Seq(Requests)
  BY <1>1, Queues, SidesDiffer DEF From
<1>3. ASSUME loginKey = SessionKey => loginKey' = SessionKey, client' = client,
             Items(inq'["endpoint"]) \subseteq Items(inq["endpoint"])
      PROVE  KeyOK'
  BY <1>3 DEF KeyOK
<1>4. CASE UNCHANGED vars
  BY <1>4 DEF vars, transports, keys, KeyOK
<1>5. ASSUME NEW t \in Sides, Handle(t)
      PROVE  KeyOK'
  <2>1. client' = client /\ inq' = inq
    BY <1>1, <1>5, HandleDoes DEF Handled, Aside, transports
  <2> QED
    BY <1>1, <1>3, <1>5, <2>1, KeyStays
<1>6. ASSUME NEW t \in Sides, ReadPayload(t)
      PROVE  KeyOK'
  <2>1. /\ UNCHANGED <<keys, client>> /\ inq[t] # <<>> /\ inq'[t] = Tail(inq[t])
        /\ \A s \in Sides \ {t} : inq'[s] = inq[s]
    BY <1>1, <1>6, ReadDoes
  <2>2. Items(inq'["endpoint"]) \subseteq Items(inq["endpoint"])
    <3>1. CASE t = "endpoint"
      BY <1>2, <2>1, <3>1, TailItems
    <3>2. CASE t # "endpoint"
      BY <2>1, <3>2, SidesDiffer
    <3> QED
      BY <3>1, <3>2
  <2> QED
    BY <1>3, <2>1, <2>2 DEF keys
<1>7. ASSUME NEW t \in Sides, PayloadFails(t) \/ SendOn(t) \/ CloseTransport(t)
      PROVE  KeyOK'
  <2>1. UNCHANGED <<inq, keys, client>>
    BY <1>1, <1>7, FailsDoes, SendOnDoes DEF Aside, transports, CloseTransport
  <2> QED
    BY <1>3, <2>1 DEF keys
<1>8. CASE ClientReads
  <2>1. UNCHANGED <<inq, keys>>
    BY <1>1, <1>8, ClientReadsDoes DEF transports
  <2>2. client'.key # Shared => client.key # Shared \/ client'.state = "in"
    BY <1>1, <1>8, ClientAt DEF ClientReads, ClientGets, Clients
  <2>3. client'.key # Shared => loginKey' = SessionKey
    BY <1>1, <2>1, <2>2 DEF KeyOK, LoginOK, keys
  <2> QED
    BY <2>1, <2>3 DEF KeyOK, keys
<1>9. CASE ClientStep /\ ~ClientReads
  <2>1. PICK pkt : ClientSays(pkt) /\ pkt.key \in {Shared, client.key}
    BY <1>1, <1>9, SaysHow DEF ClientStep
  <2>2. /\ inq'["endpoint"] = Append(inq["endpoint"], pkt) /\ pkt \in Requests
        /\ loginKey' = loginKey /\ client'.key = client.key
    BY <1>1, <2>1, ArrivesKeep, SidesDiffer DEF ClientSays, ClientOnly, Arrives, keys, From
  <2>3. Items(inq'["endpoint"]) = Items(inq["endpoint"]) \cup {pkt}
    BY <1>2, <2>2, AppendItems
  <2> QED
    BY <2>1, <2>2, <2>3 DEF KeyOK
<1>10. CASE ServerReads \/ ServerPush
  <2>1. UNCHANGED <<keys, client>>
    BY <1>1, <1>10, ServerReadsDoes, PushDoes
  <2>2. inq'["endpoint"] = inq["endpoint"]
    <3>1. CASE ServerReads
      BY <1>1, <3>1, ServerReadsDoes, ArrivesKeep, SidesDiffer
    <3>2. CASE ServerPush
      BY <1>1, <3>2, PushDoes, ArrivesKeep, SidesDiffer
    <3> QED
      BY <1>10, <3>1, <3>2
  <2> QED
    BY <1>3, <2>1, <2>2 DEF keys
<1> QED
  BY <1>4, <1>5, <1>6, <1>7, <1>8, <1>9, <1>10 DEF Next, Goroutine

\* A handler lets a ping go on with its number.
LEMMA PingHandled ==
  ASSUME TInv, NEW t \in Sides, Handle(t)
  PROVE  /\ IsPing(g'["endpoint"].pkt) <=> IsPing(g["endpoint"].pkt)
         /\ IsPing(g["endpoint"].pkt) => g'["endpoint"].pkt.info = g["endpoint"].pkt.info
<1>1. Moves(t)
  BY HandleDoes DEF Handled
<1>2. CASE t = "endpoint" /\ IsPing(g[t].pkt)
  <2>1. g[t].pkt.name = "PingReq"
    BY <1>2 DEF IsPing
  <2>2. HandlePlain(t)
    <3>1. ~OnPullPrivateChatReq(t) /\ ~OnGetPlayerFriendListRsp(t) /\ ~OnMarkMapReq(t)
      BY <2>1 DEF OnPullPrivateChatReq, OnGetPlayerFriendListRsp, OnMarkMapReq, At
    <3>2. ~OnPrivateChatReq(t) /\ ~SendConsoleAnswer(t) /\ ~SendPrivateChatRsp(t)
      BY <2>1, ChatDoes
    <3>3. /\ ~OnGetPlayerTokenReq(t) /\ ~OnGetPlayerTokenRsp(t) /\ ~OnClientSetGameTimeReq(t)
          /\ ~OnChangeGameTimeRsp(t) /\ ~OnPullRecentChatReq(t) /\ ~OnPullRecentChatRsp(t)
      BY <2>1 DEF OnGetPlayerTokenReq, OnGetPlayerTokenRsp, OnClientSetGameTimeReq,
                  OnChangeGameTimeRsp, OnPullRecentChatReq, OnPullRecentChatRsp, At
    <3>4. ~SendChangeGameTimeReq(t) /\ ~ReadTime(t) /\ ~ClearTime(t) /\ ~SendClientSetGameTimeRsp(t)
      BY <2>1, SendChangeDoes, ReadTimeDoes, ClearTimeDoes, AnswerDoes
    <3> QED
      BY <3>1, <3>2, <3>3, <3>4 DEF Handle
  <2>3. g[t].pc = "handle" /\ PassOn(t, g[t].pkt.info)
    BY <2>2 DEF HandlePlain
  <2>4. /\ g[t].pkt.info \in Seq(Nat)
        /\ Shaped(Packet(g[t].pkt.name, g[t].pkt.key, Opposite(t), g[t].pkt.info))
    BY <2>1, <2>3, SideOf, ShapedOther
  <2>5. g'[t].pkt.name = g[t].pkt.name /\ g'[t].pkt.info = g[t].pkt.info
    BY <2>3, <2>4, Passes
  <2> QED
    BY <1>2, <2>5 DEF IsPing
<1>3. CASE t = "endpoint" /\ ~IsPing(g[t].pkt)
  BY <1>1, <1>3 DEF Moves, IsPing
<1>4. CASE t # "endpoint"
  BY <1>1, <1>4, SidesDiffer DEF Moves
<1> QED
  BY <1>2, <1>3, <1>4

\* A packet in hand, and the same after a handler.
LEMMA PingingKeeps ==
  ASSUME NEW told, NEW out, NEW pkt, NEW in, NEW last \in Nat, NEW new,
         IsPing(new) <=> IsPing(pkt), IsPing(pkt) => new.info = pkt.info,
         Len(told) \in Nat, Pinging(told, out, pkt, in, last)
  PROVE  Pinging(told, out, new, in, last)
<1>1. PICK a \in Len(told)..last, b \in Len(told)..last :
        a <= b /\ Carries(out, Len(told), a) /\ Carries(<<pkt>>, a, b) /\ Carries(in, b, last)
  BY DEF Pinging
<1>2. a \in Int /\ b \in Int
  OBVIOUS
<1>3. Carries(<<new>>, a, b)
  BY <1>1, <1>2, CarriesOne
<1> QED
  BY <1>1, <1>3 DEF Pinging

\* A packet goes from one place to the next.
LEMMA PingingMoves ==
  ASSUME NEW S, NEW told \in Seq(Nat), NEW out \in Seq(S), NEW pkt \in S, NEW in \in Seq(S),
         NEW last \in Nat, Pinging(told, out, pkt, in, last)
  PROVE  /\ \A new \in S : IsPing(new) /\ new.info = <<last + 1>> =>
              Pinging(told, out, pkt, Append(in, new), last + 1)
         /\ \A new \in S : ~IsPing(new) => Pinging(told, out, pkt, Append(in, new), last)
         /\ \A new \in S : ~IsPing(new) => Pinging(told, Append(out, new), pkt, in, last)
         /\ in # <<>> /\ ~IsPing(pkt) => Pinging(told, out, Head(in), Tail(in), last)
         /\ \A new \in S : \A none :
              (IsPing(new) <=> IsPing(pkt)) /\ (IsPing(pkt) => new.info = pkt.info)
                /\ ~IsPing(none) => Pinging(told, Append(out, new), none, in, last)
         /\ out # <<>> =>
              Pinging(IF IsPing(Head(out)) THEN told \o Head(out).info ELSE told,
                      Tail(out), pkt, in, last)
<1> DEFINE n == Len(told)
<1>1. n \in Nat /\ told = [i \in 1..n |-> i]
  BY LenProperties DEF Pinging
<1>2. PICK a \in n..last, b \in n..last :
        a <= b /\ Carries(out, n, a) /\ Carries(<<pkt>>, a, b) /\ Carries(in, b, last)
  BY DEF Pinging
<1>3. a \in Int /\ b \in Int /\ n <= a /\ a <= b /\ b <= last /\ n \in Int /\ last \in Int
  BY <1>1, <1>2
<1> HIDE DEF n
<1>4. \A out2, pkt2, in2, last2, a2, b2 :
        /\ a2 \in n..last2 /\ b2 \in n..last2 /\ a2 <= b2
        /\ Carries(out2, n, a2) /\ Carries(<<pkt2>>, a2, b2) /\ Carries(in2, b2, last2)
        => Pinging(told, out2, pkt2, in2, last2)
  BY <1>1 DEF Pinging, n
<1>5. ASSUME NEW new \in S, IsPing(new), new.info = <<last + 1>>
      PROVE  Pinging(told, out, pkt, Append(in, new), last + 1)
  <2>1. Carries(Append(in, new), b, last + 1)
    BY <1>2, <1>3, <1>5, CarriesAppend
  <2>2. a \in n..(last + 1) /\ b \in n..(last + 1)
    BY <1>3
  <2> QED
    BY <1>2, <1>4, <2>1, <2>2
<1>6. ASSUME NEW new \in S, ~IsPing(new)
      PROVE  /\ Pinging(told, out, pkt, Append(in, new), last)
             /\ Pinging(told, Append(out, new), pkt, in, last)
  <2>1. Carries(Append(in, new), b, last) /\ Carries(Append(out, new), n, a)
    BY <1>2, <1>3, <1>6, CarriesAppend
  <2> QED
    BY <1>2, <1>4, <2>1
<1>7. ASSUME in # <<>>, ~IsPing(pkt)
      PROVE  Pinging(told, out, Head(in), Tail(in), last)
  <2>1. a = b
    BY <1>2, <1>3, <1>7, CarriesOne
  <2>2. CASE IsPing(Head(in))
    <3>1. b + 1 <= last /\ Head(in).info = <<b + 1>> /\ Carries(Tail(in), b + 1, last)
      BY <1>2, <1>3, <1>7, <2>2, CarriesTail
    <3>2. b + 1 \in n..last /\ b + 1 \in Int /\ b <= b + 1
      BY <1>3, <3>1
    <3>3. Carries(<<Head(in)>>, b, b + 1)
      BY <1>3, <2>2, <3>1, <3>2, CarriesOne
    <3> QED
      BY <1>2, <1>4, <2>1, <3>1, <3>2, <3>3
  <2>3. CASE ~IsPing(Head(in))
    <3>1. Carries(Tail(in), b, last)
      BY <1>2, <1>3, <1>7, <2>3, CarriesTail
    <3>2. Carries(<<Head(in)>>, b, b) /\ b <= b
      BY <1>3, <2>3, CarriesOne
    <3> QED
      BY <1>2, <1>4, <2>1, <3>1, <3>2
  <2> QED
    BY <2>2, <2>3
<1>8. ASSUME NEW new \in S, NEW none, IsPing(new) <=> IsPing(pkt),
             IsPing(pkt) => new.info = pkt.info, ~IsPing(none)
      PROVE  Pinging(told, Append(out, new), none, in, last)
  <2>1. Carries(Append(out, new), n, b)
    <3>1. CASE IsPing(pkt)
      <4>1. b = a + 1 /\ pkt.info = <<b>>
        BY <1>2, <1>3, <3>1, CarriesOne
      <4>2. IsPing(new) /\ new.info = <<a + 1>>
        BY <1>8, <3>1, <4>1
      <4> QED
        BY <1>2, <1>3, <4>1, <4>2, CarriesAppend
    <3>2. CASE ~IsPing(pkt)
      <4>1. a = b
        BY <1>2, <1>3, <3>2, CarriesOne
      <4> QED
        BY <1>2, <1>3, <1>8, <3>2, <4>1, CarriesAppend
    <3> QED
      BY <3>1, <3>2
  <2>2. Carries(<<none>>, b, b) /\ b <= b
    BY <1>3, <1>8, CarriesOne
  <2> QED
    BY <1>2, <1>4, <2>1, <2>2
<1>9. ASSUME out # <<>>
      PROVE  Pinging(IF IsPing(Head(out)) THEN told \o Head(out).info ELSE told,
                     Tail(out), pkt, in, last)
  <2>1. CASE ~IsPing(Head(out))
    <3>1. Carries(Tail(out), n, a)
      BY <1>2, <1>3, <1>9, <2>1, CarriesTail
    <3> QED
      BY <1>2, <1>4, <2>1, <3>1
  <2>2. CASE IsPing(Head(out))
    <3>1. n + 1 <= a /\ Head(out).info = <<n + 1>> /\ Carries(Tail(out), n + 1, a)
      BY <1>2, <1>3, <1>9, <2>2, CarriesTail
    <3> DEFINE more == told \o <<n + 1>>
    <3>2. /\ Len(more) = n + 1 /\ DOMAIN more = 1..(n + 1)
          /\ more = [i \in 1..(n + 1) |-> i]
      <4>1. <<n + 1>> \in Seq(Nat) /\ Len(<<n + 1>>) = 1 /\ <<n + 1>>[1] = n + 1
        BY <1>1
      <4>2. /\ more \in Seq(Nat) /\ Len(more) = n + 1
            /\ \A i \in 1..(n + 1) : more[i] = IF i <= n THEN told[i] ELSE <<n + 1>>[i - n]
        BY <1>1, <4>1, ConcatProperties DEF n
      <4>3. DOMAIN more = 1..(n + 1)
        BY <4>2, LenProperties
      <4>4. \A i \in 1..(n + 1) : more[i] = i
        <5> SUFFICES ASSUME NEW i \in 1..(n + 1)
                     PROVE  more[i] = i
          OBVIOUS
        <5> HIDE DEF more
        <5>1. CASE i <= n
          BY <1>1, <4>2, <5>1
        <5>2. CASE i = n + 1
          <6>1. i - n = 1 /\ ~(i <= n)
            BY <1>1, <5>2
          <6> QED
            BY <4>1, <4>2, <5>2, <6>1
        <5> QED
          BY <1>1, <5>1, <5>2
      <4> HIDE DEF more
      <4>5. more = [i \in 1..Len(more) |-> more[i]]
        BY <4>2, SeqDef
      <4> QED
        BY <4>2, <4>3, <4>4, <4>5
    <3> HIDE DEF more
    <3>3. a \in (n + 1)..last /\ b \in (n + 1)..last
      BY <1>1, <1>3, <3>1
    <3>4. Pinging(more, Tail(out), pkt, in, last)
      BY <1>2, <3>1, <3>2, <3>3 DEF Pinging
    <3> QED
      BY <2>2, <3>1, <3>4 DEF more
  <2> QED
    BY <2>1, <2>2
<1> QED
  BY <1>5, <1>6, <1>7, <1>8, <1>9

LEMMA PingStep ==
  ASSUME IInv, KeyOK, PingsPass, [Next]_vars
  PROVE  PingsPass'
<1> DEFINE told == server.pings
           out == outq["upstream"]
           pkt == g["endpoint"].pkt
           in == inq["endpoint"]
           last == client.pings
           S == Requests \cup {NoPacket}
<1>1. TInv /\ LoginOK /\ Understood
  BY DEF IInv
<1>2. /\ told \in Seq(Nat) /\ out \in Seq(S) /\ in \in Seq(S) /\ pkt \in S /\ last \in Nat
      /\ Len(told) \in Nat
  <2>1. out \in Seq(Requests) /\ in \in Seq(Requests)
    BY <1>1, Queues, SidesDiffer DEF From, To
  <2>2. told \in Seq(Nat) /\ last \in Nat
    BY <1>1, ServerAt, ClientAt DEF ClientFields
  <2>3. pkt \in S
    <3>1. Is("endpoint", g["endpoint"])
      BY <1>1, SidesDiffer DEF TInv, GoroutinesOK
    <3> QED
      BY <3>1 DEF Is, EndpointAt
  <2> QED
    BY <2>1, <2>2, <2>3, LenProperties
<1>3. ~IsPing(NoPacket)
  BY DEF IsPing, NoPacket, Packet
<1> SUFFICES ASSUME closed' = {}
             PROVE  Pinging(told', out', pkt', in', last')
  BY DEF Pinging, PingsPass
<1>4. closed = {}
  <2>1. UNCHANGED closed \/ \E t \in Sides : CloseTransport(t)
    <3>1. ASSUME NEW t \in Sides, Goroutine(t) PROVE UNCHANGED closed
      BY <1>1, <3>1, HandleDoes, ReadDoes, FailsDoes, SendOnDoes DEF Goroutine, Handled, Aside, transports
    <3>2. ASSUME ClientStep PROVE UNCHANGED closed
      BY <1>1, <3>2, SaysDoes, ClientReadsDoes DEF ClientStep, ClientSays, ClientOnly, transports
    <3>3. ASSUME ServerReads \/ ServerPush PROVE UNCHANGED closed
      BY <1>1, <3>3, ServerReadsDoes, PushDoes
    <3>4. ASSUME UNCHANGED vars PROVE UNCHANGED closed
      BY <3>4 DEF vars, transports
    <3> QED
      BY <3>1, <3>2, <3>3, <3>4 DEF Next
  <2> QED
    BY <2>1 DEF CloseTransport
<1>5. Pinging(told, out, pkt, in, last)
  BY <1>4, PingsPassIs
<1> HIDE DEF told, out, pkt, in, last, S
<1>6. ASSUME UNCHANGED <<told, out, pkt, in, last>>
      PROVE  Pinging(told', out', pkt', in', last')
  BY <1>5, <1>6
<1>7. CASE UNCHANGED vars
  BY <1>6, <1>7 DEF vars, transports, told, out, pkt, in, last
<1>8. ASSUME NEW t \in Sides, Handle(t)
      PROVE  Pinging(told', out', pkt', in', last')
  <2>1. Handled(t) /\ told' = told /\ in' = in /\ last' = last
    BY <1>1, <1>8, HandleDoes DEF Handled, Aside, transports, told, in, last
  <2>2. (IsPing(pkt') <=> IsPing(pkt)) /\ (IsPing(pkt) => pkt'.info = pkt.info)
    BY <1>1, <1>8, PingHandled DEF pkt
  <2>3. Pinging(told, out, pkt', in, last)
    BY <1>2, <1>5, <2>2, PingingKeeps
  <2>4. out' = out \/ \E new \in Requests : out' = Append(out, new) /\ ~IsPing(new)
    <3>1. CASE outq' = outq
      BY <3>1 DEF out
    <3>2. CASE \E to \in Sides, new \in ToClient \cup Requests : Sends(to, new) /\ new.name \in Extras
      <4>1. PICK to \in Sides, new \in ToClient \cup Requests : Sends(to, new) /\ new.name \in Extras
        BY <3>2
      <4>2. ~IsPing(new)
        BY <4>1 DEF IsPing, Extras
      <4>3. CASE to = "upstream"
        <5>1. out' = Append(out, new) /\ new \in Requests
          BY <1>1, <1>4, <4>1, <4>3, SendsKeep DEF out, Sends, To
        <5> QED
          BY <4>2, <5>1
      <4>4. CASE to # "upstream"
        BY <1>1, <4>1, <4>4, SendsKeep, SidesDiffer DEF out
      <4> QED
        BY <4>3, <4>4
    <3> QED
      BY <2>1, <3>1, <3>2 DEF Handled
  <2>5. CASE out' = out
    BY <2>1, <2>3, <2>5
  <2>6. CASE \E new \in Requests : out' = Append(out, new) /\ ~IsPing(new)
    <3>1. PICK new \in Requests : out' = Append(out, new) /\ ~IsPing(new)
      BY <2>6
    <3>2. new \in S
      BY DEF S
    <3>3. Pinging(told, out', pkt, in, last)
      BY <1>2, <1>5, <3>1, <3>2, PingingMoves
    <3>4. Pinging(told, out', pkt', in, last)
      BY <1>2, <2>2, <3>3, PingingKeeps
    <3> QED
      BY <2>1, <3>4
  <2> QED
    BY <2>4, <2>5, <2>6
<1>9. ASSUME NEW t \in Sides, ReadPayload(t)
      PROVE  Pinging(told', out', pkt', in', last')
  <2>1. /\ g[t].pkt = NoPacket /\ inq[t] # <<>> /\ inq'[t] = Tail(inq[t])
        /\ \A s \in Sides \ {t} : inq'[s] = inq[s] /\ g'[s] = g[s]
        /\ UNCHANGED <<outq, client, server>>
        /\ Decrypts(Head(inq[t])) => g'[t].pkt = Head(inq[t])
    BY <1>1, <1>9, ReadDoes
  <2>2. told' = told /\ out' = out /\ last' = last
    BY <2>1 DEF told, out, last
  <2>3. CASE t = "endpoint"
    <3>1. in # <<>> /\ in' = Tail(in) /\ pkt = NoPacket
      BY <2>1, <2>3 DEF in, pkt
    <3>2. Decrypts(Head(in))
      <4>1. in \in Seq(Requests)
        BY <1>1, Queues, SidesDiffer DEF From, in
      <4>2. Head(in) \in Items(in) /\ Head(in) \in Requests
        BY <3>1, <4>1, TailItems
      <4>3. Head(in).key \in {Shared, SessionKey}
        BY <4>2, PacketFields DEF Requests, Keys
      <4>4. Head(in).key # Shared => loginKey = SessionKey
        BY <4>2 DEF KeyOK, in
      <4> QED
        BY <4>3, <4>4 DEF Decrypts
    <3>3. pkt' = Head(in)
      BY <2>1, <2>3, <3>2 DEF in, pkt
    <3>4. Pinging(told, out, Head(in), Tail(in), last)
      BY <1>2, <1>3, <1>5, <3>1, PingingMoves
    <3> QED
      BY <2>2, <3>1, <3>3, <3>4
  <2>4. CASE t # "endpoint"
    <3>1. in' = in /\ pkt' = pkt
      BY <2>1, <2>4, SidesDiffer DEF in, pkt
    <3> QED
      BY <1>6, <2>2, <3>1
  <2> QED
    BY <2>3, <2>4
<1>10. ASSUME NEW t \in Sides, PayloadFails(t)
       PROVE  Pinging(told', out', pkt', in', last')
  BY <1>1, <1>4, <1>10 DEF PayloadFails, TInv, StopOK
<1>11. ASSUME NEW t \in Sides, SendOn(t)
       PROVE  Pinging(told', out', pkt', in', last')
  <2>1. PICK new : /\ Sends(Opposite(t), new) /\ new.name = g[t].pkt.name
                   /\ new.info = g[t].pkt.info
    BY <1>1, <1>11, SendOnDoes
  <2>2. /\ g'[t].pkt = NoPacket /\ \A s \in Sides \ {t} : g'[s] = g[s]
        /\ told' = told /\ in' = in /\ last' = last
    BY <1>1, <1>11, SendOnDoes DEF Aside, transports, told, in, last
  <2>3. CASE t = "endpoint"
    <3>1. out' = Append(out, new) /\ new \in S
      BY <1>1, <1>4, <2>1, <2>3, SendsKeep, SidesDiffer DEF out, Sends, To, S
    <3>2. (IsPing(new) <=> IsPing(pkt)) /\ (IsPing(pkt) => new.info = pkt.info) /\ pkt' = NoPacket
      BY <2>1, <2>2, <2>3 DEF pkt, IsPing
    <3>3. Pinging(told, Append(out, new), NoPacket, in, last)
      BY <1>2, <1>3, <1>5, <3>1, <3>2, PingingMoves
    <3> QED
      BY <2>2, <3>1, <3>2, <3>3
  <2>4. CASE t # "endpoint"
    <3>1. Opposite(t) = "endpoint"
      BY <2>4, SidesDiffer
    <3>2. out' = out /\ pkt' = pkt
      BY <1>1, <2>1, <2>2, <2>4, <3>1, SendsKeep, SidesDiffer DEF out, pkt
    <3> QED
      BY <1>6, <2>2, <3>2
  <2> QED
    BY <2>3, <2>4
<1>12. CASE ClientReads
  <2>1. last' = last
    BY <1>1, <1>12, ClientAt DEF ClientReads, ClientGets, Clients, last
  <2>2. /\ UNCHANGED <<transports, g, server>> /\ outq["endpoint"] # <<>>
        /\ outq' = [outq EXCEPT !["endpoint"] = Tail(@)]
    BY <1>1, <1>12, ClientReadsDoes
  <2>3. out' = out
    BY <1>1, <2>2, TakesDoes, SidesDiffer DEF out
  <2> QED
    BY <1>6, <2>1, <2>2, <2>3 DEF transports, told, pkt, in
<1>13. CASE ClientStep /\ ~ClientReads
  <2>1. PICK new : /\ ClientSays(new)
                   /\ IF IsPing(new) THEN new.info = <<last + 1>> /\ last' = last + 1
                                     ELSE last' = last
    BY <1>1, <1>13, SaysHow DEF ClientStep, last
  <2>2. /\ in' = Append(in, new) /\ new \in S /\ told' = told /\ out' = out /\ pkt' = pkt
    BY <1>1, <2>1, ArrivesKeep, SidesDiffer DEF ClientSays, ClientOnly, Arrives, From, told, out, pkt, in, S
  <2>3. CASE IsPing(new)
    BY <1>2, <1>5, <2>1, <2>2, <2>3, PingingMoves
  <2>4. CASE ~IsPing(new)
    BY <1>2, <1>5, <2>1, <2>2, <2>4, PingingMoves
  <2> QED
    BY <2>3, <2>4
<1>14. CASE ServerReads
  <2>1. /\ out # <<>> /\ out' = Tail(out) /\ pkt' = pkt /\ last' = last
    <3>1. /\ outq["upstream"] # <<>> /\ outq' = [outq EXCEPT !["upstream"] = Tail(@)]
          /\ UNCHANGED <<g, client>>
      BY <1>1, <1>14, ServerReadsDoes
    <3> QED
      BY <1>1, <3>1, TakesDoes, SidesDiffer DEF out, pkt, last
  <2>2. in' = in
    BY <1>1, <1>14, ServerReadsDoes, ArrivesKeep, SidesDiffer DEF in
  <2>3. told' = IF IsPing(Head(out)) THEN told \o Head(out).info ELSE told
    <3>1. out \in Seq(Requests)
      BY <1>1, Queues, SidesDiffer DEF To, out
    <3>2. Head(out) = out[1] /\ 1 \in DOMAIN out
      <4>1. Head(out) = out[1] /\ Len(out) \in Nat \ {0} /\ DOMAIN out = 1..Len(out)
        BY <2>1, <3>1, TailItems
      <4> QED
        BY <4>1
    <3>3. Opens(server.key, Head(out))
      BY <1>1, <3>2 DEF Understood, ServerCan, Opens, out
    <3>4. server' = ServerGets(Head(out))
      BY <1>14, <3>3 DEF ServerReads, out
    <3>5. server \in Servers
      BY <1>1, ServerAt
    <3>6. CASE IsPing(Head(out))
      <4>1. server' = [server EXCEPT !.pings = server.pings \o Head(out).info]
        BY <3>4, <3>6 DEF ServerGets, IsPing
      <4> QED
        BY <3>5, <3>6, <4>1 DEF Servers, told
    <3>7. CASE ~IsPing(Head(out))
      BY <3>4, <3>5, <3>7 DEF ServerGets, IsPing, Servers, told
    <3> QED
      BY <3>6, <3>7
  <2>4. Pinging(IF IsPing(Head(out)) THEN told \o Head(out).info ELSE told,
                Tail(out), pkt, in, last)
    BY <1>2, <1>5, <2>1, PingingMoves
  <2> QED
    BY <2>1, <2>2, <2>3, <2>4
<1>15. CASE ServerPush
  <2>1. told' = told
    BY <1>1, <1>15, ServerAt DEF ServerPush, Servers, told
  <2>2. UNCHANGED <<outq, g, client>> /\ inq'["endpoint"] = inq["endpoint"]
    BY <1>1, <1>15, PushDoes, ArrivesKeep, SidesDiffer
  <2> QED
    BY <1>6, <2>1, <2>2 DEF out, pkt, in, last
<1>16. ASSUME NEW t \in Sides, CloseTransport(t)
       PROVE  Pinging(told', out', pkt', in', last')
  BY <1>16 DEF CloseTransport
<1> QED
  BY <1>7, <1>8, <1>9, <1>10, <1>11, <1>12, <1>13, <1>14, <1>15, <1>16 DEF Next, Goroutine

LEMMA InitKeys == Init => KeyOK
<1> SUFFICES ASSUME Init
             PROVE  KeyOK
  OBVIOUS
<1>1. inq["endpoint"] = <<>> /\ client.key = Shared
  BY SidesDiffer DEF Init
<1> QED
  BY <1>1, EmptyItems DEF KeyOK

\* As long as both transports are open, the server has the first pings of the
\* client, and the rest is on its way in order: no ping is lost to the change
\* of keys, however many are under way and whichever goroutine has the key.
THEOREM PingsPassHolds == Spec => []PingsPass
<1>1. Init => IInv /\ KeyOK /\ PingsPass
  <2> SUFFICES ASSUME Init
               PROVE  PingsPass
    BY InitInv, InitKeys
  <2>1. /\ inq["endpoint"] = <<>> /\ outq["upstream"] = <<>> /\ g["endpoint"].pkt = NoPacket
        /\ server.pings = <<>> /\ client.pings = 0
    BY SidesDiffer DEF Init
  <2>2. Pinging(<<>>, <<>>, NoPacket, <<>>, 0)
    <3>1. Len(<<>>) = 0 /\ <<>> = [i \in 1..0 |-> i] /\ 0 \in 0..0
      OBVIOUS
    <3>2. Carries(<<>>, 0, 0)
      BY CarriesNone
    <3>3. Carries(<<NoPacket>>, 0, 0)
      BY CarriesOne DEF IsPing, NoPacket, Packet
    <3> QED
      BY <3>1, <3>2, <3>3 DEF Pinging
  <2> QED
    BY <2>1, <2>2, PingsPassIs
<1>2. (IInv /\ KeyOK /\ PingsPass) /\ [Next]_vars => (IInv /\ KeyOK /\ PingsPass)'
  BY NextInv, KeyStep, PingStep
<1> QED
  BY <1>1, <1>2, PTL DEF Spec

-----------------------------------------------------------------------------
(* What the proxy can decrypt of the server's packets.                     *)

\* The answer of the exchange has been read from the server's side.
TokenRead == loginKey = SessionKey \/ g["upstream"].pkt.name = "GetPlayerTokenRsp"

\* As on the client's side: up to the answer all is under the shared key, after
\* it nothing is.
Heard ==
  /\ ClientCan(inq["upstream"], TokenRead)
  /\ server.key = SessionKey <=> TokenRead \/ Has(inq["upstream"], "GetPlayerTokenRsp")

LEMMA HeardSame ==
  ASSUME Heard, inq'["upstream"] = inq["upstream"], TokenRead' <=> TokenRead,
         server'.key = server.key
  PROVE  Heard'
<1>1. TokenRead' = TokenRead
  OBVIOUS
<1> HIDE DEF TokenRead
<1> QED
  BY <1>1 DEF Heard

LEMMA HeardRead ==
  ASSUME TInv, Heard, ReadPayload("upstream")
  PROVE  Heard' /\ Decrypts(Head(inq["upstream"]))
<1> DEFINE q == inq["upstream"]
           pkt == Head(q)
           known == loginKey = SessionKey
<1>1. /\ g["upstream"].pkt = NoPacket /\ q # <<>> /\ inq'["upstream"] = Tail(q)
      /\ UNCHANGED <<keys, server>> /\ q \in Seq(Answers)
      /\ Decrypts(pkt) => g'["upstream"].pkt = pkt
  BY ReadDoes, Queues, SidesDiffer DEF From
<1>2. TokenRead <=> known
  BY <1>1 DEF TokenRead, NoPacket, Packet
<1>3. ClientCan(q, known)
  <2>1. TokenRead = known
    BY <1>2
  <2> QED
    BY <2>1 DEF Heard
<1>4. /\ pkt.key = IF known THEN SessionKey ELSE Shared
      /\ ClientCan(Tail(q), known \/ pkt.name = "GetPlayerTokenRsp")
  BY <1>1, <1>3, TailCan
<1>5. Decrypts(pkt)
  BY <1>4 DEF Decrypts
<1>6. TokenRead' <=> known \/ pkt.name = "GetPlayerTokenRsp"
  BY <1>1, <1>5 DEF TokenRead, keys
<1>7. ClientCan(Tail(q), TokenRead')
  <2>1. TokenRead' = (known \/ pkt.name = "GetPlayerTokenRsp")
    BY <1>6
  <2> HIDE DEF TokenRead
  <2> QED
    BY <1>4, <2>1
<1>8. Has(q, "GetPlayerTokenRsp") <=>
        pkt.name = "GetPlayerTokenRsp" \/ Has(Tail(q), "GetPlayerTokenRsp")
  BY <1>1, TailItems DEF Has
<1> HIDE DEF TokenRead
<1> QED
  BY <1>1, <1>2, <1>5, <1>6, <1>7, <1>8 DEF Heard

\* The server sends under its key, or the answer.
LEMMA HeardMore ==
  ASSUME TInv, Heard, NEW pkt, Arrives("upstream", pkt), UNCHANGED <<g, keys>>,
         pkt.key = KeyOf(pkt.name), server.key # SessionKey \/ pkt.name # "GetPlayerTokenRsp",
         server'.key = IF pkt.name = "GetPlayerTokenRsp" THEN SessionKey ELSE server.key
  PROVE  Heard'
<1> DEFINE q == inq["upstream"]
           has == Has(q, "GetPlayerTokenRsp")
<1>1. q \in Seq(Answers) /\ pkt \in Answers /\ inq'["upstream"] = Append(q, pkt)
  BY Queues, ArrivesKeep, SidesDiffer DEF From, Arrives
<1>2. TokenRead' = TokenRead
  BY DEF TokenRead, keys
<1>3. ClientCan(q, TokenRead) /\ (server.key = SessionKey <=> TokenRead \/ has)
  BY DEF Heard
<1>4. pkt.key = IF TokenRead \/ has THEN SessionKey ELSE Shared
  <2>1. server.key \in {Shared, SessionKey}
    BY ServerAt DEF Keys
  <2> HIDE DEF TokenRead, has
  <2> QED
    BY <1>3, <2>1 DEF KeyOf
<1>5. ClientCan(Append(q, pkt), TokenRead)
  <2> HIDE DEF TokenRead, q
  <2> QED
    BY <1>1, <1>3, <1>4, AppendCan DEF has
<1>6. Has(Append(q, pkt), "GetPlayerTokenRsp") <=> has \/ pkt.name = "GetPlayerTokenRsp"
  BY <1>1, AppendHas
<1> HIDE DEF TokenRead, q, has
<1> QED
  BY <1>1, <1>2, <1>3, <1>5, <1>6 DEF Heard, q

LEMMA HeardHandled ==
  ASSUME TInv, LoginOK, Heard, NEW t \in Sides, Handle(t)
  PROVE  Heard'
<1>1. Moves(t) /\ inq' = inq /\ server' = server
  BY HandleDoes DEF Handled, Aside, transports
<1>2. CASE OnGetPlayerTokenRsp(t)
  <2>1. TokenRead /\ TokenRead'
    BY <1>2, TokenRspDoes DEF TokenRead
  <2> QED
    BY <1>1, <2>1, HeardSame
<1>3. CASE ~OnGetPlayerTokenRsp(t)
  <2>1. loginKey' = loginKey
    BY <1>3, HandleKeys, TokenReqDoes DEF keys
  <2>2. t = "upstream" => g[t].pkt.name # "GetPlayerTokenRsp"
    BY <1>3, HandleKeys, TokenReqDoes
  <2>3. g'["upstream"].pkt.name = "GetPlayerTokenRsp" <=> g["upstream"].pkt.name = "GetPlayerTokenRsp"
    <3>1. CASE t = "upstream"
      <4>1. g'[t].pkt.name \in {g[t].pkt.name, "none"}
        BY <1>1 DEF Moves, NoPacket, Packet
      <4> QED
        BY <2>2, <3>1, <4>1
    <3>2. CASE t # "upstream"
      BY <1>1, <3>2, SidesDiffer DEF Moves
    <3> QED
      BY <3>1, <3>2
  <2>4. TokenRead' <=> TokenRead
    BY <2>1, <2>3 DEF TokenRead
  <2> QED
    BY <1>1, <2>4, HeardSame
<1> QED
  BY <1>2, <1>3

LEMMA HeardStep ==
  ASSUME IInv, Heard, [Next]_vars
  PROVE  Heard'
<1>1. TInv /\ LoginOK
  BY DEF IInv
<1>2. ASSUME inq'["upstream"] = inq["upstream"], g'["upstream"] = g["upstream"],
             loginKey' = loginKey, server'.key = server.key
      PROVE  Heard'
  BY <1>2, HeardSame DEF TokenRead
<1>3. CASE UNCHANGED vars
  BY <1>2, <1>3 DEF vars, transports, keys
<1>4. ASSUME NEW t \in Sides, Handle(t)
      PROVE  Heard'
  BY <1>1, <1>4, HeardHandled
<1>5. ASSUME NEW t \in Sides, ReadPayload(t)
      PROVE  Heard'
  <2>1. CASE t = "upstream"
    BY <1>1, <1>5, <2>1, HeardRead
  <2>2. CASE t = "endpoint"
    <3>1. /\ inq'["upstream"] = inq["upstream"] /\ g'["upstream"] = g["upstream"]
          /\ UNCHANGED <<keys, server>>
      BY <1>1, <1>5, <2>2, ReadDoes, SidesDiffer
    <3> QED
      BY <1>2, <3>1 DEF keys
  <2> QED
    BY <2>1, <2>2, SidesDiffer
<1>6. ASSUME NEW t \in Sides, PayloadFails(t)
      PROVE  Heard'
  <2>1. /\ g'["upstream"] = g["upstream"] /\ UNCHANGED <<transports, keys, server>>
    BY <1>1, <1>6, FailsDoes, SidesDiffer
  <2> QED
    BY <1>2, <2>1 DEF keys, transports
<1>7. ASSUME NEW t \in Sides, SendOn(t)
      PROVE  Heard'
  <2>1. /\ UNCHANGED <<inq, keys, server>> /\ \A s \in Sides \ {t} : g'[s] = g[s]
        /\ g[t].pc = "send" /\ g'[t].pkt = NoPacket
    BY <1>1, <1>7, SendOnDoes DEF Aside, transports
  <2>2. CASE t = "upstream"
    <3>1. g["upstream"].pkt.name = "GetPlayerTokenRsp" => Token(7)
      BY <2>1, <2>2 DEF Token, Place
    <3>2. g["upstream"].pkt.name = "GetPlayerTokenRsp" => loginKey = SessionKey
      <4> HIDE DEF Token
      <4> QED
        BY <1>1, <3>1 DEF LoginOK
    <3>3. TokenRead' <=> TokenRead
      BY <2>1, <2>2, <3>2 DEF TokenRead, NoPacket, Packet, keys
    <3> QED
      BY <2>1, <3>3, HeardSame
  <2>3. CASE t # "upstream"
    BY <1>2, <2>1, <2>3, SidesDiffer DEF keys
  <2> QED
    BY <2>2, <2>3
<1>8. ASSUME NEW t \in Sides, CloseTransport(t)
      PROVE  Heard'
  BY <1>2, <1>8 DEF CloseTransport, keys
<1>9. CASE ClientStep
  <2>1. UNCHANGED <<g, keys, server>> /\ inq'["upstream"] = inq["upstream"]
    <3>1. CASE ClientReads
      BY <1>1, <3>1, ClientReadsDoes DEF transports
    <3>2. CASE ~ClientReads
      <4>1. PICK pkt : ClientSays(pkt)
        BY <1>1, <1>9, <3>2, SaysDoes DEF ClientStep
      <4> QED
        BY <1>1, <4>1, ArrivesKeep, SidesDiffer DEF ClientSays, ClientOnly
    <3> QED
      BY <3>1, <3>2
  <2> QED
    BY <1>2, <2>1 DEF keys
<1>10. CASE ServerReads
  <2> DEFINE pkt == Head(outq["upstream"])
  <2>1. UNCHANGED <<g, keys>> /\ outq["upstream"] # <<>>
    BY <1>1, <1>10, ServerReadsDoes
  <2>2. CASE UNCHANGED <<inq, server>>
    BY <1>2, <2>1, <2>2 DEF keys
  <2>3. CASE inq' = inq /\ server'.key = server.key
    BY <1>2, <2>1, <2>3 DEF keys
  <2>4. ASSUME NEW answer, Arrives("upstream", answer), answer.key = KeyOf(answer.name),
               answer.name = "GetPlayerTokenRsp" <=> pkt.name = "GetPlayerTokenReq",
               server'.key = IF pkt.name = "GetPlayerTokenReq" THEN SessionKey ELSE server.key
        PROVE  Heard'
    <3>1. pkt.name = "GetPlayerTokenReq" => server.key = Shared
      <4>1. outq["upstream"] \in Seq(Requests)
        BY <1>1, Queues, SidesDiffer DEF To
      <4>2. pkt.name = "GetPlayerTokenReq" => Token(4)
        BY <2>1, <4>1, TailItems DEF Token, Place, Has
      <4> HIDE DEF Token
      <4> QED
        BY <1>1, <4>2 DEF LoginOK
    <3>2. server.key # SessionKey \/ answer.name # "GetPlayerTokenRsp"
      BY <2>4, <3>1, KeysDiffer
    <3>3. server'.key = IF answer.name = "GetPlayerTokenRsp" THEN SessionKey ELSE server.key
      BY <2>4
    <3> QED
      BY <1>1, <2>1, <2>4, <3>2, <3>3, HeardMore
  <2> QED
    BY <1>1, <1>10, <2>2, <2>3, <2>4, ServerReadsDoes
<1>11. CASE ServerPush
  <2>1. PICK pkt : Arrives("upstream", pkt) /\ pkt.name = "Notify" /\ pkt.key = server.key
    BY <1>1, <1>11, PushDoes
  <2>2. UNCHANGED <<g, keys>> /\ server'.key = server.key
    BY <1>1, <1>11, PushDoes
  <2>3. pkt.name # "GetPlayerTokenRsp"
    BY <2>1
  <2> QED
    BY <1>1, <2>1, <2>2, <2>3, HeardMore DEF KeyOf
<1> QED
  BY <1>3, <1>4, <1>5, <1>6, <1>7, <1>8, <1>9, <1>10, <1>11 DEF Next, Goroutine

LEMMA InitHeard == Init => Heard
<1> SUFFICES ASSUME Init
             PROVE  Heard
  OBVIOUS
<1>1. /\ inq["upstream"] = <<>> /\ g["upstream"].pkt = NoPacket
      /\ loginKey = Shared /\ server.key = Shared
  BY SidesDiffer DEF Init
<1>2. ~TokenRead
  BY <1>1, KeysDiffer DEF TokenRead, NoPacket, Packet
<1>3. DOMAIN <<>> = {}
  OBVIOUS
<1>4. ClientCan(<<>>, TokenRead)
  BY <1>3 DEF ClientCan
<1> HIDE DEF TokenRead
<1> QED
  BY <1>1, <1>2, <1>4, EmptyItems, KeysDiffer DEF Heard

\* A goroutine that is about to read can decrypt what it reads.
ProxyUnderstands ==
  \A t \in Sides : g[t].pc = "payload" /\ inq[t] # <<>> => Decrypts(Head(inq[t]))

LEMMA UnderstandsIs == IInv /\ KeyOK /\ Heard => ProxyUnderstands
<1> SUFFICES ASSUME IInv, KeyOK, Heard, NEW t \in Sides, g[t].pc = "payload", inq[t] # <<>>
             PROVE  Decrypts(Head(inq[t]))
  BY DEF ProxyUnderstands
<1>1. TInv
  BY DEF IInv
<1> DEFINE pkt == Head(inq[t])
<1>2. CASE t = "endpoint"
  <2>1. inq[t] \in Seq(Requests)
    BY <1>1, <1>2, Queues, SidesDiffer DEF From
  <2>2. pkt \in Items(inq["endpoint"]) /\ pkt \in Requests
    BY <1>2, <2>1, TailItems
  <2>3. pkt.key \in {Shared, SessionKey}
    BY <2>2, PacketFields DEF Requests, Keys
  <2> QED
    BY <2>2, <2>3 DEF KeyOK, Decrypts
<1>3. CASE t = "upstream"
  <2> DEFINE known == loginKey = SessionKey
  <2>1. inq[t] \in Seq(Answers)
    BY <1>1, <1>3, Queues, SidesDiffer DEF From
  <2>2. TokenRead = known
    <3>1. g[t].pkt = NoPacket
      BY <1>1, Where
    <3> QED
      BY <1>3, <3>1 DEF TokenRead, NoPacket, Packet
  <2>3. ClientCan(inq[t], known)
    <3> HIDE DEF TokenRead, known
    <3> QED
      BY <1>3, <2>2 DEF Heard
  <2>4. pkt.key = IF known THEN SessionKey ELSE Shared
    BY <2>1, <2>3, TailCan
  <2> QED
    BY <2>4 DEF Decrypts
<1> QED
  BY <1>2, <1>3, SidesDiffer

\* The proxy drops no payload for want of a key: whichever goroutine reads, the
\* login key is then the one its packet is under, or the packet is under the
\* shared one, although the other goroutine changes the key.
THEOREM ProxyUnderstandsHolds == Spec => []ProxyUnderstands
<1>1. Init => IInv /\ KeyOK /\ Heard
  BY InitInv, InitKeys, InitHeard
<1>2. (IInv /\ KeyOK /\ Heard) /\ [Next]_vars => (IInv /\ KeyOK /\ Heard)'
  BY NextInv, KeyStep, HeardStep
<1>3. IInv /\ KeyOK /\ Heard => ProxyUnderstands
  BY UnderstandsIs
<1> QED
  BY <1>1, <1>2, <1>3, PTL DEF Spec
=============================================================================
