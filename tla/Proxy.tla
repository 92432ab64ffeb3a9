------------------------------- MODULE Proxy -------------------------------
(***************************************************************************)
(* One forwarding session of internal/core: the client's transport         *)
(* (endpoint), the main server's (upstream), and the two goroutines of     *)
(* Forward, which share loginRand, loginKey, playerUid and the engine's    *)
(* two caches without a lock.  A goroutine's steps are cut between any two *)
(* accesses to what they share, but for two: SendPacket reads the key and  *)
(* sends in one step, OnGetPlayerTokenRsp writes playerUid and loginKey in *)
(* one.  The keys are written while the client waits for that answer, when *)
(* its goroutine sends nothing and answers nothing.                        *)
(*                                                                         *)
(* The transports are the reliable streams of MessagePipe, far from their  *)
(* limits.  The two protocols differ and know the same messages.  Client   *)
(* and server are external: the client logs in once, when it has no other  *)
(* business; it asks before it is answered.                                *)
(***************************************************************************)
EXTENDS Integers, Sequences

CONSTANTS
  Patient,   \* whether the client has one request of a kind under way at most
  Talks,     \* what the client says once it is logged in
  Leaves,    \* the sides that may close their transport
  MaxSends,  \* bound: packets the client sends after the first
  MaxPushes  \* bound: packets the server sends unasked

ASSUME ProxyConstants ==
  /\ Patient \in BOOLEAN /\ MaxSends \in Nat /\ MaxPushes \in Nat
  /\ Talks \subseteq {"PingReq", "ClientSetGameTimeReq", "ChangeGameTimeReq",
                      "PrivateChatReq", "PullPrivateChatReq", "PullRecentChatReq",
                      "GetPlayerFriendListReq", "MarkMapReq"}
  /\ Leaves \subseteq {"endpoint", "upstream"}

\* A side is also the name of the protocol that is spoken there.
Sides == {"endpoint", "upstream"}
Opposite(t) == IF t = "endpoint" THEN "upstream" ELSE "endpoint"

Uid == 7           \* the player
ConsoleUid == 1

\* Keys.  No login key is Shared: the first packets are under the shared one.
Shared == <<>>
Key(rand, seed) == <<rand, seed>>

\* lang is the protocol of the body, info the numbers in it that matter here.
Packet(name, key, lang, info) == [name |-> name, key |-> key, lang |-> lang, info |-> info]
NoPacket == Packet("none", Shared, "endpoint", <<>>)

VARIABLES
  inq,       \* packets that wait to be read from each side
  outq,      \* packets on their way to each side
  closed,    \* the sides whose transport is closed
  ctxDone,   \* the sides whose transport's context is cancelled
  g,         \* the two goroutines of Forward: program counter, packet, times read
  wg,        \* the wait group's counter
  loginRand, loginKey, playerUid,
  cachedPullRecentChat, cachedClientSetGameTime,  \* 0 or -1 for nil
  client,    \* external: state, key, requests under way
  server     \* external: key, the pings it has read, packets it has sent unasked

keys == <<loginRand, loginKey, playerUid>>
caches == <<cachedPullRecentChat, cachedClientSetGameTime>>
transports == <<inq, closed, ctxDone>>
vars == <<transports, outq, g, wg, keys, caches, client, server>>

\* Forward has just been called: wg.Add(1), and two goroutines.
Init ==
  /\ inq = [t \in Sides |-> <<>>] /\ outq = [t \in Sides |-> <<>>]
  /\ closed = {} /\ ctxDone = {}
  /\ g = [t \in Sides |-> [pc |-> "payload", pkt |-> NoPacket, times |-> <<>>]]
  /\ wg = 1
  /\ loginRand = 0 /\ loginKey = Shared /\ playerUid = 0
  /\ cachedPullRecentChat = -1 /\ cachedClientSetGameTime = 0
  /\ client = [state |-> "new", key |-> Shared, sends |-> 0, pings |-> 0, time |-> 0,
               change |-> FALSE, pull |-> -1]
  /\ server = [key |-> Shared, pings |-> <<>>, pushes |-> 0]

-----------------------------------------------------------------------------
(* Sending and decrypting.                                                 *)

\* Mutant: without the second look, only the current key is tried.
Decrypts_NoRevert(pkt) == pkt.key = loginKey

\* EncryptPayload of what was read: the login key, reverted if that gives no
\* packet, then the shared one.
Decrypts(pkt) == pkt.key \in {loginKey, Shared}

\* Mutant: no exception for the exchange itself.
KeyFor_Always(name) == loginKey

\* SendPacket: the two packets of the exchange are under the shared key.
KeyFor(name) ==
  IF name \in {"GetPlayerTokenReq", "GetPlayerTokenRsp"} THEN Shared ELSE loginKey

\* What is sent over a closed transport stays in its control block.
SendPacket(t, name, lang, info) ==
  outq' = IF t \in closed THEN outq
          ELSE [outq EXCEPT ![t] = Append(@, Packet(name, KeyFor(name), lang, info))]

-----------------------------------------------------------------------------
(* The goroutine of side t: Payload, ConvertPayload, SendPacket.           *)

At(t, pc, name) == g[t].pc = pc /\ g[t].pkt.name = name
Go(t, pc) == g' = [g EXCEPT ![t].pc = pc]
\* The body is translated and goes on to the other side; or the bytes that
\* were read go on as they are, "injected" having been returned.
PassOn(t, info) ==
  g' = [g EXCEPT ![t].pc = "send", ![t].pkt.lang = Opposite(t), ![t].pkt.info = info]
PassRaw(t) == Go(t, "send")

\* A payload that no key opens is dropped.
ReadPayload(t) ==
  /\ g[t].pc = "payload" /\ inq[t] # <<>>
  /\ inq' = [inq EXCEPT ![t] = Tail(@)]
  /\ IF Decrypts(Head(inq[t]))
     THEN g' = [g EXCEPT ![t].pc = "handle", ![t].pkt = Head(inq[t])]
     ELSE UNCHANGED g
  /\ UNCHANGED <<closed, ctxDone, outq, wg, keys, caches, client, server>>

\* defer wg.Done()
PayloadFails(t) ==
  /\ g[t].pc = "payload" /\ t \in ctxDone
  /\ Go(t, "ended") /\ wg' = wg - 1
  /\ UNCHANGED <<transports, outq, keys, caches, client, server>>

SendOn(t) ==
  /\ g[t].pc = "send"
  /\ SendPacket(Opposite(t), g[t].pkt.name, g[t].pkt.lang, g[t].pkt.info)
  /\ g' = [g EXCEPT ![t].pc = "payload", ![t].pkt = NoPacket]
  /\ UNCHANGED <<transports, wg, keys, caches, client, server>>

\* SendPacketJSON from within a handler.
Inject(t, pc, next, to, name, lang, info) ==
  /\ g[t].pc = pc
  /\ SendPacket(to, name, lang, info)
  /\ Go(t, next)
  /\ UNCHANGED <<transports, wg, keys, caches, client, server>>

\* The messages without a handler.
HandlePlain(t) ==
  /\ g[t].pc = "handle"
  /\ g[t].pkt.name \in {"PingReq", "ChangeGameTimeReq", "GetPlayerFriendListReq", "Notify"}
  /\ PassOn(t, g[t].pkt.info)
  /\ UNCHANGED <<transports, outq, wg, keys, caches, client, server>>

-----------------------------------------------------------------------------
(* handler_login.go                                                        *)

OnGetPlayerTokenReq(t) ==
  /\ At(t, "handle", "GetPlayerTokenReq")
  /\ loginRand' = g[t].pkt.info[1]
  /\ PassOn(t, g[t].pkt.info)
  /\ UNCHANGED <<transports, outq, wg, loginKey, playerUid, caches, client, server>>

\* Mutant: the seed of the server alone.
NewKeyBlock_SeedOnly(rand, seed) == Key(0, seed)

NewKeyBlock(rand, seed) == Key(rand, seed)

OnGetPlayerTokenRsp(t) ==
  /\ At(t, "handle", "GetPlayerTokenRsp")
  /\ playerUid' = Uid
  /\ loginKey' = NewKeyBlock(loginRand, g[t].pkt.info[1])
  /\ PassOn(t, g[t].pkt.info)
  /\ UNCHANGED <<transports, outq, wg, loginRand, caches, client, server>>

-----------------------------------------------------------------------------
(* handler_engine.go: game time.  The request is cached, a request of the  *)
(* kind the server knows is sent, and the client's own as well.            *)

OnClientSetGameTimeReq(t) ==
  /\ At(t, "handle", "ClientSetGameTimeReq")
  /\ cachedClientSetGameTime' = g[t].pkt.info[1]
  /\ Go(t, "change")
  /\ UNCHANGED <<transports, outq, wg, keys, cachedPullRecentChat, client, server>>

\* Mutant: the request goes back to the client.
SendChangeGameTimeReq_ToEndpoint(t) ==
  Inject(t, "change", "send", "endpoint", "ChangeGameTimeReq", "upstream", g[t].pkt.info)

SendChangeGameTimeReq(t) ==
  Inject(t, "change", "send", "upstream", "ChangeGameTimeReq", "upstream", g[t].pkt.info)

OnChangeGameTimeRsp(t) ==
  /\ At(t, "handle", "ChangeGameTimeRsp")
  /\ IF cachedClientSetGameTime = 0 THEN PassOn(t, g[t].pkt.info) ELSE Go(t, "game")
  /\ UNCHANGED <<transports, outq, wg, keys, caches, client, server>>

\* GameTime and ClientGameTime are read one after the other.
ReadTime(t) ==
  /\ g[t].pc \in {"game", "clientGame"}
  /\ g' = [g EXCEPT ![t].pc = IF @ = "game" THEN "clientGame" ELSE "clear",
                    ![t].times = Append(@, cachedClientSetGameTime)]
  /\ UNCHANGED <<transports, outq, wg, keys, caches, client, server>>

\* Mutant: the cached request is not forgotten.
Forgotten_Kept(cached) == cached

Forgotten(cached) == 0

ClearTime(t) ==
  /\ g[t].pc = "clear"
  /\ cachedClientSetGameTime' = Forgotten(cachedClientSetGameTime)
  /\ Go(t, "answer")
  /\ UNCHANGED <<transports, outq, wg, keys, cachedPullRecentChat, client, server>>

SendClientSetGameTimeRsp(t) ==
  /\ g[t].pc = "answer"
  /\ SendPacket("endpoint", "ClientSetGameTimeRsp", "endpoint", g[t].times)
  /\ g' = [g EXCEPT ![t].pc = "send", ![t].times = <<>>]
  /\ UNCHANGED <<transports, wg, keys, caches, client, server>>

-----------------------------------------------------------------------------
(* handler_engine.go: the console, which is enabled.  PrivateChatReq is one *)
(* addressed to it (others have no handler), info tells whether there is a  *)
(* text.  The console itself only answers.                                  *)

\* First the player's own words, then the console's.
OnPrivateChatReq(t) ==
  /\ At(t, "handle", "PrivateChatReq")
  /\ SendPacket("endpoint", "PrivateChatNotify", t, <<playerUid>>)
  /\ IF g[t].pkt.info = <<0>> THEN PassOn(t, g[t].pkt.info) ELSE Go(t, "execute")
  /\ UNCHANGED <<transports, wg, keys, caches, client, server>>

SendConsoleAnswer(t) ==
  Inject(t, "execute", "respond", "endpoint", "PrivateChatNotify", t, <<playerUid>>)

\* To the client, but in the protocol of the server.
SendPrivateChatRsp(t) ==
  Inject(t, "respond", "send", "endpoint", "PrivateChatRsp", Opposite(t), <<>>)

\* A pull of the chat with the console: the answer is made, and not sent.
OnPullPrivateChatReq(t) ==
  /\ At(t, "handle", "PullPrivateChatReq")
  /\ PassRaw(t)
  /\ UNCHANGED <<transports, outq, wg, keys, caches, client, server>>

\* The console is one more friend.
OnGetPlayerFriendListRsp(t) ==
  /\ At(t, "handle", "GetPlayerFriendListRsp")
  /\ PassOn(t, Append(g[t].pkt.info, ConsoleUid))
  /\ UNCHANGED <<transports, outq, wg, keys, caches, client, server>>

\* A mark named "goto": the console's command may fail, then the packet is
\* dropped, else it goes on untranslated.
OnMarkMapReq(t) ==
  /\ At(t, "handle", "MarkMapReq")
  /\ \/ PassRaw(t)
     \/ g' = [g EXCEPT ![t].pc = "payload", ![t].pkt = NoPacket]
  /\ UNCHANGED <<transports, outq, wg, keys, caches, client, server>>

\* Mutant: every pull is cached.
Cached_Any(cached, begin) == begin

\* Only a pull from the start, that is, with BeginSequence 0.
Cached(cached, begin) == IF begin = 0 THEN 0 ELSE cached

OnPullRecentChatReq(t) ==
  /\ At(t, "handle", "PullRecentChatReq")
  /\ cachedPullRecentChat' = Cached(cachedPullRecentChat, g[t].pkt.info[1])
  /\ PassOn(t, g[t].pkt.info)
  /\ UNCHANGED <<transports, outq, wg, keys, cachedClientSetGameTime, client, server>>

\* Mutant: the cache is not emptied.
Pulled_Kept(cached) == cached

Pulled(cached) == -1

\* The check and the clearing are two accesses, but nobody else clears and
\* what anybody else writes is 0.
OnPullRecentChatRsp(t) ==
  /\ At(t, "handle", "PullRecentChatRsp")
  /\ IF cachedPullRecentChat # 0
     THEN PassOn(t, g[t].pkt.info) /\ UNCHANGED cachedPullRecentChat
     ELSE /\ cachedPullRecentChat' = Pulled(cachedPullRecentChat)
          /\ PassOn(t, Append(g[t].pkt.info, ConsoleUid))     \* the welcome
  /\ UNCHANGED <<transports, outq, wg, keys, cachedClientSetGameTime, client, server>>

-----------------------------------------------------------------------------
(* The client and the server.                                              *)

Rand == 3
Seed == 4

FromClient(name, key, info) ==
  inq' = [inq EXCEPT !["endpoint"] = Append(@, Packet(name, key, "endpoint", info))]
FromServer(name, key, info) ==
  inq' = [inq EXCEPT !["upstream"] = Append(@, Packet(name, key, "upstream", info))]

ClientLogin ==
  /\ client.state = "new" /\ "endpoint" \notin closed
  /\ FromClient("GetPlayerTokenReq", Shared, <<Rand>>)
  /\ client' = [client EXCEPT !.state = "waiting"]
  /\ UNCHANGED <<closed, ctxDone, outq, g, wg, keys, caches, server>>

\* Pings are sent at any time after the first packet.
ClientPing ==
  /\ "PingReq" \in Talks /\ client.state # "new" /\ "endpoint" \notin closed
  /\ client.sends < MaxSends
  /\ FromClient("PingReq", client.key, <<client.pings + 1>>)
  /\ client' = [client EXCEPT !.sends = @ + 1, !.pings = @ + 1]
  /\ UNCHANGED <<closed, ctxDone, outq, g, wg, keys, caches, server>>

Asks(name, info) ==
  /\ name \in Talks /\ client.state = "in" /\ "endpoint" \notin closed
  /\ client.sends < MaxSends
  /\ FromClient(name, client.key, info)
  /\ UNCHANGED <<closed, ctxDone, outq, g, wg, keys, caches, server>>

\* A request for a time is known by its number.
ClientTime ==
  /\ Patient => client.time = 0 /\ ~client.change
  /\ Asks("ClientSetGameTimeReq", <<client.sends + 1>>)
  /\ client' = [client EXCEPT !.sends = @ + 1, !.time = client.sends + 1]

ClientChange ==
  /\ Patient => client.time = 0 /\ ~client.change
  /\ Asks("ChangeGameTimeReq", <<>>)
  /\ client' = [client EXCEPT !.sends = @ + 1, !.change = TRUE]

ClientPull ==
  /\ Patient => client.pull = -1
  /\ \E begin \in 0..1 :
       /\ Asks("PullRecentChatReq", <<begin>>)
       /\ client' = [client EXCEPT !.sends = @ + 1, !.pull = begin]

ClientChat ==
  /\ \E text \in 0..1 : Asks("PrivateChatReq", <<text>>)
  /\ client' = [client EXCEPT !.sends = @ + 1]

ClientAsks ==
  /\ \E name \in {"MarkMapReq", "PullPrivateChatReq", "GetPlayerFriendListReq"} : Asks(name, <<>>)
  /\ client' = [client EXCEPT !.sends = @ + 1]

\* What a peer's key does not open, nor the shared one, is dropped.
Opens(key, pkt) == pkt.key \in {key, Shared}

ClientGets(pkt) ==
  CASE pkt.name = "GetPlayerTokenRsp" ->
         [client EXCEPT !.state = "in", !.key = Key(Rand, pkt.info[1])]
    [] pkt.name = "ClientSetGameTimeRsp" -> [client EXCEPT !.time = 0]
    [] pkt.name = "ChangeGameTimeRsp" -> [client EXCEPT !.change = FALSE]
    [] pkt.name = "PullRecentChatRsp" -> [client EXCEPT !.pull = -1]
    [] OTHER -> client

ClientReads ==
  /\ outq["endpoint"] # <<>> /\ "endpoint" \notin closed
  /\ LET pkt == Head(outq["endpoint"])
     IN  client' = IF Opens(client.key, pkt) THEN ClientGets(pkt) ELSE client
  /\ outq' = [outq EXCEPT !["endpoint"] = Tail(@)]
  /\ UNCHANGED <<transports, g, wg, keys, caches, server>>

ServerGets(pkt) ==
  CASE pkt.name = "GetPlayerTokenReq" -> [server EXCEPT !.key = Key(pkt.info[1], Seed)]
    [] pkt.name = "PingReq" -> [server EXCEPT !.pings = @ \o pkt.info]
    [] OTHER -> server

\* The server answers what it knows; of a ClientSetGameTimeReq, of chat with
\* the console and of marks it knows nothing.
Reply(pkt) ==
  CASE pkt.name = "GetPlayerTokenReq" -> FromServer("GetPlayerTokenRsp", Shared, <<Seed>>)
    [] pkt.name = "ChangeGameTimeReq" -> FromServer("ChangeGameTimeRsp", server.key, <<>>)
    [] pkt.name = "PullRecentChatReq" -> FromServer("PullRecentChatRsp", server.key, pkt.info)
    [] pkt.name = "GetPlayerFriendListReq" -> FromServer("GetPlayerFriendListRsp", server.key, <<>>)
    [] OTHER -> UNCHANGED inq

ServerReads ==
  /\ outq["upstream"] # <<>> /\ "upstream" \notin closed
  /\ LET pkt == Head(outq["upstream"])
     IN  IF Opens(server.key, pkt)
         THEN Reply(pkt) /\ server' = ServerGets(pkt)
         ELSE UNCHANGED <<inq, server>>
  /\ outq' = [outq EXCEPT !["upstream"] = Tail(@)]
  /\ UNCHANGED <<closed, ctxDone, g, wg, keys, caches, client>>

ServerPush ==
  /\ server.pushes < MaxPushes /\ "upstream" \notin closed
  /\ FromServer("Notify", server.key, <<>>)
  /\ server' = [server EXCEPT !.pushes = @ + 1]
  /\ UNCHANGED <<closed, ctxDone, outq, g, wg, keys, caches, client>>

\* Mutant: closing any session cancels its context.
Cancels_Any(t) == TRUE

\* closeSession: a dialed session returns before ctxCancel.
Cancels(t) == t = "endpoint"

\* A FIN, or the listener, closes the session.
CloseTransport(t) ==
  /\ t \in Leaves /\ t \notin closed
  /\ closed' = closed \cup {t}
  /\ ctxDone' = IF Cancels(t) THEN ctxDone \cup {t} ELSE ctxDone
  /\ UNCHANGED <<inq, outq, g, wg, keys, caches, client, server>>

-----------------------------------------------------------------------------
Handle(t) ==
  \/ HandlePlain(t) \/ OnGetPlayerTokenReq(t) \/ OnGetPlayerTokenRsp(t)
  \/ OnClientSetGameTimeReq(t) \/ SendChangeGameTimeReq(t)
  \/ OnChangeGameTimeRsp(t) \/ ReadTime(t) \/ ClearTime(t) \/ SendClientSetGameTimeRsp(t)
  \/ OnPrivateChatReq(t) \/ SendConsoleAnswer(t) \/ SendPrivateChatRsp(t)
  \/ OnPullPrivateChatReq(t) \/ OnGetPlayerFriendListRsp(t)
  \/ OnMarkMapReq(t) \/ OnPullRecentChatReq(t) \/ OnPullRecentChatRsp(t)

Goroutine(t) == ReadPayload(t) \/ PayloadFails(t) \/ Handle(t) \/ SendOn(t)

ClientStep ==
  \/ ClientLogin \/ ClientPing \/ ClientTime \/ ClientChange \/ ClientPull \/ ClientChat
  \/ ClientAsks \/ ClientReads

Next ==
  \/ \E t \in Sides : Goroutine(t) \/ CloseTransport(t)
  \/ ClientStep \/ ServerReads \/ ServerPush

Spec == Init /\ [][Next]_vars

\* Goroutines run, and both peers read what is sent to them.
Fairness ==
  /\ \A t \in Sides : WF_vars(Goroutine(t))
  /\ WF_vars(ClientReads) /\ WF_vars(ServerReads)

FairSpec == Spec /\ Fairness

-----------------------------------------------------------------------------
(* Properties.                                                             *)

PacketOK(pkt) == /\ pkt.key \in {Shared, Key(Rand, Seed)} /\ pkt.lang \in Sides
                 /\ pkt.info \in Seq(Nat)

\* The types of the variables.
TypeOK ==
  /\ \A t \in Sides : /\ \A i \in DOMAIN inq[t] : PacketOK(inq[t][i])
                      /\ \A i \in DOMAIN outq[t] : PacketOK(outq[t][i])
                      /\ PacketOK(g[t].pkt) /\ g[t].times \in Seq(Nat)
  /\ closed \subseteq Leaves /\ ctxDone \subseteq closed
  /\ wg \in Int
  /\ loginRand \in {0, Rand} /\ loginKey \in {Shared, Key(Rand, Seed)} /\ playerUid \in {0, Uid}
  /\ cachedPullRecentChat \in {-1, 0} /\ cachedClientSetGameTime \in 0..MaxSends

\* The client can decrypt what comes: up to GetPlayerTokenRsp all packets are
\* under the shared key, after it none is, whichever goroutine sent them.
ClientUnderstands ==
  LET q == outq["endpoint"]
  IN  \A i \in DOMAIN q :
        LET in == client.state = "in" \/ \E j \in 1..(i - 1) : q[j].name = "GetPlayerTokenRsp"
        IN  q[i].key = IF in THEN Key(Rand, Seed) ELSE Shared

\* The server can decrypt what comes, with its key or the shared one, and
\* nothing comes under the shared key after something under its own.
ServerUnderstands ==
  LET q == outq["upstream"]
  IN  \A i \in DOMAIN q :
        /\ q[i].key \in {Shared, server.key}
        /\ \A j \in 1..(i - 1) : q[j].key # Shared => q[i].key # Shared

\* The pings in q are those after the a-th up to the b-th, in order.
Carries(q, a, b) ==
  LET pings == {i \in DOMAIN q : q[i].name = "PingReq"}
  IN  /\ {q[i].info : i \in pings} = {<<n>> : n \in (a + 1)..b}
      /\ \A i, j \in pings : i < j => q[i].info[1] < q[j].info[1]

\* The change of keys in the middle of the stream loses nothing: the server
\* gets every ping of the client, in order, those included that were sent
\* before the answer that brings the new key.
PingsPass ==
  closed = {} =>
    /\ server.pings = [i \in 1..Len(server.pings) |-> i]
    /\ \E a, b \in Len(server.pings)..client.pings :
         /\ a <= b
         /\ Carries(outq["upstream"], Len(server.pings), a)
         /\ Carries(<<g["endpoint"].pkt>>, a, b)
         /\ Carries(inq["endpoint"], b, client.pings)

\* A client that waits for its answers is told the two times of its own
\* request.  One that does not wait can have its request overwritten, and is
\* told the times of two requests: that client is not Patient.
AnsweredWithOwn ==
  \A i \in DOMAIN outq["endpoint"] :
    LET pkt == outq["endpoint"][i]
    IN  pkt.name = "ClientSetGameTimeRsp" =>
          client.time # 0 /\ pkt.info = <<client.time, client.time>>

\* The console's welcome comes with the recent chat that was pulled from the
\* start, and only with that.
WelcomedOnce ==
  \A i \in DOMAIN outq["endpoint"] :
    LET pkt == outq["endpoint"][i]
    IN  pkt.name = "PullRecentChatRsp" =>
          pkt.info = IF client.pull = 0 THEN <<0, ConsoleUid>> ELSE <<1>>

\* Two goroutines call Done on a wait group of one.  The process survives
\* because closing a dialed session does not cancel its context.
NoNegativeCounter == wg >= 0

\* The exchange of keys comes to an end.
LoggedIn == client.state = "waiting" ~> client.state = "in" \/ closed # {}

\* A request for a time is answered: its answer is not taken for that of a
\* ChangeGameTimeReq, nor the cache emptied before its turn.
TimeAnswered == client.time # 0 ~> client.time = 0 \/ closed # {}

\* docs/README.md, "Map the downstream client protocol version to the
\* `ViaGenshin` listening port": to the clients of that port the proxy speaks
\* their own protocol.
ClientProtocol ==
  \A i \in DOMAIN outq["endpoint"] : outq["endpoint"][i].lang = "endpoint"
=============================================================================
