--------------------------- MODULE SessionManager ---------------------------
(***************************************************************************)
(* The life of a connection in pkg/transport/kcp: one Listener with its    *)
(* sessionManager (session_manager.go, kcpsock.go), and the sessions that  *)
(* other goroutines open to it with Dial (session.go).  SYN, ACK and FIN   *)
(* are control datagrams; a KCP datagram is just SEG, with the two numbers *)
(* that Input checks.  What SEG carries is the business of Kcp.            *)
(*                                                                         *)
(* Concurrent on the side of the listener: the goroutine that reads its    *)
(* socket, one handler goroutine per session, the ones that Accept, Close  *)
(* and disconnect.  On the other side: the reader of each dialed socket    *)
(* and the caller of Dial.  All dialed sessions belong to one process.     *)
(***************************************************************************)
EXTENDS Naturals, Sequences, FiniteSets

CONSTANTS
  Addrs,        \* the UDP addresses that dial, once each
  Sids,         \* the session ids the random generator can return
  PendingCap,   \* capacity of the channel of sessions to accept
  Lossy,        \* whether the network may lose a datagram
  Duplication,  \* whether it may deliver one again
  Reuse,        \* whether the generator may return an id a second time
  Resyn,        \* whether a client may repeat SYN, with the ids it was given if any
  Calls,        \* the closing calls the listener's users make (none in this repository)
  MaxSessions,  \* bound: sessions the listener creates
  MaxNet        \* bound: no segment is sent while so many datagrams are in flight

\* The generator could return 0, which every SYN carries: all later clients
\* would then be given the first one's session.
ASSUME SessionConstants ==
  /\ Sids \subseteq Nat \ {0}
  /\ PendingCap \in Nat \ {0} /\ MaxSessions \in Nat /\ MaxNet \in Nat
  /\ Lossy \in BOOLEAN /\ Duplication \in BOOLEAN /\ Reuse \in BOOLEAN
  /\ Resyn \in BOOLEAN
  /\ Calls \subseteq {"Close", "CloseSession", "DisconnectSession"}

VARIABLES
  manager,     \* "running", "closing" (close() waits, with the lock), "released", "closed"
  sessions,    \* the sessions the manager has created; the nth has convID n
  conns,       \* m.conns: session id -> session
  pending,     \* m.pending
  accepted,    \* the sessions Accept has returned
  reader,      \* the reader goroutine: what is left to do for the datagram it has read
  leaving,     \* disconnectSession calls between deleteSession and closeSession
  dial,        \* the dialed sessions
  unmanaged,   \* unmanaged.conns: session id -> address of the dialed session
  panicked,    \* whether the dialing process has died of a nil control block
  net,         \* datagrams in flight
  heard        \* history: <<session, address>> for each SEG that Input took

listenerVars == <<manager, sessions, conns, pending, accepted, leaving>>
dialerVars == <<dial, unmanaged, panicked>>
vars == <<listenerVars, reader, dialerVars, net, heard>>

Datagram == [peer : Addrs, dir : {"up", "down"}, cmd : {"SYN", "ACK", "FIN", "SEG"},
             conv : Nat, sid : Nat]
Up(a, cmd, conv, sid) == [peer |-> a, dir |-> "up", cmd |-> cmd, conv |-> conv, sid |-> sid]
Down(a, cmd, conv, sid) == [peer |-> a, dir |-> "down", cmd |-> cmd, conv |-> conv, sid |-> sid]

Reading == [op |-> "read"]

Init ==
  /\ manager = "running" /\ sessions = <<>> /\ conns = [sid \in {} |-> 0]
  /\ pending = <<>> /\ accepted = {} /\ reader = Reading /\ leaving = {}
  /\ dial = [a \in Addrs |-> [state |-> "new", conv |-> 0, sid |-> 0, returned |-> FALSE]]
  /\ unmanaged = [sid \in {} |-> 0] /\ panicked = FALSE
  /\ net = {} /\ heard = {}

Without(f, x) == [y \in DOMAIN f \ {x} |-> f[y]]
With(f, x, v) == [y \in DOMAIN f \cup {x} |-> IF y = x THEN v ELSE f[y]]

-----------------------------------------------------------------------------
(* The network.                                                            *)

SocketOpen(a) == ~panicked /\ dial[a].state \in {"opening", "open"}
Arrives(d) == manager # "closed" /\ SocketOpen(d.peer)

\* ds are written while the datagrams of rest are in flight.
Write(rest, ds) ==
  \E kept \in IF Lossy THEN SUBSET ds ELSE {ds} :
    net' = rest \cup {d \in kept : Arrives(d)}

Room == Cardinality(net) < MaxNet

Drop(rest) == net' = rest
\* What is left in flight when d is read.
After(d) == {net \ {d}} \cup (IF Duplication THEN {net} ELSE {})

-----------------------------------------------------------------------------
(* closeSession of a managed session s: FIN, and its context is done.  The *)
(* handler that waits for that ends.                                       *)

Closed(ss, s) ==
  [ss EXCEPT ![s].open = FALSE,
             ![s].handler = IF @ = "blocked" THEN "done" ELSE @]
Fin(s) == Down(sessions[s].addr, "FIN", sessions[s].conv, sessions[s].sid)

-----------------------------------------------------------------------------
(* The listener's reader: loopReadFromUDP with the listener's callbacks.   *)
(* The manager's lock is not free while close() waits.                     *)

Free == manager # "closing"
Reads(d) == d \in net /\ d.dir = "up" /\ reader = Reading /\ Free

\* Mutant: the session is registered under the id the client sent.
Registered_AsAsked(asked, sid) == asked

Registered(asked, sid) == sid

\* Mutant: no look at the ids in use.
nextSessionID_Unchecked == Sids

nextSessionID == Sids \ (DOMAIN conns \cup
                         IF Reuse THEN {} ELSE {sessions[s].sid : s \in DOMAIN sessions})

\* connectSession, up to the ACK: getOrCreateSession.
ReadSyn(d) ==
  /\ Reads(d) /\ d.cmd = "SYN"
  /\ \E rest \in After(d) : Drop(rest)
  /\ \/ /\ d.sid \in DOMAIN conns
        /\ reader' = [op |-> "ack", s |-> conns[d.sid]]
        /\ UNCHANGED <<sessions, conns>>
     \/ /\ d.sid \notin DOMAIN conns /\ Len(sessions) < MaxSessions
        /\ \E sid \in IF d.sid = 0 THEN nextSessionID ELSE {d.sid} :
             /\ sessions' = Append(sessions,
                  [sid |-> sid, conv |-> Len(sessions) + 1, addr |-> d.peer,
                   open |-> manager = "running", handler |-> "start"])
             /\ conns' = With(conns, Registered(d.sid, sid), Len(sessions) + 1)
        /\ reader' = [op |-> "ack", s |-> Len(sessions) + 1]
  /\ UNCHANGED <<manager, pending, accepted, leaving, dialerVars, heard>>

\* connectAck, which writes to the session's address.
WriteAck ==
  /\ reader.op = "ack"
  /\ LET s == sessions[reader.s] IN Write(net, {Down(s.addr, "ACK", s.conv, s.sid)})
  /\ reader' = Reading
  /\ UNCHANGED <<listenerVars, dialerVars, heard>>

\* disconnectSession for a FIN: deleteSession, then closeSession.
ReadFin(d) ==
  /\ Reads(d) /\ d.cmd = "FIN"
  /\ \E rest \in After(d) :
       \/ /\ d.sid \in DOMAIN conns
          /\ conns' = Without(conns, d.sid)
          /\ reader' = [op |-> "close", s |-> conns[d.sid], conv |-> d.conv]
          /\ Drop(rest)
       \/ /\ d.sid \notin DOMAIN conns
          /\ Write(rest, {Down(d.peer, "FIN", d.conv, d.sid)})
          /\ UNCHANGED <<conns, reader>>
  /\ UNCHANGED <<manager, sessions, pending, accepted, leaving, dialerVars, heard>>

\* session.cb.convID = convID, then closeSession.
CloseWith(s, conv) ==
  /\ sessions' = Closed([sessions EXCEPT ![s].conv = conv], s)
  /\ Write(net, {Down(sessions[s].addr, "FIN", conv, sessions[s].sid)})

ReaderClose ==
  /\ reader.op = "close"
  /\ CloseWith(reader.s, reader.conv)
  /\ reader' = Reading
  /\ UNCHANGED <<manager, conns, pending, accepted, leaving, dialerVars, heard>>

\* Mutant: only the session id is compared.
Accepts_AnyConv(s, conv, sid) == sid = sessions[s].sid

\* What Input asks of a segment's head.
Accepts(s, conv, sid) == conv = sessions[s].conv /\ sid = sessions[s].sid

\* Mutant: a segment without a session is dropped.
Unknown_Silent(d) == {}

\* The answer to a segment of a session that conns does not have.
Unknown(d) == {Down(d.peer, "FIN", d.conv, d.sid)}

\* onSegmentData: getSession takes and releases the lock before Input.
ReadSegment(d) ==
  /\ Reads(d) /\ d.cmd = "SEG"
  /\ \E rest \in After(d) :
       \/ /\ d.sid \in DOMAIN conns
          /\ reader' = [op |-> "input", s |-> conns[d.sid], d |-> d]
          /\ Drop(rest)
       \/ /\ d.sid \notin DOMAIN conns
          /\ Write(rest, Unknown(d))
          /\ UNCHANGED reader
  /\ UNCHANGED <<listenerVars, dialerVars, heard>>

Input ==
  /\ reader.op = "input"
  /\ heard' = IF Accepts(reader.s, reader.d.conv, reader.d.sid)
              THEN heard \cup {<<reader.s, reader.d.peer>>} ELSE heard
  /\ reader' = Reading
  /\ UNCHANGED <<listenerVars, dialerVars, net>>

-----------------------------------------------------------------------------
(* handleSession, the goroutine of each session.                           *)

\* Mutant: the last place of the channel is never used.
HasRoom_OffByOne(q) == Len(q) + 1 < PendingCap

\* Mutant: the channel has no capacity to respect.
HasRoom_Unbounded(q) == TRUE

HasRoom(q) == Len(q) < PendingCap

\* A session that finds the channel full stays connected, but nobody will
\* ever accept it.
HandlerStart(s) ==
  /\ sessions[s].handler = "start"
  /\ pending' = IF HasRoom(pending) THEN Append(pending, s) ELSE pending
  /\ sessions' = [sessions EXCEPT ![s].handler = "select"]
  /\ UNCHANGED <<manager, conns, accepted, leaving, reader, dialerVars, net, heard>>

\* The select finds both contexts alive and blocks, or it takes a ready
\* case, either one if both are.
HandlerSelect(s) ==
  /\ sessions[s].handler = "select"
  /\ \E next \in (IF manager # "running" THEN {"fin"} ELSE {})
                 \cup (IF ~sessions[s].open THEN {"done"} ELSE {})
                 \cup (IF manager = "running" /\ sessions[s].open THEN {"blocked"} ELSE {}) :
       sessions' = [sessions EXCEPT ![s].handler = next]
  /\ UNCHANGED <<manager, conns, pending, accepted, leaving, reader, dialerVars, net, heard>>

\* Mutant: the handler takes its session out of conns, under the lock.
Unhindered_TakesLock == Free

\* What the handler has to wait for before closeSession.
Unhindered == TRUE

\* closeSession(DisconnectReasonServerShutdown)
HandlerFin(s) ==
  /\ sessions[s].handler = "fin" /\ Unhindered
  /\ Write(net, {Fin(s)})
  /\ sessions' = [Closed(sessions, s) EXCEPT ![s].handler = "done"]
  /\ UNCHANGED <<manager, conns, pending, accepted, leaving, reader, dialerVars, heard>>

-----------------------------------------------------------------------------
(* The users of the listener.                                              *)

Accept ==
  /\ pending # <<>>
  /\ accepted' = accepted \cup {Head(pending)} /\ pending' = Tail(pending)
  /\ UNCHANGED <<manager, sessions, conns, leaving, reader, dialerVars, net, heard>>

\* A session sends: whether or not it is closed, while the ticker has it.
Send(s) ==
  /\ s \in accepted /\ sessions[s].sid \in DOMAIN conns /\ conns[sessions[s].sid] = s
  /\ Room
  /\ Write(net, {Down(sessions[s].addr, "SEG", sessions[s].conv, sessions[s].sid)})
  /\ UNCHANGED <<listenerVars, reader, dialerVars, heard>>

\* Session.Close: the session stays in conns, and may be closed again.
CloseSession(s) ==
  /\ "CloseSession" \in Calls /\ s \in accepted
  /\ sessions' = Closed(sessions, s)
  /\ Write(net, {Fin(s)})
  /\ UNCHANGED <<manager, conns, pending, accepted, leaving, reader, dialerVars, heard>>

\* Listener.DisconnectSession: deleteSession looks only at the session id.
DisconnectSession(s) ==
  /\ "DisconnectSession" \in Calls /\ s \in accepted /\ Free
  /\ LET sid == sessions[s].sid
     IN  \/ /\ sid \in DOMAIN conns
            /\ conns' = Without(conns, sid)
            /\ leaving' = leaving \cup {[s |-> conns[sid], conv |-> sessions[s].conv]}
            /\ UNCHANGED net
         \/ /\ sid \notin DOMAIN conns
            /\ Write(net, {Fin(s)})
            /\ UNCHANGED <<conns, leaving>>
  /\ UNCHANGED <<manager, sessions, pending, accepted, reader, dialerVars, heard>>

DisconnectClose(l) ==
  /\ l \in leaving
  /\ CloseWith(l.s, l.conv)
  /\ leaving' = leaving \ {l}
  /\ UNCHANGED <<manager, conns, pending, accepted, reader, dialerVars, heard>>

\* Listener.Close, sessionManager.close: the lock is taken and the contexts
\* are cancelled, the manager's before those of the sessions: a handler that
\* is blocked wakes up in the first case of its select.
Close ==
  /\ "Close" \in Calls /\ manager = "running"
  /\ manager' = "closing"
  /\ sessions' = [s \in DOMAIN sessions |->
       [sessions[s] EXCEPT !.open = FALSE,
                           !.handler = IF @ = "blocked" THEN "fin" ELSE @]]
  /\ UNCHANGED <<conns, pending, accepted, leaving, reader, dialerVars, net, heard>>

\* Mutant: Close does not wait for the handlers.
HandlersDone_NoWait == TRUE

HandlersDone == \A s \in DOMAIN sessions : sessions[s].handler = "done"

\* refCount.Wait returns and the lock is released, then the socket is closed.
CloseReleases ==
  /\ manager = "closing" /\ HandlersDone
  /\ manager' = "released"
  /\ UNCHANGED <<sessions, conns, pending, accepted, leaving, reader, dialerVars, net, heard>>

CloseSocket ==
  /\ manager = "released"
  /\ manager' = "closed"
  /\ net' = {d \in net : d.dir = "down"}
  /\ UNCHANGED <<sessions, conns, pending, accepted, leaving, reader, dialerVars, heard>>

-----------------------------------------------------------------------------
(* The dialing process.                                                    *)

Alive == ~panicked

\* Dial: newSession and open, which writes one SYN and waits for the ACK.
Dial(a) ==
  /\ Alive /\ dial[a].state = "new"
  /\ dial' = [dial EXCEPT ![a].state = "opening"]
  /\ \E kept \in IF Lossy THEN BOOLEAN ELSE {TRUE} :
       net' = IF kept /\ manager # "closed" THEN net \cup {Up(a, "SYN", 0, 0)} ELSE net
  /\ UNCHANGED <<listenerVars, reader, unmanaged, panicked, heard>>

Gets(d) == Alive /\ d \in net /\ d.dir = "down" /\ SocketOpen(d.peer)

\* Mutant: every ACK starts the session.
Starts_Always(a) == TRUE

\* "avoid multiple ACK"
Starts(a) == dial[a].state = "opening"

DialerAck(d) ==
  /\ Gets(d) /\ d.cmd = "ACK"
  /\ \E rest \in After(d) : Drop(rest)
  /\ dial' = IF Starts(d.peer)
             THEN [dial EXCEPT ![d.peer].state = "open", ![d.peer].conv = d.conv,
                               ![d.peer].sid = d.sid]
             ELSE dial
  /\ UNCHANGED <<listenerVars, reader, unmanaged, panicked, heard>>

\* Dial goes on when starting is closed: the ticker now has the session,
\* even if it has been closed meanwhile.
DialReturns(a) ==
  /\ Alive /\ dial[a].state \in {"open", "closed"} /\ ~dial[a].returned
  /\ dial' = [dial EXCEPT ![a].returned = TRUE]
  /\ unmanaged' = With(unmanaged, dial[a].sid, a)
  /\ UNCHANGED <<listenerVars, reader, panicked, net, heard>>

\* closeSession of a dialed session: FIN, unmanaged.conns, the socket.
DialedClose(a, rest) ==
  /\ dial' = [dial EXCEPT ![a].state = "closed"]
  /\ unmanaged' = Without(unmanaged, dial[a].sid)
  /\ Write({d \in rest : d.dir = "up" \/ d.peer # a}, {Up(a, "FIN", dial[a].conv, dial[a].sid)})
  /\ UNCHANGED <<listenerVars, reader, panicked, heard>>

DialerFin(d) ==
  /\ Gets(d) /\ d.cmd = "FIN" /\ dial[d.peer].state = "open"
  /\ DialedClose(d.peer, net \ {d})

DialerClose(a) ==
  /\ Alive /\ dial[a].state = "open" /\ dial[a].returned
  /\ DialedClose(a, net)

DialerSegment(d) ==
  /\ Gets(d) /\ d.cmd = "SEG" /\ dial[d.peer].state = "open"
  /\ \E rest \in After(d) : Drop(rest)
  /\ UNCHANGED <<listenerVars, reader, dialerVars, heard>>

\* FIN or SEG before the ACK: s.cb is nil, and the process dies.
DialerPanics(d) ==
  /\ Gets(d) /\ d.cmd \in {"FIN", "SEG"} /\ dial[d.peer].state = "opening"
  /\ panicked' = TRUE
  /\ net' = {x \in net : x.dir = "up"}
  /\ UNCHANGED <<listenerVars, reader, dial, unmanaged, heard>>

\* A client other than Dial repeats SYN, with the ids it has by now: none
\* before the ACK.
ClientSyn(a) ==
  /\ Resyn /\ Alive /\ SocketOpen(a) /\ Room
  /\ Write(net, {Up(a, "SYN", dial[a].conv, dial[a].sid)})
  /\ UNCHANGED <<listenerVars, reader, dialerVars, heard>>

DialerSend(a) ==
  /\ Alive /\ dial[a].state = "open" /\ Room
  /\ Write(net, {Up(a, "SEG", dial[a].conv, dial[a].sid)})
  /\ UNCHANGED <<listenerVars, reader, dialerVars, heard>>

-----------------------------------------------------------------------------
ReaderStep ==
  \/ \E d \in net : ReadSyn(d) \/ ReadFin(d) \/ ReadSegment(d)
  \/ WriteAck \/ ReaderClose \/ Input

HandlerStep(s) == HandlerStart(s) \/ HandlerSelect(s) \/ HandlerFin(s)

UserStep ==
  \/ Accept \/ Close \/ CloseReleases \/ CloseSocket
  \/ \E s \in accepted : Send(s) \/ CloseSession(s) \/ DisconnectSession(s)
  \/ \E l \in leaving : DisconnectClose(l)

DialerStep ==
  \/ \E a \in Addrs : Dial(a) \/ DialReturns(a) \/ DialerClose(a) \/ DialerSend(a)
                       \/ ClientSyn(a)
  \/ \E d \in net : DialerAck(d) \/ DialerFin(d) \/ DialerSegment(d) \/ DialerPanics(d)

Next == ReaderStep \/ (\E s \in DOMAIN sessions : HandlerStep(s)) \/ UserStep \/ DialerStep

Spec == Init /\ [][Next]_vars

(***************************************************************************)
(* Fairness.  Goroutines run; a socket is a queue, so each kind of what is *)
(* in flight is read in the end; the server's loop (core, Server.Start) accepts; Close  *)
(* goes on once called; a session with something unacknowledged sends it   *)
(* again and again (Kcp), and the network does not lose every one of these *)
(* segments, nor every answer to them.                                     *)
(***************************************************************************)
Answered(d) == ReadSegment(d) /\ (d.sid \notin DOMAIN conns => Unknown(d) \subseteq net')
SendKept(a) == DialerSend(a) /\ Up(a, "SEG", dial[a].conv, dial[a].sid) \in net'

Fairness ==
  /\ WF_vars(WriteAck) /\ WF_vars(ReaderClose) /\ WF_vars(Input)
  /\ SF_vars(\E d \in net : ReadSyn(d)) /\ SF_vars(\E d \in net : ReadFin(d))
  /\ SF_vars(\E d \in net : Answered(d))
  /\ WF_vars(Accept) /\ WF_vars(CloseReleases) /\ WF_vars(CloseSocket)
  /\ \A s \in 1..MaxSessions : WF_vars(s \in DOMAIN sessions /\ HandlerStep(s))
  /\ SF_vars(\E d \in net : DialerAck(d)) /\ SF_vars(\E d \in net : DialerFin(d))
  /\ SF_vars(\E d \in net : DialerSegment(d))
  /\ \A a \in Addrs : WF_vars(DialReturns(a)) /\ SF_vars(SendKept(a))

FairSpec == Spec /\ Fairness

-----------------------------------------------------------------------------
(* Properties.                                                             *)

\* The sessions whose handler close() waits for, and that end with FIN.
Woken == {s \in DOMAIN sessions : manager = "closing" /\ sessions[s].handler = "fin"}
Open(s) == s \in DOMAIN sessions /\ sessions[s].open

Handlers == {"start", "select", "blocked", "fin", "done"}

\* The types of the variables.
TypeOK ==
  /\ manager \in {"running", "closing", "released", "closed"}
  /\ sessions \in Seq([sid : Sids, conv : Nat, addr : Addrs, open : BOOLEAN,
                       handler : Handlers])
  /\ DOMAIN conns \subseteq Sids /\ conns \in [DOMAIN conns -> DOMAIN sessions]
  /\ pending \in Seq(DOMAIN sessions) /\ Len(pending) <= PendingCap
  /\ accepted \subseteq DOMAIN sessions
  /\ reader \in {Reading} \cup [op : {"ack"}, s : DOMAIN sessions]
                \cup [op : {"close"}, s : DOMAIN sessions, conv : Nat]
                \cup [op : {"input"}, s : DOMAIN sessions, d : Datagram]
  /\ leaving \subseteq [s : DOMAIN sessions, conv : Nat]
  /\ dial \in [Addrs -> [state : {"new", "opening", "open", "closed"}, conv : Nat,
                         sid : Nat, returned : BOOLEAN]]
  /\ DOMAIN unmanaged \subseteq Sids /\ unmanaged \in [DOMAIN unmanaged -> Addrs]
  /\ panicked \in BOOLEAN
  /\ net \subseteq Datagram
  /\ heard \subseteq (DOMAIN sessions) \X Addrs

\* A session is looked up by its id alone, whatever address the segment came
\* from; yet no session is ever fed a segment of another client, even when
\* the id was given again to somebody else (unless DisconnectSession is called
\* for a session that is gone: it would overwrite the other one's convID).
NoForeignInput == \A h \in heard : sessions[h[1]].addr = h[2]

\* Several SYNs of one address may open several sessions, each of which
\* answers with its own ACK: only one of them ever takes what the client
\* sends.  A late ACK does not move the client to another session, and no
\* session is given the segments of its twin, even when it has the same id.
OneSessionHears == \A g, h \in heard : g[2] = h[2] => g[1] = h[1]

\* A session whose context is alive can be found by the next segment, unless
\* somebody is on the way to close it: nobody is cut off unawares.
OpenIsKnown ==
  \A s \in DOMAIN sessions :
    sessions[s].open => \/ sessions[s].sid \in DOMAIN conns /\ conns[sessions[s].sid] = s
                        \/ reader.op = "close" /\ reader.s = s
                        \/ \E l \in leaving : l.s = s

\* A session that Dial has returned is updated by the ticker until it is
\* closed, whatever other sessions come and go.
DialedIsUpdated ==
  \A a \in Addrs :
    ~panicked /\ dial[a].state = "open" /\ dial[a].returned
      => dial[a].sid \in DOMAIN unmanaged /\ unmanaged[dial[a].sid] = a

\* Close returns: the lock it holds while it waits for the handlers is not
\* one they need.
CloseReturns == manager = "closing" ~> manager # "closing"

\* With room for all of them, every session is accepted or closed.  Where
\* pending has less room, the sessions it has none for are never accepted.
EveryAccepted ==
  \A s \in 1..MaxSessions : Open(s) ~> s \in accepted \/ ~Open(s)

\* Dial returns, where nothing is lost, unless the listener is closed or what
\* overtakes the ACK makes it panic.
DialReturned ==
  \A a \in Addrs : dial[a].state = "opening"
                     ~> dial[a].returned \/ panicked \/ manager # "running"

\* A client whose session the listener has dropped, and that goes on
\* sending, hears of it, even when the FIN of the disconnection was lost.
DisconnectedIsTold ==
  \A a \in Addrs :
    dial[a].state = "open" /\ dial[a].conv \notin {conns[sid] : sid \in DOMAIN conns}
      ~> dial[a].state = "closed" \/ panicked \/ manager = "closed"

\* Close leaves the socket open until each handler that it woke has told its
\* client (but a SYN may still be answered before the socket is closed, and
\* the handler of that session comes too late).
ShutdownIsTold ==
  \A a \in Addrs :
    dial[a].state = "open" /\ dial[a].conv \in Woken
      ~> dial[a].state = "closed" \/ panicked
=============================================================================
