------------------------ MODULE SessionManager_proofs ------------------------
(***************************************************************************)
(* Safety of SessionManager for any number of clients, ids and sessions:   *)
(* types, that an open session can be found, that no session is fed what   *)
(* another client sent, and only one of a client's sessions what it sends, *)
(* and, if ids are not given again, that the ticker keeps a dialed one.    *)
(***************************************************************************)
EXTENDS SessionManager, SequenceTheorems, TLAPS

Session == [sid : Sids, conv : Nat, addr : Addrs, open : BOOLEAN, handler : Handlers]

\* What the reader may be about to do, with sessions from D.
Readers(D) ==
  {Reading} \cup [op : {"ack"}, s : D] \cup [op : {"close"}, s : D, conv : Nat]
            \cup [op : {"input"}, s : D, d : Datagram]

Dialed == [state : {"new", "opening", "open", "closed"}, conv : Nat, sid : Nat, returned : BOOLEAN]

\* The types, by what they are about.
ListenerOK ==
  /\ manager \in {"running", "closing", "released", "closed"}
  /\ sessions \in Seq(Session)
  /\ DOMAIN conns \subseteq Sids /\ conns \in [DOMAIN conns -> DOMAIN sessions]
  /\ pending \in Seq(DOMAIN sessions) /\ Len(pending) <= PendingCap
  /\ accepted \subseteq DOMAIN sessions
  /\ leaving \subseteq [s : DOMAIN sessions, conv : Nat]

ReaderOK == reader \in Readers(DOMAIN sessions) /\ heard \subseteq (DOMAIN sessions) \X Addrs

\* A dialed session has an id that the listener gave, and 0 before the ACK.
DialerOK ==
  /\ dial \in [Addrs -> Dialed]
  /\ \A a \in Addrs : IF dial[a].state \in {"open", "closed"} THEN dial[a].sid \in Sids
                     ELSE dial[a].sid = 0
  /\ DOMAIN unmanaged \subseteq Sids /\ unmanaged \in [DOMAIN unmanaged -> Addrs]
  /\ panicked \in BOOLEAN

DatagramOK(d) ==
  d \in Datagram /\ d.sid \in Sids \cup {0} /\ (d.cmd = "ACK" => d.sid \in Sids)

NetOK == \A d \in net : DatagramOK(d)

TInv == ListenerOK /\ ReaderOK /\ DialerOK /\ NetOK

LEMMA TInvTypes == TInv => TypeOK
<1>1. NetOK => net \subseteq Datagram
  BY DEF NetOK, DatagramOK
<1> QED
  BY <1>1 DEF TInv, TypeOK, ListenerOK, ReaderOK, DialerOK, Session, Readers, Dialed

LEMMA Constants ==
  /\ Sids \subseteq Nat /\ 0 \notin Sids
  /\ PendingCap \in Nat \ {0} /\ MaxSessions \in Nat /\ MaxNet \in Nat
  /\ Lossy \in BOOLEAN /\ Duplication \in BOOLEAN /\ Reuse \in BOOLEAN /\ Resyn \in BOOLEAN
  BY SessionConstants

-----------------------------------------------------------------------------
(* What the helpers do.                                                    *)

LEMMA WriteIn ==
  ASSUME NEW rest, NEW ds, Write(rest, ds)
  PROVE  net' \subseteq rest \cup ds
<1>1. PICK kept \in IF Lossy THEN SUBSET ds ELSE {ds} :
        net' = rest \cup {d \in kept : Arrives(d)}
  BY DEF Write
<1>2. kept \subseteq ds
  BY <1>1, Zenon
<1> QED
  BY <1>1, <1>2

LEMMA AfterIn ==
  ASSUME NEW d, NEW rest \in After(d)
  PROVE  rest \subseteq net
<1>1. rest = net \ {d} \/ rest = net
  BY DEF After
<1> QED
  BY <1>1

LEMMA SessionAt ==
  ASSUME NEW ss \in Seq(Session)
  PROVE  /\ Len(ss) \in Nat /\ DOMAIN ss = 1..Len(ss)
         /\ \A i \in DOMAIN ss :
              /\ ss[i] \in Session
              /\ ss[i].sid \in Sids /\ ss[i].conv \in Nat /\ ss[i].addr \in Addrs
              /\ ss[i].open \in BOOLEAN /\ ss[i].handler \in Handlers
<1>1. Len(ss) \in Nat /\ DOMAIN ss = 1..Len(ss)
  BY LenProperties, Zenon
<1>2. \A i \in DOMAIN ss : ss[i] \in Session
  BY <1>1, ElementOfSeq, Zenon
<1> QED
  BY <1>1, <1>2 DEF Session

\* The sessions are those of before: none is opened again, or moves.
Kept(new, old) ==
  /\ new \in Seq(Session) /\ DOMAIN new = DOMAIN old
  /\ \A i \in DOMAIN old :
       /\ new[i].sid = old[i].sid /\ new[i].addr = old[i].addr
       /\ new[i].open => old[i].open

LEMMA ReplaceKeeps ==
  ASSUME NEW old \in Seq(Session), NEW s \in DOMAIN old, NEW r \in Session,
         r.sid = old[s].sid, r.addr = old[s].addr, r.open => old[s].open
  PROVE  /\ Kept([old EXCEPT ![s] = r], old)
         /\ \A i \in DOMAIN old : [old EXCEPT ![s] = r][i] = IF i = s THEN r ELSE old[i]
<1> DEFINE new == [old EXCEPT ![s] = r]
<1>1. Len(old) \in Nat /\ DOMAIN old = 1..Len(old)
  BY LenProperties, Zenon
<1>2. /\ new \in Seq(Session) /\ Len(new) = Len(old)
      /\ \A i \in 1..Len(old) : new[i] = IF i = s THEN r ELSE old[i]
  BY <1>1, ExceptSeq
<1>3. DOMAIN new = DOMAIN old
  OBVIOUS
<1> HIDE DEF new
<1>4. \A i \in DOMAIN old : new[i] = IF i = s THEN r ELSE old[i]
  BY <1>1, <1>2
<1>5. Kept(new, old)
  BY <1>2, <1>3, <1>4 DEF Kept
<1> QED
  BY <1>4, <1>5 DEF new

LEMMA HandlerKeeps ==
  ASSUME NEW old \in Seq(Session), NEW s \in DOMAIN old, NEW h \in Handlers
  PROVE  /\ Kept([old EXCEPT ![s].handler = h], old)
         /\ \A i \in DOMAIN old : [old EXCEPT ![s].handler = h][i].conv = old[i].conv
<1> DEFINE r == [old[s] EXCEPT !.handler = h]
<1>1. old[s] \in Session
  BY SessionAt
<1>2. /\ r \in Session /\ r.sid = old[s].sid /\ r.addr = old[s].addr /\ r.open = old[s].open
      /\ r.conv = old[s].conv
  BY <1>1 DEF Session
<1>3. [old EXCEPT ![s].handler = h] = [old EXCEPT ![s] = r]
  OBVIOUS
<1> HIDE DEF r
<1> QED
  BY <1>2, <1>3, ReplaceKeeps

LEMMA ConvKeeps ==
  ASSUME NEW old \in Seq(Session), NEW s \in DOMAIN old, NEW conv \in Nat
  PROVE  /\ Kept([old EXCEPT ![s].conv = conv], old)
         /\ \A i \in DOMAIN old : i # s => [old EXCEPT ![s].conv = conv][i].conv = old[i].conv
<1> DEFINE r == [old[s] EXCEPT !.conv = conv]
<1>1. old[s] \in Session
  BY SessionAt
<1>2. /\ r \in Session /\ r.sid = old[s].sid /\ r.addr = old[s].addr /\ r.open = old[s].open
  BY <1>1 DEF Session
<1>3. [old EXCEPT ![s].conv = conv] = [old EXCEPT ![s] = r]
  OBVIOUS
<1> HIDE DEF r
<1> QED
  BY <1>2, <1>3, ReplaceKeeps

LEMMA ClosedKeeps ==
  ASSUME NEW old \in Seq(Session), NEW s \in DOMAIN old
  PROVE  /\ Kept(Closed(old, s), old)
         /\ ~Closed(old, s)[s].open
         /\ \A i \in DOMAIN old : Closed(old, s)[i].conv = old[i].conv
<1> DEFINE h == IF old[s].handler = "blocked" THEN "done" ELSE old[s].handler
           r == [old[s] EXCEPT !.open = FALSE, !.handler = h]
<1>1. old[s] \in Session /\ old[s].handler \in Handlers
  BY SessionAt
<1>2. h \in Handlers
  BY <1>1 DEF Handlers
<1>3. Closed(old, s) = [old EXCEPT ![s] = r]
  BY DEF Closed
<1> HIDE DEF h
<1>4. r \in Session /\ r.sid = old[s].sid /\ r.addr = old[s].addr /\ r.conv = old[s].conv
  BY <1>1, <1>2 DEF Session
<1>5. ~r.open
  BY <1>1, <1>2 DEF Session
<1> HIDE DEF r
<1>6. r.open => old[s].open
  BY <1>5, Zenon
<1>7. /\ Kept([old EXCEPT ![s] = r], old)
      /\ \A i \in DOMAIN old : [old EXCEPT ![s] = r][i] = IF i = s THEN r ELSE old[i]
  BY <1>4, <1>6, ReplaceKeeps, Zenon
<1>8. \A i \in DOMAIN old : Closed(old, s)[i] = IF i = s THEN r ELSE old[i]
  BY <1>3, <1>7, Zenon
<1>9. ~Closed(old, s)[s].open
  BY <1>5, <1>8, Zenon
<1> QED
  BY <1>3, <1>4, <1>7, <1>8, <1>9

LEMMA KeptTwice ==
  ASSUME NEW a, NEW b, NEW c, Kept(b, a), Kept(c, b)
  PROVE  Kept(c, a)
<1>1. c \in Seq(Session) /\ DOMAIN c = DOMAIN a
  BY DEF Kept
<1>2. ASSUME NEW i \in DOMAIN a
      PROVE  c[i].sid = a[i].sid /\ c[i].addr = a[i].addr /\ (c[i].open => a[i].open)
  BY DEF Kept
<1> QED
  BY <1>1, <1>2 DEF Kept

\* What is said of the sessions stays well typed when there are more of them.
LEMMA Grows ==
  ASSUME TInv, NEW D, DOMAIN sessions \subseteq D
  PROVE  /\ conns \in [DOMAIN conns -> D] /\ pending \in Seq(D) /\ accepted \subseteq D
         /\ leaving \subseteq [s : D, conv : Nat]
         /\ reader \in Readers(D) /\ heard \subseteq D \X Addrs
<1>1. pending \in Seq(D)
  BY SeqMonotonic DEF TInv, ListenerOK
<1>2. \A l \in [s : DOMAIN sessions, conv : Nat] : l \in [s : D, conv : Nat]
  OBVIOUS
<1>3. reader \in Readers(D)
  <2>1. reader \in Readers(DOMAIN sessions)
    BY DEF TInv, ReaderOK
  <2> QED
    BY <2>1 DEF Readers
<1>4. conns \in [DOMAIN conns -> D]
  BY DEF TInv, ListenerOK
<1>5. accepted \subseteq D /\ heard \subseteq D \X Addrs
  BY DEF TInv, ListenerOK, ReaderOK
<1> QED
  BY <1>1, <1>2, <1>3, <1>4, <1>5 DEF TInv, ListenerOK

-----------------------------------------------------------------------------
(* An open session can be found: the steps.                                *)

KInv == TInv /\ OpenIsKnown

\* No session is lost as long as conns stays, and who is about to close one
\* still is.
LEMMA StillKnown ==
  ASSUME KInv, Kept(sessions', sessions), conns' = conns,
         reader.op = "close" => reader' = reader, leaving \subseteq leaving'
  PROVE  OpenIsKnown'
<1> SUFFICES ASSUME NEW s \in DOMAIN sessions', sessions'[s].open
             PROVE  \/ sessions'[s].sid \in DOMAIN conns' /\ conns'[sessions'[s].sid] = s
                    \/ reader'.op = "close" /\ reader'.s = s
                    \/ \E l \in leaving' : l.s = s
  BY DEF OpenIsKnown
<1>1. s \in DOMAIN sessions /\ sessions[s].open /\ sessions'[s].sid = sessions[s].sid
  BY DEF Kept
<1> QED
  BY <1>1 DEF KInv, OpenIsKnown

LEMMA Same ==
  ASSUME TInv
  PROVE  Kept(sessions, sessions)
  BY DEF Kept, TInv, ListenerOK

LEMMA ReaderSession ==
  ASSUME TInv
  PROVE  /\ reader.op \in {"read", "ack", "close", "input"}
         /\ reader.op # "read" => reader.s \in DOMAIN sessions
         /\ reader.op = "close" => reader.conv \in Nat
         /\ reader.op = "input" => reader.d \in Datagram
<1>1. reader \in Readers(DOMAIN sessions)
  BY DEF TInv, ReaderOK
<1> QED
  BY <1>1 DEF Readers, Reading

\* The datagrams that the listener writes to one of its sessions.
LEMMA ToDialer ==
  ASSUME TInv, NEW s \in DOMAIN sessions, NEW conv \in Nat, NEW cmd \in {"ACK", "FIN", "SEG"}
  PROVE  /\ DatagramOK(Down(sessions[s].addr, cmd, sessions[s].conv, sessions[s].sid))
         /\ DatagramOK(Down(sessions[s].addr, cmd, conv, sessions[s].sid))
<1>1. sessions[s].sid \in Sids /\ sessions[s].conv \in Nat /\ sessions[s].addr \in Addrs
  BY SessionAt DEF TInv, ListenerOK
<1>2. sessions[s].sid \in Nat
  BY <1>1, Constants
<1> QED
  BY <1>1, <1>2 DEF DatagramOK, Datagram, Down

LEMMA NetGrows ==
  ASSUME TInv, NEW d, DatagramOK(d), net' \subseteq net \cup {d}
  PROVE  NetOK'
  BY DEF TInv, NetOK, DatagramOK

LEMMA NetShrinks ==
  ASSUME TInv, net' \subseteq net
  PROVE  NetOK'
  BY DEF TInv, NetOK, DatagramOK

-----------------------------------------------------------------------------
(* The reader.                                                             *)

LEMMA ReadSynStep ==
  ASSUME KInv, NEW d \in net, ReadSyn(d)
  PROVE  KInv'
<1> DEFINE n == Len(sessions)
<1>1. /\ TInv /\ OpenIsKnown /\ d.peer \in Addrs /\ d.sid \in Sids \cup {0}
      /\ reader.op = "read"
  BY DEF KInv, TInv, NetOK, DatagramOK, Datagram, ReadSyn, Reads, Reading
<1>2. net' \subseteq net
  BY AfterIn DEF ReadSyn, Drop
<1>3. /\ UNCHANGED <<manager, pending, accepted, leaving, heard>> /\ UNCHANGED dialerVars
  BY DEF ReadSyn
<1>4. n \in Nat /\ DOMAIN sessions = 1..n /\ sessions \in Seq(Session)
  BY <1>1, SessionAt DEF TInv, ListenerOK
<1>5. NetOK' /\ DialerOK'
  BY <1>1, <1>2, <1>3, NetShrinks DEF TInv, DialerOK, dialerVars
<1>6. CASE /\ d.sid \in DOMAIN conns
           /\ reader' = [op |-> "ack", s |-> conns[d.sid]]
           /\ UNCHANGED <<sessions, conns>>
  <2>1. conns[d.sid] \in DOMAIN sessions
    BY <1>1, <1>6 DEF TInv, ListenerOK
  <2>2. ListenerOK'
    BY <1>1, <1>3, <1>6 DEF TInv, ListenerOK
  <2>3. ReaderOK'
    BY <1>1, <1>3, <1>6, <2>1 DEF TInv, ReaderOK, Readers
  <2>4. OpenIsKnown'
    <3>1. Kept(sessions', sessions)
      BY <1>1, <1>6, Same
    <3> QED
      BY <1>1, <1>3, <1>6, <3>1, StillKnown
  <2> QED
    BY <1>5, <2>2, <2>3, <2>4 DEF KInv, TInv
<1>7. ASSUME NEW sid, sid \in IF d.sid = 0 THEN nextSessionID ELSE {d.sid},
             d.sid \notin DOMAIN conns,
             sessions' = Append(sessions,
               [sid |-> sid, conv |-> n + 1, addr |-> d.peer,
                open |-> manager = "running", handler |-> "start"]),
             conns' = With(conns, Registered(d.sid, sid), n + 1),
             reader' = [op |-> "ack", s |-> n + 1]
      PROVE  KInv'
  <2> DEFINE new == [sid |-> sid, conv |-> n + 1, addr |-> d.peer,
                     open |-> manager = "running", handler |-> "start"]
  <2>1. sid \in Sids /\ sid \notin DOMAIN conns
    BY <1>1, <1>7 DEF nextSessionID
  <2>2. new \in Session
    BY <1>1, <1>4, <2>1 DEF Session, Handlers
  <2>3. new.sid = sid
    OBVIOUS
  <2>4. sessions' = Append(sessions, new)
    BY <1>7
  <2> HIDE DEF new
  <2>5. /\ sessions' \in Seq(Session) /\ Len(sessions') = n + 1
        /\ \A i \in 1..n : sessions'[i] = sessions[i]
        /\ sessions'[n + 1] = new
    BY <1>4, <2>2, <2>4, AppendProperties
  <2>6. DOMAIN sessions' = 1..(n + 1)
    BY <2>5, LenProperties
  <2>7. DOMAIN sessions \subseteq DOMAIN sessions' /\ n + 1 \in DOMAIN sessions'
    BY <1>4, <2>6
  <2>8. /\ conns \in [DOMAIN conns -> DOMAIN sessions'] /\ pending \in Seq(DOMAIN sessions')
        /\ accepted \subseteq DOMAIN sessions'
        /\ leaving \subseteq [s : DOMAIN sessions', conv : Nat]
        /\ heard \subseteq (DOMAIN sessions') \X Addrs
    <3> DEFINE D == DOMAIN sessions'
    <3>1. DOMAIN sessions \subseteq D
      BY <2>7
    <3> HIDE DEF D
    <3>2. /\ conns \in [DOMAIN conns -> D] /\ pending \in Seq(D) /\ accepted \subseteq D
          /\ leaving \subseteq [s : D, conv : Nat] /\ heard \subseteq D \X Addrs
      BY <1>1, <3>1, Grows
    <3> QED
      BY <3>2 DEF D
  <2>9. /\ DOMAIN conns' = DOMAIN conns \cup {sid}
        /\ conns' \in [DOMAIN conns' -> DOMAIN sessions']
        /\ conns'[sid] = n + 1 /\ \A i \in DOMAIN conns : conns'[i] = conns[i]
    BY <1>7, <2>1, <2>7, <2>8 DEF With, Registered
  <2>10. ListenerOK'
    BY <1>1, <1>3, <2>1, <2>5, <2>8, <2>9 DEF TInv, ListenerOK
  <2>11. ReaderOK'
    <3>1. reader' \in [op : {"ack"}, s : DOMAIN sessions']
      BY <1>7, <2>7
    <3>2. heard' \subseteq (DOMAIN sessions') \X Addrs
      BY <1>3, <2>8
    <3> QED
      BY <3>1, <3>2 DEF ReaderOK, Readers
  <2>12. OpenIsKnown'
    <3> SUFFICES ASSUME NEW i \in DOMAIN sessions', sessions'[i].open
                 PROVE  \/ sessions'[i].sid \in DOMAIN conns' /\ conns'[sessions'[i].sid] = i
                        \/ \E l \in leaving' : l.s = i
      BY DEF OpenIsKnown
    <3>1. CASE i = n + 1
      BY <2>3, <2>5, <2>9, <3>1
    <3>2. CASE i \in DOMAIN sessions
      <4>1. sessions'[i] = sessions[i] /\ sessions[i].open
        BY <1>4, <2>5, <3>2
      <4> QED
        BY <1>1, <1>3, <2>9, <3>2, <4>1 DEF OpenIsKnown
    <3> QED
      BY <1>4, <2>6, <3>1, <3>2
  <2> QED
    BY <1>5, <2>10, <2>11, <2>12 DEF KInv, TInv
<1> QED
  BY <1>6, <1>7 DEF ReadSyn

LEMMA WriteAckStep ==
  ASSUME KInv, WriteAck
  PROVE  KInv'
<1>1. TInv /\ reader.op = "ack" /\ reader.s \in DOMAIN sessions
  BY ReaderSession DEF KInv, WriteAck
<1>2. UNCHANGED listenerVars /\ UNCHANGED dialerVars /\ UNCHANGED heard /\ reader' = Reading
  BY DEF WriteAck
<1>3. NetOK'
  <2> DEFINE ack == Down(sessions[reader.s].addr, "ACK", sessions[reader.s].conv,
                         sessions[reader.s].sid)
  <2>1. net' \subseteq net \cup {ack}
    BY WriteIn DEF WriteAck
  <2>2. sessions[reader.s].conv \in Nat
    BY <1>1, SessionAt DEF TInv, ListenerOK
  <2>3. DatagramOK(ack)
    BY <1>1, <2>2, ToDialer
  <2> QED
    BY <1>1, <2>1, <2>3, NetGrows
<1>4. ListenerOK' /\ DialerOK'
  BY <1>1, <1>2 DEF TInv, ListenerOK, DialerOK, listenerVars, dialerVars
<1>5. ReaderOK'
  BY <1>1, <1>2 DEF TInv, ReaderOK, Readers, listenerVars
<1>6. OpenIsKnown'
  BY <1>1, <1>2, Same, StillKnown DEF listenerVars
<1> QED
  BY <1>3, <1>4, <1>5, <1>6 DEF KInv, TInv

\* The answer to a datagram of a session that is not known.
LEMMA AnswerOK ==
  ASSUME TInv, NEW d \in net
  PROVE  DatagramOK(Down(d.peer, "FIN", d.conv, d.sid))
  BY DEF TInv, NetOK, DatagramOK, Datagram, Down

\* What leaves conns is typed as before.
LEMMA WithoutOK ==
  ASSUME NEW f, NEW x, NEW S, DOMAIN f \subseteq Sids, f \in [DOMAIN f -> S]
  PROVE  /\ DOMAIN Without(f, x) = DOMAIN f \ {x} /\ DOMAIN Without(f, x) \subseteq Sids
         /\ Without(f, x) \in [DOMAIN Without(f, x) -> S]
         /\ \A y \in DOMAIN f \ {x} : Without(f, x)[y] = f[y]
  BY DEF Without

LEMMA ReadFinStep ==
  ASSUME KInv, NEW d \in net, ReadFin(d)
  PROVE  KInv'
<1>1. /\ TInv /\ OpenIsKnown /\ d.conv \in Nat /\ reader.op = "read"
  BY DEF KInv, TInv, NetOK, DatagramOK, Datagram, ReadFin, Reads, Reading
<1>2. UNCHANGED <<manager, sessions, pending, accepted, leaving, heard>> /\ UNCHANGED dialerVars
  BY DEF ReadFin
<1>3. PICK rest \in After(d) :
       \/ /\ d.sid \in DOMAIN conns
          /\ conns' = Without(conns, d.sid)
          /\ reader' = [op |-> "close", s |-> conns[d.sid], conv |-> d.conv]
          /\ Drop(rest)
       \/ /\ d.sid \notin DOMAIN conns
          /\ Write(rest, {Down(d.peer, "FIN", d.conv, d.sid)})
          /\ UNCHANGED <<conns, reader>>
  BY DEF ReadFin
<1>4. DialerOK'
  BY <1>1, <1>2 DEF TInv, DialerOK, dialerVars
<1>5. rest \subseteq net
  BY AfterIn
<1>6. CASE /\ d.sid \in DOMAIN conns
           /\ conns' = Without(conns, d.sid)
           /\ reader' = [op |-> "close", s |-> conns[d.sid], conv |-> d.conv]
           /\ Drop(rest)
  <2>1. conns[d.sid] \in DOMAIN sessions
    BY <1>1, <1>6 DEF TInv, ListenerOK
  <2>2. /\ DOMAIN conns' = DOMAIN conns \ {d.sid} /\ DOMAIN conns' \subseteq Sids
        /\ conns' \in [DOMAIN conns' -> DOMAIN sessions]
        /\ \A y \in DOMAIN conns \ {d.sid} : conns'[y] = conns[y]
    BY <1>1, <1>6, WithoutOK DEF TInv, ListenerOK
  <2>3. ListenerOK'
    BY <1>1, <1>2, <2>2 DEF TInv, ListenerOK
  <2>4. ReaderOK'
    BY <1>1, <1>2, <1>6, <2>1 DEF TInv, ReaderOK, Readers
  <2>5. NetOK'
    BY <1>1, <1>5, <1>6, NetShrinks DEF Drop
  <2>6. OpenIsKnown'
    <3> SUFFICES ASSUME NEW s \in DOMAIN sessions, sessions[s].open
                 PROVE  \/ sessions[s].sid \in DOMAIN conns' /\ conns'[sessions[s].sid] = s
                        \/ reader'.op = "close" /\ reader'.s = s
                        \/ \E l \in leaving : l.s = s
      BY <1>2 DEF OpenIsKnown
    <3>1. CASE sessions[s].sid = d.sid /\ conns[d.sid] = s
      BY <1>6, <3>1
    <3>2. CASE sessions[s].sid # d.sid \/ conns[d.sid] # s
      BY <1>1, <2>2, <3>2 DEF OpenIsKnown
    <3> QED
      BY <3>1, <3>2
  <2> QED
    BY <1>4, <2>3, <2>4, <2>5, <2>6 DEF KInv, TInv
<1>7. CASE /\ d.sid \notin DOMAIN conns
           /\ Write(rest, {Down(d.peer, "FIN", d.conv, d.sid)})
           /\ UNCHANGED <<conns, reader>>
  <2>1. NetOK'
    <3>1. net' \subseteq net \cup {Down(d.peer, "FIN", d.conv, d.sid)}
      BY <1>5, <1>7, WriteIn
    <3> QED
      BY <1>1, <3>1, AnswerOK, NetGrows
  <2>2. ListenerOK' /\ ReaderOK'
    BY <1>1, <1>2, <1>7 DEF TInv, ListenerOK, ReaderOK
  <2>3. OpenIsKnown'
    BY <1>1, <1>2, <1>7, Same, StillKnown
  <2> QED
    BY <1>4, <2>1, <2>2, <2>3 DEF KInv, TInv
<1> QED
  BY <1>3, <1>6, <1>7

\* What a session is closed with: all others stay as they were.
LEMMA CloseWithKeeps ==
  ASSUME TInv, NEW s \in DOMAIN sessions, NEW conv \in Nat, CloseWith(s, conv)
  PROVE  /\ Kept(sessions', sessions) /\ ~sessions'[s].open
         /\ \A i \in DOMAIN sessions : i # s => sessions'[i].conv = sessions[i].conv
         /\ NetOK'
<1> DEFINE ss == [sessions EXCEPT ![s].conv = conv]
<1>1. sessions \in Seq(Session)
  BY DEF TInv, ListenerOK
<1>2. /\ Kept(ss, sessions)
      /\ \A i \in DOMAIN sessions : i # s => ss[i].conv = sessions[i].conv
  BY <1>1, ConvKeeps
<1>3. sessions' = Closed(ss, s)
  BY DEF CloseWith
<1> HIDE DEF ss
<1>4. ss \in Seq(Session) /\ DOMAIN ss = DOMAIN sessions
  BY <1>2 DEF Kept
<1>5. /\ Kept(sessions', ss) /\ ~sessions'[s].open
      /\ \A i \in DOMAIN sessions : sessions'[i].conv = ss[i].conv
  BY <1>3, <1>4, ClosedKeeps
<1>6. Kept(sessions', sessions)
  BY <1>2, <1>5, KeptTwice
<1>7. NetOK'
  <2> DEFINE fin == Down(sessions[s].addr, "FIN", conv, sessions[s].sid)
  <2>1. net' \subseteq net \cup {fin}
    BY WriteIn DEF CloseWith
  <2>2. DatagramOK(fin)
    BY ToDialer
  <2> QED
    BY <2>1, <2>2, NetGrows
<1> QED
  BY <1>2, <1>5, <1>6, <1>7

\* A session that somebody is on the way to close, and closes.
LEMMA KeptTypes ==
  ASSUME TInv, Kept(sessions', sessions),
         UNCHANGED <<manager, conns, pending, accepted>>,
         leaving' \subseteq leaving
  PROVE  ListenerOK'
<1>1. sessions' \in Seq(Session) /\ DOMAIN sessions' = DOMAIN sessions
  BY DEF Kept
<1>2. leaving' \subseteq [s : DOMAIN sessions', conv : Nat]
  BY <1>1 DEF TInv, ListenerOK
<1> QED
  BY <1>1, <1>2 DEF TInv, ListenerOK

LEMMA ReaderCloseStep ==
  ASSUME KInv, ReaderClose
  PROVE  KInv'
<1>1. TInv /\ OpenIsKnown /\ reader.op = "close" /\ reader.s \in DOMAIN sessions /\ reader.conv \in Nat
  BY ReaderSession DEF KInv, ReaderClose
<1>2. /\ UNCHANGED <<manager, conns, pending, accepted, leaving, heard>> /\ UNCHANGED dialerVars
      /\ reader' = Reading /\ CloseWith(reader.s, reader.conv)
  BY DEF ReaderClose
<1>3. Kept(sessions', sessions) /\ ~sessions'[reader.s].open /\ NetOK'
  BY <1>1, <1>2, CloseWithKeeps
<1>4. ListenerOK' /\ DialerOK'
  BY <1>1, <1>2, <1>3, KeptTypes DEF TInv, DialerOK, dialerVars
<1>5. ReaderOK'
  BY <1>1, <1>2, <1>3 DEF TInv, ReaderOK, Readers, Kept
<1>6. OpenIsKnown'
  <2> SUFFICES ASSUME NEW s \in DOMAIN sessions', sessions'[s].open
               PROVE  \/ sessions'[s].sid \in DOMAIN conns' /\ conns'[sessions'[s].sid] = s
                      \/ \E l \in leaving' : l.s = s
    BY DEF OpenIsKnown
  <2>1. s # reader.s
    BY <1>3
  <2>2. s \in DOMAIN sessions /\ sessions[s].open /\ sessions'[s].sid = sessions[s].sid
    BY <1>3 DEF Kept
  <2> QED
    BY <1>1, <1>2, <2>1, <2>2 DEF OpenIsKnown
<1> QED
  BY <1>3, <1>4, <1>5, <1>6 DEF KInv, TInv

LEMMA ReadSegmentStep ==
  ASSUME KInv, NEW d \in net, ReadSegment(d)
  PROVE  KInv'
<1>1. TInv /\ d \in Datagram /\ reader.op = "read"
  BY DEF KInv, TInv, NetOK, DatagramOK, ReadSegment, Reads, Reading
<1>2. UNCHANGED listenerVars /\ UNCHANGED dialerVars /\ UNCHANGED heard
  BY DEF ReadSegment
<1>3. PICK rest \in After(d) :
       \/ /\ d.sid \in DOMAIN conns
          /\ reader' = [op |-> "input", s |-> conns[d.sid], d |-> d]
          /\ Drop(rest)
       \/ /\ d.sid \notin DOMAIN conns
          /\ Write(rest, Unknown(d))
          /\ UNCHANGED reader
  BY DEF ReadSegment
<1>4. ListenerOK' /\ DialerOK'
  BY <1>1, <1>2 DEF TInv, ListenerOK, DialerOK, listenerVars, dialerVars
<1>5. rest \subseteq net
  BY AfterIn
<1>6. NetOK'
  <2>1. net' \subseteq net \cup {Down(d.peer, "FIN", d.conv, d.sid)}
    BY <1>3, <1>5, WriteIn DEF Drop, Unknown
  <2> QED
    BY <1>1, <2>1, AnswerOK, NetGrows
<1>7. ReaderOK'
  <2>1. CASE reader' = reader
    BY <1>1, <1>2, <2>1 DEF TInv, ReaderOK, listenerVars
  <2>2. CASE d.sid \in DOMAIN conns /\ reader' = [op |-> "input", s |-> conns[d.sid], d |-> d]
    <3>1. conns[d.sid] \in DOMAIN sessions
      BY <1>1, <2>2 DEF TInv, ListenerOK
    <3> QED
      BY <1>1, <1>2, <2>2, <3>1 DEF TInv, ReaderOK, Readers, listenerVars
  <2> QED
    BY <1>3, <2>1, <2>2
<1>8. OpenIsKnown'
  BY <1>1, <1>2, Same, StillKnown DEF listenerVars
<1> QED
  BY <1>4, <1>6, <1>7, <1>8 DEF KInv, TInv

LEMMA InputStep ==
  ASSUME KInv, Input
  PROVE  KInv'
<1>1. TInv /\ reader.op = "input" /\ reader.s \in DOMAIN sessions /\ reader.d.peer \in Addrs
  BY ReaderSession DEF KInv, Input, Datagram
<1>2. UNCHANGED listenerVars /\ UNCHANGED dialerVars /\ UNCHANGED net /\ reader' = Reading
  BY DEF Input
<1>3. heard' \subseteq heard \cup {<<reader.s, reader.d.peer>>}
  BY DEF Input
<1>4. ListenerOK' /\ DialerOK' /\ NetOK'
  BY <1>1, <1>2 DEF TInv, ListenerOK, DialerOK, NetOK, DatagramOK, listenerVars, dialerVars
<1>5. ReaderOK'
  BY <1>1, <1>2, <1>3 DEF TInv, ReaderOK, Readers, listenerVars
<1>6. OpenIsKnown'
  BY <1>1, <1>2, Same, StillKnown DEF listenerVars
<1> QED
  BY <1>4, <1>5, <1>6 DEF KInv, TInv

-----------------------------------------------------------------------------
(* The handlers and the users.                                             *)

\* A step of the listener's side that opens no session and leaves conns, the
\* reader and the calls that are closing alone.
LEMMA QuietStep ==
  ASSUME KInv, Kept(sessions', sessions),
         UNCHANGED <<conns, leaving, reader, heard>>, UNCHANGED dialerVars,
         manager' \in {"running", "closing", "released", "closed"},
         pending' \in Seq(DOMAIN sessions), Len(pending') <= PendingCap,
         accepted' \subseteq DOMAIN sessions, NetOK'
  PROVE  KInv'
<1>1. TInv /\ sessions' \in Seq(Session) /\ DOMAIN sessions' = DOMAIN sessions
  BY DEF KInv, Kept
<1>2. ListenerOK'
  BY <1>1 DEF TInv, ListenerOK
<1>3. ReaderOK' /\ DialerOK'
  BY <1>1 DEF TInv, ReaderOK, DialerOK, dialerVars
<1>4. OpenIsKnown'
  BY <1>1, StillKnown
<1> QED
  BY <1>2, <1>3, <1>4 DEF KInv, TInv

LEMMA Unchanged ==
  ASSUME TInv
  PROVE  /\ net' = net => NetOK'
         /\ manager' = manager => manager' \in {"running", "closing", "released", "closed"}
         /\ pending' = pending => pending' \in Seq(DOMAIN sessions) /\ Len(pending') <= PendingCap
         /\ accepted' = accepted => accepted' \subseteq DOMAIN sessions
         /\ sessions' = sessions => Kept(sessions', sessions)
  BY Same, NetShrinks DEF TInv, ListenerOK

LEMMA HandlerStartStep ==
  ASSUME KInv, NEW s \in DOMAIN sessions, HandlerStart(s)
  PROVE  KInv'
<1>1. /\ UNCHANGED <<manager, conns, accepted, leaving, reader, heard, net>>
      /\ UNCHANGED dialerVars /\ TInv /\ sessions \in Seq(Session)
  BY DEF HandlerStart, KInv, TInv, ListenerOK
<1>2. Kept(sessions', sessions)
  <2>1. sessions' = [sessions EXCEPT ![s].handler = "select"] /\ "select" \in Handlers
    BY DEF HandlerStart, Handlers
  <2> QED
    BY <1>1, <2>1, HandlerKeeps
<1>3. pending' \in Seq(DOMAIN sessions) /\ Len(pending') <= PendingCap
  <2>1. pending \in Seq(DOMAIN sessions) /\ Len(pending) <= PendingCap /\ Len(pending) \in Nat
    BY <1>1, LenProperties DEF TInv, ListenerOK
  <2>2. CASE HasRoom(pending) /\ pending' = Append(pending, s)
    <3>1. pending' \in Seq(DOMAIN sessions) /\ Len(pending') = Len(pending) + 1
      BY <2>1, <2>2, AppendProperties
    <3>2. Len(pending) < PendingCap
      BY <2>2 DEF HasRoom
    <3> QED
      BY <2>1, <3>1, <3>2, Constants
  <2>3. CASE pending' = pending
    BY <2>1, <2>3
  <2> QED
    BY <2>2, <2>3 DEF HandlerStart
<1> QED
  BY <1>1, <1>2, <1>3, Unchanged, QuietStep

LEMMA HandlerSelectStep ==
  ASSUME KInv, NEW s \in DOMAIN sessions, HandlerSelect(s)
  PROVE  KInv'
<1>1. /\ UNCHANGED <<manager, conns, pending, accepted, leaving, reader, heard, net>>
      /\ UNCHANGED dialerVars /\ TInv /\ sessions \in Seq(Session)
  BY DEF HandlerSelect, KInv, TInv, ListenerOK
<1>2. PICK h \in Handlers : sessions' = [sessions EXCEPT ![s].handler = h]
  BY DEF HandlerSelect, Handlers
<1>3. Kept(sessions', sessions)
  BY <1>1, <1>2, HandlerKeeps
<1> QED
  BY <1>1, <1>3, Unchanged, QuietStep

LEMMA HandlerFinStep ==
  ASSUME KInv, NEW s \in DOMAIN sessions, HandlerFin(s)
  PROVE  KInv'
<1>1. /\ UNCHANGED <<manager, conns, pending, accepted, leaving, reader, heard>>
      /\ UNCHANGED dialerVars /\ TInv /\ sessions \in Seq(Session)
      /\ sessions[s].conv \in Nat
  BY SessionAt DEF HandlerFin, KInv, TInv, ListenerOK
<1>2. Kept(sessions', sessions)
  <2> DEFINE ss == Closed(sessions, s)
  <2>1. Kept(ss, sessions)
    BY <1>1, ClosedKeeps
  <2>2. sessions' = [ss EXCEPT ![s].handler = "done"] /\ "done" \in Handlers
    BY DEF HandlerFin, Handlers
  <2> HIDE DEF ss
  <2>3. ss \in Seq(Session) /\ s \in DOMAIN ss
    BY <2>1 DEF Kept
  <2>4. Kept(sessions', ss)
    BY <2>2, <2>3, HandlerKeeps
  <2> QED
    BY <2>1, <2>4, KeptTwice
<1>3. NetOK'
  <2>1. net' \subseteq net \cup {Fin(s)}
    BY WriteIn DEF HandlerFin
  <2>2. DatagramOK(Fin(s))
    BY <1>1, ToDialer DEF Fin
  <2> QED
    BY <1>1, <2>1, <2>2, NetGrows
<1> QED
  BY <1>1, <1>2, <1>3, Unchanged, QuietStep

LEMMA AcceptStep ==
  ASSUME KInv, Accept
  PROVE  KInv'
<1>1. /\ UNCHANGED <<manager, sessions, conns, leaving, reader, heard, net>>
      /\ UNCHANGED dialerVars /\ TInv
  BY DEF Accept, KInv
<1>2. pending \in Seq(DOMAIN sessions) /\ Len(pending) <= PendingCap /\ pending # <<>>
      /\ Len(pending) \in Nat
  BY <1>1, LenProperties DEF Accept, TInv, ListenerOK
<1>3. /\ Head(pending) \in DOMAIN sessions /\ Tail(pending) \in Seq(DOMAIN sessions)
      /\ Len(Tail(pending)) = Len(pending) - 1
  BY <1>2, HeadTailProperties
<1>4. pending' \in Seq(DOMAIN sessions) /\ Len(pending') <= PendingCap
  BY <1>2, <1>3, Constants DEF Accept
<1>5. accepted' \subseteq DOMAIN sessions
  BY <1>1, <1>3 DEF Accept, TInv, ListenerOK
<1> QED
  BY <1>1, <1>4, <1>5, Unchanged, QuietStep

LEMMA SendStep ==
  ASSUME KInv, NEW s \in accepted, Send(s)
  PROVE  KInv'
<1>1. /\ UNCHANGED listenerVars /\ UNCHANGED <<reader, heard>> /\ UNCHANGED dialerVars /\ TInv
      /\ s \in DOMAIN sessions /\ sessions \in Seq(Session)
  BY DEF Send, KInv, TInv, ListenerOK
<1>2. sessions[s].conv \in Nat
  BY <1>1, SessionAt
<1>3. NetOK'
  <2> DEFINE seg == Down(sessions[s].addr, "SEG", sessions[s].conv, sessions[s].sid)
  <2>1. net' \subseteq net \cup {seg}
    BY WriteIn DEF Send
  <2>2. DatagramOK(seg)
    BY <1>1, <1>2, ToDialer
  <2> QED
    BY <1>1, <2>1, <2>2, NetGrows
<1> QED
  BY <1>1, <1>3, Unchanged, QuietStep DEF listenerVars

LEMMA CloseSessionStep ==
  ASSUME KInv, NEW s \in accepted, CloseSession(s)
  PROVE  KInv'
<1>1. /\ UNCHANGED <<manager, conns, pending, accepted, leaving, reader, heard>>
      /\ UNCHANGED dialerVars /\ TInv
      /\ s \in DOMAIN sessions /\ sessions \in Seq(Session)
  BY DEF CloseSession, KInv, TInv, ListenerOK
<1>2. Kept(sessions', sessions)
  BY <1>1, ClosedKeeps DEF CloseSession
<1>3. NetOK'
  <2>1. net' \subseteq net \cup {Fin(s)}
    BY WriteIn DEF CloseSession
  <2>2. sessions[s].conv \in Nat
    BY <1>1, SessionAt
  <2>3. DatagramOK(Fin(s))
    BY <1>1, <2>2, ToDialer DEF Fin
  <2> QED
    BY <1>1, <2>1, <2>3, NetGrows
<1> QED
  BY <1>1, <1>2, <1>3, Unchanged, QuietStep

LEMMA DisconnectSessionStep ==
  ASSUME KInv, NEW s \in accepted, DisconnectSession(s)
  PROVE  KInv'
<1> DEFINE sid == sessions[s].sid
<1>1. /\ UNCHANGED <<manager, sessions, pending, accepted, reader, heard>>
      /\ UNCHANGED dialerVars /\ TInv /\ OpenIsKnown
      /\ s \in DOMAIN sessions /\ sessions \in Seq(Session)
  BY DEF DisconnectSession, KInv, TInv, ListenerOK
<1>2. sessions[s].conv \in Nat
  BY <1>1, SessionAt
<1>3. CASE /\ sid \in DOMAIN conns
           /\ conns' = Without(conns, sid)
           /\ leaving' = leaving \cup {[s |-> conns[sid], conv |-> sessions[s].conv]}
           /\ UNCHANGED net
  <2>1. conns[sid] \in DOMAIN sessions
    BY <1>1, <1>3 DEF TInv, ListenerOK
  <2>2. /\ DOMAIN conns' = DOMAIN conns \ {sid} /\ DOMAIN conns' \subseteq Sids
        /\ conns' \in [DOMAIN conns' -> DOMAIN sessions]
        /\ \A y \in DOMAIN conns \ {sid} : conns'[y] = conns[y]
    BY <1>1, <1>3, WithoutOK DEF TInv, ListenerOK
  <2>3. leaving' \subseteq [s : DOMAIN sessions, conv : Nat]
    BY <1>1, <1>2, <1>3, <2>1 DEF TInv, ListenerOK
  <2>4. ListenerOK'
    BY <1>1, <2>2, <2>3 DEF TInv, ListenerOK
  <2>5. ReaderOK' /\ DialerOK' /\ NetOK'
    BY <1>1, <1>3, Unchanged DEF TInv, ReaderOK, DialerOK, dialerVars
  <2>6. OpenIsKnown'
    <3> SUFFICES ASSUME NEW i \in DOMAIN sessions, sessions[i].open
                 PROVE  \/ sessions[i].sid \in DOMAIN conns' /\ conns'[sessions[i].sid] = i
                        \/ reader.op = "close" /\ reader.s = i
                        \/ \E l \in leaving' : l.s = i
      BY <1>1 DEF OpenIsKnown
    <3>1. CASE sessions[i].sid = sid /\ conns[sid] = i
      <4>1. [s |-> conns[sid], conv |-> sessions[s].conv] \in leaving'
        BY <1>3
      <4>2. [s |-> conns[sid], conv |-> sessions[s].conv].s = i
        BY <3>1
      <4> QED
        BY <4>1, <4>2, Zenon
    <3>2. CASE sessions[i].sid # sid \/ conns[sid] # i
      <4>1. leaving \subseteq leaving'
        BY <1>3
      <4>2. CASE sessions[i].sid \in DOMAIN conns /\ conns[sessions[i].sid] = i
        <5>1. sessions[i].sid \in DOMAIN conns \ {sid}
          BY <3>2, <4>2
        <5> QED
          BY <2>2, <4>2, <5>1
      <4>3. CASE \/ reader.op = "close" /\ reader.s = i
                 \/ \E l \in leaving : l.s = i
        BY <4>1, <4>3
      <4> QED
        BY <1>1, <4>2, <4>3 DEF OpenIsKnown
    <3> QED
      BY <3>1, <3>2
  <2> QED
    BY <2>4, <2>5, <2>6 DEF KInv, TInv
<1>4. CASE Write(net, {Fin(s)}) /\ UNCHANGED <<conns, leaving>>
  <2>1. net' \subseteq net \cup {Fin(s)}
    BY <1>4, WriteIn
  <2>2. DatagramOK(Fin(s))
    BY <1>1, <1>2, ToDialer DEF Fin
  <2>3. NetOK'
    BY <1>1, <2>1, <2>2, NetGrows
  <2> QED
    BY <1>1, <1>4, <2>3, Unchanged, QuietStep
<1> QED
  BY <1>3, <1>4 DEF DisconnectSession

LEMMA DisconnectCloseStep ==
  ASSUME KInv, NEW l \in leaving, DisconnectClose(l)
  PROVE  KInv'
<1>1. TInv /\ OpenIsKnown /\ l.s \in DOMAIN sessions /\ l.conv \in Nat
  BY DEF KInv, TInv, ListenerOK
<1>2. /\ UNCHANGED <<manager, conns, pending, accepted, reader, heard>> /\ UNCHANGED dialerVars
      /\ leaving' = leaving \ {l} /\ CloseWith(l.s, l.conv)
  BY DEF DisconnectClose
<1>3. Kept(sessions', sessions) /\ ~sessions'[l.s].open /\ NetOK'
  BY <1>1, <1>2, CloseWithKeeps
<1>4. ListenerOK' /\ DialerOK'
  BY <1>1, <1>2, <1>3, KeptTypes DEF TInv, DialerOK, dialerVars
<1>5. ReaderOK'
  BY <1>1, <1>2, <1>3 DEF TInv, ReaderOK, Kept
<1>6. OpenIsKnown'
  <2> SUFFICES ASSUME NEW s \in DOMAIN sessions', sessions'[s].open
               PROVE  \/ sessions'[s].sid \in DOMAIN conns' /\ conns'[sessions'[s].sid] = s
                      \/ reader'.op = "close" /\ reader'.s = s
                      \/ \E x \in leaving' : x.s = s
    BY DEF OpenIsKnown
  <2>1. s # l.s
    BY <1>3
  <2>2. s \in DOMAIN sessions /\ sessions[s].open /\ sessions'[s].sid = sessions[s].sid
    BY <1>3 DEF Kept
  <2> QED
    BY <1>1, <1>2, <2>1, <2>2 DEF OpenIsKnown
<1> QED
  BY <1>3, <1>4, <1>5, <1>6 DEF KInv, TInv

LEMMA CloseStep ==
  ASSUME KInv, Close
  PROVE  KInv'
<1> DEFINE shut(s) == [sessions[s] EXCEPT !.open = FALSE,
                         !.handler = IF @ = "blocked" THEN "fin" ELSE @]
<1>1. /\ UNCHANGED <<conns, pending, accepted, leaving, reader, heard, net>>
      /\ UNCHANGED dialerVars /\ TInv /\ manager' = "closing"
  BY DEF Close, KInv
<1>2. sessions \in Seq(Session) /\ Len(sessions) \in Nat /\ DOMAIN sessions = 1..Len(sessions)
  BY <1>1, SessionAt DEF TInv, ListenerOK
<1>3. ASSUME NEW s \in DOMAIN sessions
      PROVE  /\ shut(s) \in Session /\ shut(s).sid = sessions[s].sid
             /\ shut(s).addr = sessions[s].addr
  <2>1. sessions[s] \in Session
    BY <1>2, SessionAt
  <2> QED
    BY <2>1 DEF Session, Handlers
<1>4. ASSUME NEW s \in DOMAIN sessions
      PROVE  ~shut(s).open
  <2>1. sessions[s] \in Session
    BY <1>2, SessionAt
  <2> QED
    BY <2>1 DEF Session
<1>5. sessions' = [s \in DOMAIN sessions |-> shut(s)]
  BY DEF Close
<1> HIDE DEF shut
<1>6. sessions' \in [1..Len(sessions) -> Session]
  BY <1>2, <1>3, <1>5
<1>7. sessions' \in Seq(Session) /\ DOMAIN sessions' = DOMAIN sessions
  BY <1>2, <1>6, SeqDef
<1>8. Kept(sessions', sessions)
  <2>1. ASSUME NEW i \in DOMAIN sessions
        PROVE  /\ sessions'[i].sid = sessions[i].sid /\ sessions'[i].addr = sessions[i].addr
               /\ ~sessions'[i].open
    BY <1>3, <1>4, <1>5
  <2> QED
    BY <1>7, <2>1 DEF Kept
<1> QED
  BY <1>1, <1>8, Unchanged, QuietStep

LEMMA CloseReleasesStep ==
  ASSUME KInv, CloseReleases
  PROVE  KInv'
<1>1. /\ UNCHANGED <<sessions, conns, pending, accepted, leaving, reader, heard, net>>
      /\ UNCHANGED dialerVars /\ TInv /\ manager' = "released"
  BY DEF CloseReleases, KInv
<1> QED
  BY <1>1, Unchanged, QuietStep

LEMMA CloseSocketStep ==
  ASSUME KInv, CloseSocket
  PROVE  KInv'
<1>1. /\ UNCHANGED <<sessions, conns, pending, accepted, leaving, reader, heard>>
      /\ UNCHANGED dialerVars /\ TInv /\ manager' = "closed" /\ net' \subseteq net
  BY DEF CloseSocket, KInv
<1> QED
  BY <1>1, Unchanged, NetShrinks, QuietStep

-----------------------------------------------------------------------------
(* The dialing process.                                                    *)

LEMMA DialerQuiet ==
  ASSUME KInv, UNCHANGED listenerVars, UNCHANGED <<reader, heard>>, DialerOK', NetOK'
  PROVE  KInv'
<1>1. ListenerOK' /\ ReaderOK'
  BY DEF KInv, TInv, ListenerOK, ReaderOK, listenerVars
<1>2. OpenIsKnown'
  BY Same, StillKnown DEF KInv, listenerVars
<1> QED
  BY <1>1, <1>2 DEF KInv, TInv

LEMMA DialedAt ==
  ASSUME TInv, NEW a \in Addrs
  PROVE  /\ dial[a] \in Dialed /\ dial[a].conv \in Nat /\ dial[a].sid \in Nat
         /\ IF dial[a].state \in {"open", "closed"} THEN dial[a].sid \in Sids
            ELSE dial[a].sid = 0
  BY DEF TInv, DialerOK, Dialed

\* The datagrams that a dialed session writes.
LEMMA FromDialer ==
  ASSUME TInv, NEW a \in Addrs, NEW cmd \in {"SYN", "FIN", "SEG"}
  PROVE  DatagramOK(Up(a, cmd, dial[a].conv, dial[a].sid))
<1>1. dial[a].conv \in Nat /\ dial[a].sid \in Sids \cup {0} /\ dial[a].sid \in Nat
  BY DialedAt
<1> QED
  BY <1>1 DEF DatagramOK, Datagram, Up

\* A dialed session that changes, but keeps to its ids.
LEMMA DialChanges ==
  ASSUME TInv, NEW a \in Addrs, NEW r \in Dialed,
         IF r.state \in {"open", "closed"} THEN r.sid \in Sids ELSE r.sid = 0,
         dial' = [dial EXCEPT ![a] = r],
         DOMAIN unmanaged' \subseteq Sids, unmanaged' \in [DOMAIN unmanaged' -> Addrs],
         panicked' \in BOOLEAN
  PROVE  DialerOK'
<1>1. dial \in [Addrs -> Dialed]
  BY DEF TInv, DialerOK
<1>2. dial' \in [Addrs -> Dialed]
  BY <1>1
<1>3. ASSUME NEW b \in Addrs
      PROVE  IF dial'[b].state \in {"open", "closed"} THEN dial'[b].sid \in Sids
             ELSE dial'[b].sid = 0
  <2>1. CASE b = a
    BY <1>1, <1>3, <2>1
  <2>2. CASE b # a
    BY <1>1, <1>3, <2>2 DEF TInv, DialerOK
  <2> QED
    BY <2>1, <2>2
<1> QED
  BY <1>2, <1>3 DEF DialerOK

LEMMA DialStep ==
  ASSUME KInv, NEW a \in Addrs, Dial(a)
  PROVE  KInv'
<1> DEFINE r == [dial[a] EXCEPT !.state = "opening"]
<1>1. /\ UNCHANGED listenerVars /\ UNCHANGED <<reader, heard, unmanaged, panicked>> /\ TInv
      /\ dial[a] \in Dialed /\ dial[a].sid = 0
  BY DialedAt DEF Dial, KInv
<1>2. r \in Dialed /\ r.state = "opening" /\ r.sid = 0
  BY <1>1 DEF Dialed
<1>3. dial' = [dial EXCEPT ![a] = r]
  BY DEF Dial
<1> HIDE DEF r
<1>4. DialerOK'
  BY <1>1, <1>2, <1>3, DialChanges DEF TInv, DialerOK
<1>5. NetOK'
  <2>1. net' \subseteq net \cup {Up(a, "SYN", 0, 0)}
    BY DEF Dial
  <2>2. DatagramOK(Up(a, "SYN", 0, 0))
    BY DEF DatagramOK, Datagram, Up
  <2> QED
    BY <1>1, <2>1, <2>2, NetGrows
<1> QED
  BY <1>1, <1>4, <1>5, DialerQuiet

LEMMA DialerAckStep ==
  ASSUME KInv, NEW d \in net, DialerAck(d)
  PROVE  KInv'
<1> DEFINE a == d.peer
           r == [dial[a] EXCEPT !.state = "open", !.conv = d.conv, !.sid = d.sid]
<1>1. /\ UNCHANGED listenerVars /\ UNCHANGED <<reader, heard, unmanaged, panicked>> /\ TInv
      /\ a \in Addrs /\ d.conv \in Nat /\ d.sid \in Sids /\ d.sid \in Nat
  BY DEF DialerAck, KInv, TInv, NetOK, DatagramOK, Datagram
<1>2. dial[a] \in Dialed
  BY <1>1, DialedAt
<1>3. r \in Dialed /\ r.state = "open" /\ r.sid \in Sids
  BY <1>1, <1>2 DEF Dialed
<1>4. dial' = [dial EXCEPT ![a] = r] \/ dial' = dial
  BY DEF DialerAck
<1> HIDE DEF r
<1>5. DialerOK'
  <2>1. CASE dial' = dial
    BY <1>1, <2>1 DEF TInv, DialerOK
  <2>2. CASE dial' = [dial EXCEPT ![a] = r]
    BY <1>1, <1>3, <2>2, DialChanges DEF TInv, DialerOK
  <2> QED
    BY <1>4, <2>1, <2>2
<1>6. NetOK'
  BY <1>1, AfterIn, NetShrinks DEF DialerAck, Drop
<1> QED
  BY <1>1, <1>5, <1>6, DialerQuiet

LEMMA DialReturnsStep ==
  ASSUME KInv, NEW a \in Addrs, DialReturns(a)
  PROVE  KInv'
<1> DEFINE r == [dial[a] EXCEPT !.returned = TRUE]
<1>1. /\ UNCHANGED listenerVars /\ UNCHANGED <<reader, heard, panicked, net>> /\ TInv
      /\ dial[a] \in Dialed /\ dial[a].state \in {"open", "closed"} /\ dial[a].sid \in Sids
  BY DialedAt DEF DialReturns, KInv
<1>2. r \in Dialed /\ r.state \in {"open", "closed"} /\ r.sid \in Sids
  BY <1>1 DEF Dialed
<1>3. dial' = [dial EXCEPT ![a] = r]
  BY DEF DialReturns
<1> HIDE DEF r
<1>4. DOMAIN unmanaged' \subseteq Sids /\ unmanaged' \in [DOMAIN unmanaged' -> Addrs]
  <2>1. unmanaged' = With(unmanaged, dial[a].sid, a)
    BY DEF DialReturns
  <2>2. DOMAIN unmanaged \subseteq Sids /\ unmanaged \in [DOMAIN unmanaged -> Addrs]
    BY <1>1 DEF TInv, DialerOK
  <2> QED
    BY <1>1, <2>1, <2>2 DEF With
<1>5. DialerOK'
  BY <1>1, <1>2, <1>3, <1>4, DialChanges DEF TInv, DialerOK
<1> QED
  BY <1>1, <1>5, Unchanged, DialerQuiet

LEMMA DialedCloseStep ==
  ASSUME KInv, NEW a \in Addrs, NEW rest, rest \subseteq net, dial[a].state = "open",
         DialedClose(a, rest)
  PROVE  KInv'
<1> DEFINE r == [dial[a] EXCEPT !.state = "closed"]
<1>1. /\ UNCHANGED listenerVars /\ UNCHANGED <<reader, heard, panicked>> /\ TInv
      /\ dial[a] \in Dialed /\ dial[a].sid \in Sids
  BY DialedAt DEF DialedClose, KInv
<1>2. r \in Dialed /\ r.state = "closed" /\ r.sid \in Sids
  BY <1>1 DEF Dialed
<1>3. dial' = [dial EXCEPT ![a] = r]
  BY DEF DialedClose
<1> HIDE DEF r
<1>4. DOMAIN unmanaged' \subseteq Sids /\ unmanaged' \in [DOMAIN unmanaged' -> Addrs]
  BY <1>1, WithoutOK DEF DialedClose, TInv, DialerOK
<1>5. DialerOK'
  BY <1>1, <1>2, <1>3, <1>4, DialChanges DEF TInv, DialerOK
<1>6. NetOK'
  <2> DEFINE fin == Up(a, "FIN", dial[a].conv, dial[a].sid)
  <2>1. net' \subseteq net \cup {fin}
    BY WriteIn DEF DialedClose
  <2>2. DatagramOK(fin)
    BY <1>1, FromDialer
  <2> QED
    BY <1>1, <2>1, <2>2, NetGrows
<1> QED
  BY <1>1, <1>5, <1>6, DialerQuiet

\* The steps that leave the dialed sessions as they are.
LEMMA DialerSends ==
  ASSUME KInv, NEW a \in Addrs, ClientSyn(a) \/ DialerSend(a)
  PROVE  KInv'
<1>1. /\ UNCHANGED listenerVars /\ UNCHANGED <<reader, heard>> /\ UNCHANGED dialerVars /\ TInv
  BY DEF ClientSyn, DialerSend, KInv
<1>2. PICK cmd \in {"SYN", "SEG"} : Write(net, {Up(a, cmd, dial[a].conv, dial[a].sid)})
  BY DEF ClientSyn, DialerSend
<1>3. net' \subseteq net \cup {Up(a, cmd, dial[a].conv, dial[a].sid)}
  BY <1>2, WriteIn
<1>4. DatagramOK(Up(a, cmd, dial[a].conv, dial[a].sid))
  BY <1>1, FromDialer
<1>5. DialerOK' /\ NetOK'
  BY <1>1, <1>3, <1>4, NetGrows DEF TInv, DialerOK, dialerVars
<1> QED
  BY <1>1, <1>5, DialerQuiet

LEMMA DialerReads ==
  ASSUME KInv, NEW d \in net, DialerSegment(d) \/ DialerPanics(d)
  PROVE  KInv'
<1>1. /\ UNCHANGED listenerVars /\ UNCHANGED <<reader, heard, dial, unmanaged>> /\ TInv
      /\ panicked' \in BOOLEAN
  BY DEF DialerSegment, DialerPanics, KInv, TInv, DialerOK, dialerVars
<1>2. net' \subseteq net
  BY AfterIn DEF DialerSegment, DialerPanics, Drop
<1>3. DialerOK' /\ NetOK'
  BY <1>1, <1>2, NetShrinks DEF TInv, DialerOK
<1> QED
  BY <1>1, <1>3, DialerQuiet

LEMMA DialerClosesStep ==
  ASSUME KInv, \/ \E d \in net : DialerFin(d)
               \/ \E a \in Addrs : DialerClose(a)
  PROVE  KInv'
<1>1. ASSUME NEW d \in net, DialerFin(d)
      PROVE  KInv'
  <2>1. d.peer \in Addrs
    BY DEF KInv, TInv, NetOK, DatagramOK, Datagram
  <2>2. dial[d.peer].state = "open" /\ DialedClose(d.peer, net \ {d})
    BY <1>1 DEF DialerFin
  <2> QED
    BY <2>1, <2>2, DialedCloseStep
<1>2. ASSUME NEW a \in Addrs, DialerClose(a)
      PROVE  KInv'
  BY <1>2, DialedCloseStep DEF DialerClose
<1> QED
  BY <1>1, <1>2

-----------------------------------------------------------------------------
(* The invariant.                                                          *)

LEMMA Initially == Init => KInv
<1> SUFFICES ASSUME Init
             PROVE  KInv
  OBVIOUS
<1>1. DOMAIN sessions = {} /\ sessions \in Seq(Session)
  BY DEF Init
<1>2. pending \in Seq(DOMAIN sessions) /\ Len(pending) = 0
  BY DEF Init
<1>3. ListenerOK
  BY <1>1, <1>2, Constants DEF Init, ListenerOK
<1>4. ReaderOK /\ DialerOK /\ NetOK
  BY DEF Init, ReaderOK, Readers, DialerOK, Dialed, NetOK
<1>5. OpenIsKnown
  BY <1>1 DEF OpenIsKnown
<1> QED
  BY <1>3, <1>4, <1>5 DEF KInv, TInv

LEMMA Inductive == KInv /\ [Next]_vars => KInv'
<1> SUFFICES ASSUME KInv, [Next]_vars
             PROVE  KInv'
  OBVIOUS
<1>1. CASE ReaderStep
  BY <1>1, ReadSynStep, ReadFinStep, ReadSegmentStep, WriteAckStep, ReaderCloseStep, InputStep
     DEF ReaderStep
<1>2. CASE \E s \in DOMAIN sessions : HandlerStep(s)
  BY <1>2, HandlerStartStep, HandlerSelectStep, HandlerFinStep DEF HandlerStep
<1>3. CASE UserStep
  BY <1>3, AcceptStep, CloseStep, CloseReleasesStep, CloseSocketStep, SendStep, CloseSessionStep,
     DisconnectSessionStep, DisconnectCloseStep DEF UserStep
<1>4. CASE DialerStep
  BY <1>4, DialStep, DialReturnsStep, DialerClosesStep, DialerSends, DialerAckStep, DialerReads
     DEF DialerStep
<1>5. CASE UNCHANGED vars
  <2>1. /\ UNCHANGED listenerVars /\ UNCHANGED <<reader, heard>> /\ UNCHANGED dialerVars
        /\ UNCHANGED net
    BY <1>5 DEF vars
  <2>2. DialerOK' /\ NetOK'
    BY <2>1, Unchanged DEF KInv, TInv, DialerOK, dialerVars
  <2> QED
    BY <2>1, <2>2, DialerQuiet
<1> QED
  BY <1>1, <1>2, <1>3, <1>4, <1>5 DEF Next

LEMMA KInvAlways == Spec => []KInv
<1>1. Init => KInv
  BY Initially
<1>2. KInv /\ [Next]_vars => KInv'
  BY Inductive
<1> QED
  BY <1>1, <1>2, PTL DEF Spec

\* The variables have their types, and all session ids in the maps, in the
\* dialed sessions and in flight are ones the listener can give.
THEOREM TypesHold == Spec => []TypeOK
<1>1. KInv => TypeOK
  BY TInvTypes DEF KInv
<1> QED
  BY <1>1, KInvAlways, PTL

\* Whatever closes sessions and whenever, a session whose context is alive is
\* found by the next segment, or somebody is about to close it.
THEOREM OpenIsKnownHolds == Spec => []OpenIsKnown
<1>1. KInv => OpenIsKnown
  BY DEF KInv
<1> QED
  BY <1>1, KInvAlways, PTL

\* A dialed session that has started keeps the convID of its first ACK.
LEMMA StartedStays ==
  ASSUME KInv, [Next]_vars, NEW a \in Addrs, dial[a].state \in {"open", "closed"}
  PROVE  dial'[a].state \in {"open", "closed"} /\ dial'[a].conv = dial[a].conv
<1> DEFINE Stays == dial'[a].state \in {"open", "closed"} /\ dial'[a].conv = dial[a].conv
<1>1. dial \in [Addrs -> Dialed] /\ dial[a] \in Dialed
  BY DEF KInv, TInv, DialerOK
<1>2. dial' = dial => Stays
  OBVIOUS
<1>3. ASSUME NEW b \in Addrs, Dial(b) \/ DialReturns(b)
      PROVE  Stays
  <2>1. CASE Dial(b)
    BY <1>1, <2>1 DEF Dial, Dialed
  <2>2. CASE DialReturns(b)
    BY <1>1, <2>2 DEF DialReturns, Dialed
  <2> QED
    BY <1>3, <2>1, <2>2
<1>4. ASSUME NEW b, NEW rest, DialedClose(b, rest)
      PROVE  Stays
  BY <1>1, <1>4 DEF DialedClose, Dialed
<1>5. ASSUME NEW d \in net, DialerAck(d)
      PROVE  Stays
  BY <1>1, <1>5 DEF DialerAck, Starts, Dialed
<1> SUFFICES Stays
  OBVIOUS
<1> HIDE DEF Stays
<1>6. CASE ReaderStep
  BY <1>2, <1>6 DEF ReaderStep, ReadSyn, ReadFin, ReadSegment, WriteAck, ReaderClose, Input, dialerVars
<1>7. CASE \E s \in DOMAIN sessions : HandlerStep(s)
  BY <1>2, <1>7 DEF HandlerStep, HandlerStart, HandlerSelect, HandlerFin, dialerVars
<1>8. CASE UserStep
  BY <1>2, <1>8 DEF UserStep, Accept, Close, CloseReleases, CloseSocket, Send, CloseSession,
                    DisconnectSession, DisconnectClose, dialerVars
<1>9. CASE DialerStep
  <2>1. /\ \A b : DialerClose(b) => DialedClose(b, net)
        /\ \A d : DialerFin(d) => DialedClose(d.peer, net \ {d})
    BY DEF DialerClose, DialerFin
  <2>2. /\ \A b : DialerSend(b) \/ ClientSyn(b) => dial' = dial
        /\ \A d : DialerSegment(d) \/ DialerPanics(d) => dial' = dial
    BY DEF DialerSend, ClientSyn, DialerSegment, DialerPanics, dialerVars
  <2> QED
    BY <1>2, <1>3, <1>4, <1>5, <1>9, <2>1, <2>2, Zenon DEF DialerStep
<1>10. CASE UNCHANGED vars
  BY <1>2, <1>10 DEF vars, dialerVars
<1> QED
  BY <1>6, <1>7, <1>8, <1>9, <1>10 DEF Next

-----------------------------------------------------------------------------
(* No foreign input, unless DisconnectSession is called.                   *)

\* The nth session is one of a's.
Belongs(n, a) == n \in DOMAIN sessions /\ sessions[n].addr = a

\* conns maps ids to their own sessions, which have the convID they were made
\* with: it is overwritten only after a session has left conns.
ConnsOwn ==
  \A sid \in DOMAIN conns :
    sessions[conns[sid]].sid = sid /\ sessions[conns[sid]].conv = conns[sid]

\* So have the sessions that the reader has looked up and is about to use.
ReaderOwn ==
  /\ reader.op \in {"ack", "input"} => sessions[reader.s].conv = reader.s
  /\ reader.op = "close" => sessions[reader.s].sid \notin DOMAIN conns
  /\ reader.op = "input" => Belongs(reader.d.conv, reader.d.peer)

\* A client has a convID only from the ACK of one of its own sessions.
OwnDatagram(d) ==
  d.cmd = "ACK" \/ (d.cmd = "SEG" /\ d.dir = "up") => Belongs(d.conv, d.peer)

NetOwn == \A d \in net : OwnDatagram(d)

DialOwn == \A a \in Addrs : dial[a].state \in {"open", "closed"} => Belongs(dial[a].conv, a)

Own == leaving = {} /\ ConnsOwn /\ ReaderOwn /\ NetOwn /\ DialOwn /\ NoForeignInput

FInv == KInv /\ Own

\* What the sessions were made with stays.
Steady ==
  \A i \in DOMAIN sessions :
    /\ i \in DOMAIN sessions' /\ sessions'[i].addr = sessions[i].addr
    /\ sessions'[i].sid = sessions[i].sid /\ sessions'[i].conv = sessions[i].conv

\* All but the reader's own session are as they were made.
Owned ==
  \A i \in DOMAIN sessions : i \in DOMAIN sessions' /\ sessions'[i].addr = sessions[i].addr

LEMMA StillBelongs ==
  ASSUME Owned, NEW n, NEW a, Belongs(n, a)
  PROVE  n \in DOMAIN sessions' /\ sessions'[n].addr = a
  BY DEF Owned, Belongs

LEMMA SteadyOwned == Steady => Owned
  BY DEF Steady, Owned

LEMMA NetStaysOwn ==
  ASSUME FInv, Owned, NEW d, OwnDatagram(d), net' \subseteq net \cup {d}
  PROVE  NetOwn'
<1> SUFFICES ASSUME NEW x \in net', x.cmd = "ACK" \/ (x.cmd = "SEG" /\ x.dir = "up")
             PROVE  x.conv \in DOMAIN sessions' /\ sessions'[x.conv].addr = x.peer
  BY DEF NetOwn, OwnDatagram, Belongs
<1>1. OwnDatagram(x)
  BY DEF FInv, Own, NetOwn
<1> QED
  BY <1>1, StillBelongs DEF OwnDatagram

LEMMA NetShrinksOwn ==
  ASSUME FInv, Owned, net' \subseteq net
  PROVE  NetOwn'
<1> SUFFICES ASSUME NEW x \in net', x.cmd = "ACK" \/ (x.cmd = "SEG" /\ x.dir = "up")
             PROVE  x.conv \in DOMAIN sessions' /\ sessions'[x.conv].addr = x.peer
  BY DEF NetOwn, OwnDatagram, Belongs
<1>1. OwnDatagram(x)
  BY DEF FInv, Own, NetOwn
<1> QED
  BY <1>1, StillBelongs DEF OwnDatagram

LEMMA DialStaysOwn ==
  ASSUME FInv, Owned, dial' = dial
  PROVE  DialOwn'
<1> SUFFICES ASSUME NEW a \in Addrs, dial[a].state \in {"open", "closed"}
             PROVE  dial[a].conv \in DOMAIN sessions' /\ sessions'[dial[a].conv].addr = a
  BY DEF DialOwn, Belongs
<1>1. Belongs(dial[a].conv, a)
  BY DEF FInv, Own, DialOwn
<1> QED
  BY <1>1, StillBelongs

LEMMA HeardStaysOwn ==
  ASSUME FInv, Owned, heard' = heard
  PROVE  NoForeignInput'
<1> SUFFICES ASSUME NEW h \in heard
             PROVE  sessions'[h[1]].addr = h[2]
  BY DEF NoForeignInput
<1>1. h[1] \in DOMAIN sessions
  BY DEF FInv, KInv, TInv, ReaderOK
<1> QED
  BY <1>1 DEF FInv, Own, NoForeignInput, Owned

\* Steps that look up nothing and register nothing.
LEMMA MapsStayOwn ==
  ASSUME FInv, Steady, UNCHANGED <<conns, leaving>>,
         \/ reader' = reader
         \/ reader' = Reading
  PROVE  (leaving = {})' /\ ConnsOwn' /\ ReaderOwn'
<1>1. ConnsOwn'
  <2> SUFFICES ASSUME NEW sid \in DOMAIN conns
               PROVE  sessions'[conns[sid]].sid = sid /\ sessions'[conns[sid]].conv = conns[sid]
    BY DEF ConnsOwn
  <2>1. conns[sid] \in DOMAIN sessions
    BY DEF FInv, KInv, TInv, ListenerOK
  <2> QED
    BY <2>1 DEF FInv, Own, ConnsOwn, Steady
<1>2. ReaderOwn'
  <2>1. CASE reader' = Reading
    BY <2>1 DEF ReaderOwn, Reading
  <2>2. CASE reader' = reader
    <3>1. reader.op \in {"ack", "input", "close"} => reader.s \in DOMAIN sessions
      BY ReaderSession DEF FInv, KInv
    <3>2. reader.op \in {"ack", "input"} => sessions'[reader.s].conv = reader.s
      BY <3>1 DEF FInv, Own, ReaderOwn, Steady
    <3>3. reader.op = "close" => sessions'[reader.s].sid \notin DOMAIN conns
      BY <3>1 DEF FInv, Own, ReaderOwn, Steady
    <3>4. reader.op = "input" =>
            reader.d.conv \in DOMAIN sessions' /\ sessions'[reader.d.conv].addr = reader.d.peer
      BY StillBelongs, SteadyOwned DEF FInv, Own, ReaderOwn
    <3> QED
      BY <2>2, <3>2, <3>3, <3>4 DEF ReaderOwn, Belongs
  <2> QED
    BY <2>1, <2>2
<1> QED
  BY <1>1, <1>2 DEF FInv, Own

\* Steps of the listener's side that neither read nor write an id.
LEMMA QuietOwn ==
  ASSUME FInv, Steady, UNCHANGED <<conns, leaving, reader, dial, heard>>, NetOwn'
  PROVE  Own'
  BY MapsStayOwn, DialStaysOwn, HeardStaysOwn, SteadyOwned DEF Own

LEMMA SameSteady ==
  ASSUME sessions' = sessions
  PROVE  Steady
  BY DEF Steady

LEMMA ReadSynOwn ==
  ASSUME FInv, NEW d \in net, ReadSyn(d)
  PROVE  Own'
<1> DEFINE n == Len(sessions)
<1>1. /\ TInv /\ ConnsOwn /\ d.peer \in Addrs /\ d.sid \in Sids \cup {0}
  BY DEF FInv, Own, KInv, TInv, NetOK, DatagramOK, Datagram
<1>2. net' \subseteq net /\ UNCHANGED <<leaving, heard, dial>>
  BY AfterIn DEF ReadSyn, Drop, dialerVars
<1>3. n \in Nat /\ DOMAIN sessions = 1..n /\ sessions \in Seq(Session)
  BY <1>1, SessionAt DEF TInv, ListenerOK
<1>4. CASE /\ d.sid \in DOMAIN conns
           /\ reader' = [op |-> "ack", s |-> conns[d.sid]]
           /\ UNCHANGED <<sessions, conns>>
  <2>1. Steady /\ Owned
    BY <1>4, SameSteady, SteadyOwned
  <2>2. ReaderOwn'
    BY <1>1, <1>4 DEF ConnsOwn, ReaderOwn
  <2>3. ConnsOwn' /\ NoForeignInput'
    BY <1>1, <1>2, <1>4 DEF ConnsOwn, NoForeignInput, FInv, Own
  <2>4. NetOwn' /\ DialOwn'
    BY <1>2, <2>1, NetShrinksOwn, DialStaysOwn
  <2> QED
    BY <1>2, <2>2, <2>3, <2>4 DEF FInv, Own
<1>5. ASSUME NEW sid, sid \in IF d.sid = 0 THEN nextSessionID ELSE {d.sid},
             d.sid \notin DOMAIN conns,
             sessions' = Append(sessions,
               [sid |-> sid, conv |-> n + 1, addr |-> d.peer,
                open |-> manager = "running", handler |-> "start"]),
             conns' = With(conns, Registered(d.sid, sid), n + 1),
             reader' = [op |-> "ack", s |-> n + 1]
      PROVE  Own'
  <2> DEFINE new == [sid |-> sid, conv |-> n + 1, addr |-> d.peer,
                     open |-> manager = "running", handler |-> "start"]
  <2>1. sid \in Sids /\ sid \notin DOMAIN conns
    BY <1>1, <1>5 DEF nextSessionID
  <2>2. new \in Session /\ new.sid = sid /\ new.conv = n + 1
    BY <1>1, <1>3, <2>1 DEF Session, Handlers
  <2>3. sessions' = Append(sessions, new)
    BY <1>5
  <2> HIDE DEF new
  <2>4. /\ sessions' \in Seq(Session) /\ Len(sessions') = n + 1
        /\ \A i \in 1..n : sessions'[i] = sessions[i]
        /\ sessions'[n + 1] = new
    BY <1>3, <2>2, <2>3, AppendProperties
  <2>5. DOMAIN sessions' = 1..(n + 1)
    BY <2>4, LenProperties
  <2>6. Steady /\ Owned
    <3>1. \A i \in DOMAIN sessions : i \in DOMAIN sessions' /\ sessions'[i] = sessions[i]
      BY <1>3, <2>4, <2>5
    <3> QED
      BY <3>1 DEF Steady, Owned
  <2>7. /\ DOMAIN conns' = DOMAIN conns \cup {sid}
        /\ conns'[sid] = n + 1 /\ \A i \in DOMAIN conns : conns'[i] = conns[i]
    BY <1>5, <2>1 DEF With, Registered
  <2>8. ConnsOwn'
    <3> SUFFICES ASSUME NEW x \in DOMAIN conns'
                 PROVE  sessions'[conns'[x]].sid = x /\ sessions'[conns'[x]].conv = conns'[x]
      BY DEF ConnsOwn
    <3>1. CASE x = sid
      BY <2>2, <2>4, <2>7, <3>1
    <3>2. CASE x \in DOMAIN conns
      <4>1. conns[x] \in DOMAIN sessions /\ conns'[x] = conns[x]
        BY <1>1, <2>7, <3>2 DEF TInv, ListenerOK
      <4> QED
        BY <1>1, <2>6, <3>2, <4>1 DEF ConnsOwn, Steady
    <3> QED
      BY <2>7, <3>1, <3>2
  <2>9. ReaderOwn'
    BY <1>5, <2>2, <2>4 DEF ReaderOwn
  <2>10. NetOwn' /\ DialOwn' /\ NoForeignInput'
    BY <1>2, <2>6, NetShrinksOwn, DialStaysOwn, HeardStaysOwn
  <2> QED
    BY <1>2, <2>8, <2>9, <2>10 DEF FInv, Own
<1> QED
  BY <1>4, <1>5 DEF ReadSyn

LEMMA WriteAckOwn ==
  ASSUME FInv, WriteAck
  PROVE  Own'
<1>1. /\ reader.op = "ack" /\ reader.s \in DOMAIN sessions /\ sessions[reader.s].conv = reader.s
  BY ReaderSession DEF FInv, Own, ReaderOwn, KInv, WriteAck
<1>2. UNCHANGED <<sessions, conns, leaving, heard, dial>> /\ reader' = Reading
  BY DEF WriteAck, listenerVars, dialerVars
<1>3. Steady /\ Owned
  BY <1>2, SameSteady, SteadyOwned
<1>4. NetOwn'
  <2> DEFINE ack == Down(sessions[reader.s].addr, "ACK", sessions[reader.s].conv,
                         sessions[reader.s].sid)
  <2>1. net' \subseteq net \cup {ack}
    BY WriteIn DEF WriteAck
  <2>2. OwnDatagram(ack)
    BY <1>1 DEF OwnDatagram, Belongs, Down
  <2> QED
    BY <1>3, <2>1, <2>2, NetStaysOwn
<1> QED
  BY <1>2, <1>3, <1>4, MapsStayOwn, DialStaysOwn, HeardStaysOwn DEF Own

\* The answer to an unknown datagram, and FIN, give nobody a convID.
LEMMA OthersOwn ==
  ASSUME NEW a, NEW conv, NEW sid
  PROVE  /\ OwnDatagram(Down(a, "FIN", conv, sid)) /\ OwnDatagram(Down(a, "SEG", conv, sid))
         /\ OwnDatagram(Up(a, "FIN", conv, sid)) /\ OwnDatagram(Up(a, "SYN", conv, sid))
  BY DEF OwnDatagram, Down, Up

LEMMA ReadFinOwn ==
  ASSUME FInv, NEW d \in net, ReadFin(d)
  PROVE  Own'
<1>1. UNCHANGED <<sessions, leaving, heard, dial>>
  BY DEF ReadFin, dialerVars
<1>2. Steady /\ Owned
  BY <1>1, SameSteady, SteadyOwned
<1>3. PICK rest \in After(d) :
       \/ /\ d.sid \in DOMAIN conns
          /\ conns' = Without(conns, d.sid)
          /\ reader' = [op |-> "close", s |-> conns[d.sid], conv |-> d.conv]
          /\ Drop(rest)
       \/ /\ d.sid \notin DOMAIN conns
          /\ Write(rest, {Down(d.peer, "FIN", d.conv, d.sid)})
          /\ UNCHANGED <<conns, reader>>
  BY DEF ReadFin
<1>4. rest \subseteq net
  BY AfterIn
<1>5. CASE /\ d.sid \in DOMAIN conns
           /\ conns' = Without(conns, d.sid)
           /\ reader' = [op |-> "close", s |-> conns[d.sid], conv |-> d.conv]
           /\ Drop(rest)
  <2>1. /\ DOMAIN conns' = DOMAIN conns \ {d.sid}
        /\ \A y \in DOMAIN conns \ {d.sid} : conns'[y] = conns[y]
    BY <1>5 DEF Without
  <2>2. ConnsOwn'
    BY <1>1, <2>1 DEF FInv, Own, ConnsOwn
  <2>3. ReaderOwn'
    BY <1>1, <1>5, <2>1 DEF FInv, Own, ConnsOwn, ReaderOwn
  <2>4. NetOwn' /\ DialOwn' /\ NoForeignInput'
    BY <1>1, <1>2, <1>4, <1>5, NetShrinksOwn, DialStaysOwn, HeardStaysOwn DEF Drop
  <2> QED
    BY <1>1, <2>2, <2>3, <2>4 DEF FInv, Own
<1>6. CASE /\ d.sid \notin DOMAIN conns
           /\ Write(rest, {Down(d.peer, "FIN", d.conv, d.sid)})
           /\ UNCHANGED <<conns, reader>>
  <2>1. net' \subseteq net \cup {Down(d.peer, "FIN", d.conv, d.sid)}
    BY <1>4, <1>6, WriteIn
  <2>2. NetOwn'
    BY <1>2, <2>1, OthersOwn, NetStaysOwn
  <2> QED
    BY <1>1, <1>2, <1>6, <2>2, QuietOwn
<1> QED
  BY <1>3, <1>5, <1>6

\* The reader overwrites the convID of a session that has left conns.
LEMMA ReaderCloseOwn ==
  ASSUME FInv, ReaderClose
  PROVE  Own'
<1>1. TInv /\ reader.op = "close" /\ reader.s \in DOMAIN sessions /\ reader.conv \in Nat
  BY ReaderSession DEF FInv, KInv, ReaderClose
<1>2. /\ UNCHANGED <<conns, leaving, heard, dial>>
      /\ reader' = Reading /\ CloseWith(reader.s, reader.conv)
  BY DEF ReaderClose, dialerVars
<1>3. /\ Kept(sessions', sessions)
      /\ \A i \in DOMAIN sessions : i # reader.s => sessions'[i].conv = sessions[i].conv
  BY <1>1, <1>2, CloseWithKeeps
<1>4. Owned
  BY <1>3 DEF Kept, Owned
<1>5. ConnsOwn'
  <2> SUFFICES ASSUME NEW sid \in DOMAIN conns
               PROVE  sessions'[conns[sid]].sid = sid /\ sessions'[conns[sid]].conv = conns[sid]
    BY <1>2 DEF ConnsOwn
  <2>1. conns[sid] \in DOMAIN sessions /\ sessions[conns[sid]].sid = sid
    BY <1>1 DEF FInv, Own, ConnsOwn, TInv, ListenerOK
  <2>2. conns[sid] # reader.s
    BY <1>1, <2>1 DEF FInv, Own, ReaderOwn
  <2> QED
    BY <1>3, <2>1, <2>2 DEF FInv, Own, ConnsOwn, Kept
<1>6. ReaderOwn'
  BY <1>2 DEF ReaderOwn, Reading
<1>7. NetOwn'
  <2> DEFINE fin == Down(sessions[reader.s].addr, "FIN", reader.conv, sessions[reader.s].sid)
  <2>1. net' \subseteq net \cup {fin}
    BY <1>2, WriteIn DEF CloseWith
  <2>2. OwnDatagram(fin)
    BY OthersOwn
  <2> QED
    BY <1>4, <2>1, <2>2, NetStaysOwn
<1>8. DialOwn' /\ NoForeignInput'
  BY <1>2, <1>4, DialStaysOwn, HeardStaysOwn
<1> QED
  BY <1>2, <1>5, <1>6, <1>7, <1>8 DEF FInv, Own

LEMMA ReadSegmentOwn ==
  ASSUME FInv, NEW d \in net, ReadSegment(d)
  PROVE  Own'
<1>1. UNCHANGED <<sessions, conns, leaving, heard, dial>> /\ d.cmd = "SEG" /\ d.dir = "up"
  BY DEF ReadSegment, Reads, listenerVars, dialerVars
<1>2. Steady /\ Owned
  BY <1>1, SameSteady, SteadyOwned
<1>3. PICK rest \in After(d) :
       \/ /\ d.sid \in DOMAIN conns
          /\ reader' = [op |-> "input", s |-> conns[d.sid], d |-> d]
          /\ Drop(rest)
       \/ /\ d.sid \notin DOMAIN conns
          /\ Write(rest, Unknown(d))
          /\ UNCHANGED reader
  BY DEF ReadSegment
<1>4. NetOwn'
  <2>1. rest \subseteq net
    BY AfterIn
  <2>2. net' \subseteq net \cup {Down(d.peer, "FIN", d.conv, d.sid)}
    BY <1>3, <2>1, WriteIn DEF Drop, Unknown
  <2> QED
    BY <1>2, <2>2, OthersOwn, NetStaysOwn
<1>5. CASE reader' = reader
  BY <1>1, <1>2, <1>4, <1>5, QuietOwn
<1>6. CASE d.sid \in DOMAIN conns /\ reader' = [op |-> "input", s |-> conns[d.sid], d |-> d]
  <2>1. OwnDatagram(d) /\ sessions[conns[d.sid]].conv = conns[d.sid]
    BY <1>6 DEF FInv, Own, NetOwn, ConnsOwn
  <2>2. Belongs(d.conv, d.peer)
    BY <1>1, <2>1 DEF OwnDatagram
  <2>3. ReaderOwn'
    BY <1>1, <1>6, <2>1, <2>2 DEF ReaderOwn, Belongs
  <2>4. ConnsOwn'
    BY <1>1 DEF FInv, Own, ConnsOwn
  <2>5. DialOwn' /\ NoForeignInput'
    BY <1>1, <1>2, DialStaysOwn, HeardStaysOwn
  <2> QED
    BY <1>1, <1>4, <2>3, <2>4, <2>5 DEF FInv, Own
<1> QED
  BY <1>3, <1>5, <1>6

\* What Input accepts has the convID of the session, which is its number, and
\* the sender has that number only if the session is its own.
LEMMA InputOwn ==
  ASSUME FInv, Input
  PROVE  Own'
<1>1. /\ reader.op = "input" /\ reader.s \in DOMAIN sessions /\ sessions[reader.s].conv = reader.s
      /\ Belongs(reader.d.conv, reader.d.peer)
  BY ReaderSession DEF FInv, Own, ReaderOwn, KInv, Input
<1>2. UNCHANGED <<sessions, conns, leaving, net, dial>> /\ reader' = Reading
  BY DEF Input, listenerVars, dialerVars
<1>3. Steady /\ Owned
  BY <1>2, SameSteady, SteadyOwned
<1>4. NoForeignInput'
  <2>1. CASE Accepts(reader.s, reader.d.conv, reader.d.sid)
    <3>1. sessions[reader.s].addr = reader.d.peer
      BY <1>1, <2>1 DEF Accepts, Belongs
    <3>2. heard' = heard \cup {<<reader.s, reader.d.peer>>}
      BY <2>1 DEF Input
    <3> QED
      BY <1>2, <3>1, <3>2 DEF FInv, Own, NoForeignInput
  <2>2. CASE ~Accepts(reader.s, reader.d.conv, reader.d.sid)
    BY <1>2, <2>2 DEF Input, FInv, Own, NoForeignInput
  <2> QED
    BY <2>1, <2>2
<1>5. NetOwn' /\ DialOwn'
  BY <1>2, <1>3, NetShrinksOwn, DialStaysOwn
<1> QED
  BY <1>2, <1>3, <1>4, <1>5, MapsStayOwn DEF Own

LEMMA ListenerAt ==
  ASSUME FInv
  PROVE  sessions \in Seq(Session) /\ accepted \subseteq DOMAIN sessions
  BY DEF FInv, KInv, TInv, ListenerOK

\* A new version of the sessions, and one made of it.
LEMMA KeptSteady ==
  ASSUME Kept(sessions', sessions), \A i \in DOMAIN sessions : sessions'[i].conv = sessions[i].conv
  PROVE  Steady /\ Owned
  BY DEF Kept, Steady, Owned

LEMMA HandlerOwn ==
  ASSUME FInv, NEW s \in DOMAIN sessions, HandlerStep(s)
  PROVE  Own'
<1>1. UNCHANGED <<conns, leaving, reader, dial, heard>>
  BY DEF HandlerStep, HandlerStart, HandlerSelect, HandlerFin, dialerVars
<1>2. sessions \in Seq(Session)
  BY ListenerAt
<1>3. CASE HandlerStart(s) \/ HandlerSelect(s)
  <2>1. PICK h \in Handlers : sessions' = [sessions EXCEPT ![s].handler = h]
    BY <1>3 DEF HandlerStart, HandlerSelect, Handlers
  <2> DEFINE new == [sessions EXCEPT ![s].handler = h]
  <2>2. Kept(new, sessions) /\ \A i \in DOMAIN sessions : new[i].conv = sessions[i].conv
    BY <1>2, HandlerKeeps
  <2> HIDE DEF new
  <2>3. Steady /\ Owned
    <3>1. sessions' = new
      BY <2>1 DEF new
    <3> QED
      BY <2>2, <3>1, KeptSteady
  <2>4. net' \subseteq net
    BY <1>3 DEF HandlerStart, HandlerSelect
  <2> QED
    BY <1>1, <2>3, <2>4, NetShrinksOwn, QuietOwn
<1>4. CASE HandlerFin(s)
  <2> DEFINE ss == Closed(sessions, s)
  <2>1. Kept(ss, sessions) /\ \A i \in DOMAIN sessions : ss[i].conv = sessions[i].conv
    BY <1>2, ClosedKeeps
  <2>2. sessions' = [ss EXCEPT ![s].handler = "done"]
    BY <1>4 DEF HandlerFin
  <2> HIDE DEF ss
  <2>3. ss \in Seq(Session) /\ DOMAIN ss = DOMAIN sessions
    BY <2>1 DEF Kept
  <2> DEFINE new == [ss EXCEPT ![s].handler = "done"]
  <2>4. Kept(new, ss) /\ \A i \in DOMAIN ss : new[i].conv = ss[i].conv
    <3>1. s \in DOMAIN ss /\ ss \in Seq(Session)
      BY <2>3
    <3>2. "done" \in Handlers
      BY DEF Handlers
    <3> QED
      BY <3>1, <3>2, HandlerKeeps
  <2> HIDE DEF new
  <2>5. Steady /\ Owned
    <3>1. sessions' = new
      BY <2>2 DEF new
    <3>2. Kept(new, sessions)
      BY <2>1, <2>4, KeptTwice
    <3>3. \A i \in DOMAIN sessions : new[i].conv = sessions[i].conv
      BY <2>1, <2>3, <2>4
    <3> QED
      BY <3>1, <3>2, <3>3, KeptSteady
  <2>6. net' \subseteq net \cup {Fin(s)}
    BY <1>4, WriteIn DEF HandlerFin
  <2>7. NetOwn'
    BY <2>5, <2>6, OthersOwn, NetStaysOwn DEF Fin
  <2> QED
    BY <1>1, <2>5, <2>7, QuietOwn
<1> QED
  BY <1>3, <1>4 DEF HandlerStep

LEMMA CloseOwn ==
  ASSUME FInv, Close
  PROVE  Own'
<1>1. UNCHANGED <<conns, leaving, reader, dial, heard, net>>
  BY DEF Close, dialerVars
<1>2. sessions \in Seq(Session)
  BY ListenerAt
<1>3. Steady
  <2> SUFFICES ASSUME NEW i \in DOMAIN sessions
               PROVE  /\ i \in DOMAIN sessions' /\ sessions'[i].addr = sessions[i].addr
                      /\ sessions'[i].sid = sessions[i].sid /\ sessions'[i].conv = sessions[i].conv
    BY DEF Steady
  <2>1. sessions[i] \in Session
    BY <1>2, SessionAt
  <2>2. i \in DOMAIN sessions' /\
        sessions'[i] = [sessions[i] EXCEPT !.open = FALSE,
                          !.handler = IF @ = "blocked" THEN "fin" ELSE @]
    BY DEF Close
  <2> QED
    BY <2>1, <2>2 DEF Session
<1> QED
  BY <1>1, <1>3, SteadyOwned, NetShrinksOwn, QuietOwn

LEMMA UserOwn ==
  ASSUME FInv, "DisconnectSession" \notin Calls, UserStep
  PROVE  Own'
<1>1. CASE Accept \/ CloseReleases \/ CloseSocket \/ \E s \in accepted : Send(s)
  <2>1. UNCHANGED <<sessions, conns, leaving, reader, dial, heard>>
    BY <1>1 DEF Accept, CloseReleases, CloseSocket, Send, listenerVars, dialerVars
  <2>2. Steady /\ Owned
    BY <2>1, SameSteady, SteadyOwned
  <2>3. CASE \E s \in accepted : Send(s)
    <3>1. PICK s \in accepted :
            net' \subseteq net \cup {Down(sessions[s].addr, "SEG", sessions[s].conv, sessions[s].sid)}
      BY <2>3, WriteIn DEF Send
    <3>2. NetOwn'
      BY <2>2, <3>1, OthersOwn, NetStaysOwn
    <3> QED
      BY <2>1, <2>2, <3>2, QuietOwn
  <2>4. CASE Accept \/ CloseReleases \/ CloseSocket
    <3>1. net' \subseteq net
      BY <2>4 DEF Accept, CloseReleases, CloseSocket
    <3> QED
      BY <2>1, <2>2, <3>1, NetShrinksOwn, QuietOwn
  <2> QED
    BY <1>1, <2>3, <2>4
<1>2. ASSUME NEW s \in accepted, CloseSession(s)
      PROVE  Own'
  <2>1. /\ UNCHANGED <<conns, leaving, reader, dial, heard>> /\ s \in DOMAIN sessions
        /\ sessions \in Seq(Session) /\ sessions' = Closed(sessions, s)
    BY <1>2, ListenerAt DEF CloseSession, dialerVars
  <2>2. Steady /\ Owned
    BY <2>1, ClosedKeeps, KeptSteady
  <2>3. net' \subseteq net \cup {Fin(s)}
    BY <1>2, WriteIn DEF CloseSession
  <2>4. NetOwn'
    BY <2>2, <2>3, OthersOwn, NetStaysOwn DEF Fin
  <2> QED
    BY <2>1, <2>2, <2>4, QuietOwn
<1>3. ~(\E s \in accepted : DisconnectSession(s)) /\ ~(\E l \in leaving : DisconnectClose(l))
  BY DEF DisconnectSession, FInv, Own
<1> QED
  BY <1>1, <1>2, <1>3, CloseOwn DEF UserStep

LEMMA DialerOwn ==
  ASSUME FInv, DialerStep
  PROVE  Own'
<1>1. UNCHANGED <<sessions, conns, leaving, reader, heard>>
  BY DEF DialerStep, Dial, DialReturns, DialerClose, DialedClose, DialerSend, ClientSyn, DialerAck,
         DialerFin, DialerSegment, DialerPanics, listenerVars
<1>2. Steady /\ Owned
  BY <1>1, SameSteady, SteadyOwned
<1>3. (leaving = {})' /\ ConnsOwn' /\ ReaderOwn' /\ NoForeignInput'
  BY <1>1, <1>2, MapsStayOwn, HeardStaysOwn
<1>4. dial \in [Addrs -> Dialed] /\ \A a \in Addrs : dial[a] \in Dialed
  BY DEF FInv, KInv, TInv, DialerOK
<1>5. ASSUME NEW a \in Addrs, NEW cmd \in {"SYN", "FIN"}, NEW conv, NEW sid,
             net' \subseteq net \cup {Up(a, cmd, conv, sid)}
      PROVE  NetOwn'
  BY <1>2, <1>5, OthersOwn, NetStaysOwn
<1>6. ASSUME NEW a \in Addrs, Dial(a)
      PROVE  NetOwn' /\ DialOwn'
  <2>1. net' \subseteq net \cup {Up(a, "SYN", 0, 0)}
    BY <1>6 DEF Dial
  <2>2. \A b \in Addrs : dial'[b].state \in {"open", "closed"} => dial'[b] = dial[b]
    BY <1>4, <1>6 DEF Dial, Dialed
  <2>3. DialOwn'
    BY <1>1, <2>2 DEF FInv, Own, DialOwn, Belongs
  <2> QED
    BY <1>5, <2>1, <2>3
<1>7. ASSUME NEW a \in Addrs, DialReturns(a)
      PROVE  NetOwn' /\ DialOwn'
  <2>1. \A b \in Addrs : dial'[b].state = dial[b].state /\ dial'[b].conv = dial[b].conv
    BY <1>4, <1>7 DEF DialReturns, Dialed
  <2>2. DialOwn'
    BY <1>1, <2>1 DEF FInv, Own, DialOwn, Belongs
  <2> QED
    BY <1>2, <1>7, <2>2, NetShrinksOwn DEF DialReturns
<1>8. ASSUME NEW a \in Addrs, NEW rest, rest \subseteq net, dial[a].state = "open",
             DialedClose(a, rest)
      PROVE  NetOwn' /\ DialOwn'
  <2>1. \A b \in Addrs : /\ dial'[b].state \in {"open", "closed"} => dial[b].state \in {"open", "closed"}
                         /\ dial'[b].conv = dial[b].conv
    BY <1>4, <1>8 DEF DialedClose, Dialed
  <2>2. DialOwn'
    BY <1>1, <2>1 DEF FInv, Own, DialOwn, Belongs
  <2>3. net' \subseteq net \cup {Up(a, "FIN", dial[a].conv, dial[a].sid)}
    BY <1>8, WriteIn DEF DialedClose
  <2> QED
    BY <1>5, <2>2, <2>3
<1>9. ASSUME NEW a \in Addrs, ClientSyn(a)
      PROVE  NetOwn' /\ DialOwn'
  <2>1. net' \subseteq net \cup {Up(a, "SYN", dial[a].conv, dial[a].sid)}
    BY <1>9, WriteIn DEF ClientSyn
  <2> QED
    BY <1>2, <1>5, <1>9, <2>1, DialStaysOwn DEF ClientSyn, dialerVars
<1>10. ASSUME NEW a \in Addrs, DialerSend(a)
       PROVE  NetOwn' /\ DialOwn'
  <2>1. net' \subseteq net \cup {Up(a, "SEG", dial[a].conv, dial[a].sid)}
    BY <1>10, WriteIn DEF DialerSend
  <2>2. OwnDatagram(Up(a, "SEG", dial[a].conv, dial[a].sid))
    BY <1>10 DEF FInv, Own, DialOwn, OwnDatagram, Up, DialerSend
  <2> QED
    BY <1>2, <1>10, <2>1, <2>2, NetStaysOwn, DialStaysOwn DEF DialerSend, dialerVars
<1>11. ASSUME NEW d \in net, DialerAck(d)
       PROVE  NetOwn' /\ DialOwn'
  <2>1. net' \subseteq net
    BY <1>11, AfterIn DEF DialerAck, Drop
  <2>2. Belongs(d.conv, d.peer)
    BY <1>11 DEF DialerAck, FInv, Own, NetOwn, OwnDatagram
  <2>3. \A b \in Addrs : \/ dial'[b] = dial[b]
                         \/ b = d.peer /\ dial'[b].conv = d.conv
    BY <1>4, <1>11 DEF DialerAck, Dialed
  <2>4. DialOwn'
    BY <1>1, <2>2, <2>3 DEF FInv, Own, DialOwn, Belongs
  <2> QED
    BY <1>2, <2>1, <2>4, NetShrinksOwn
<1>12. ASSUME NEW d \in net, DialerSegment(d) \/ DialerPanics(d)
       PROVE  NetOwn' /\ DialOwn'
  <2>1. net' \subseteq net /\ dial' = dial
    BY <1>12, AfterIn DEF DialerSegment, DialerPanics, Drop, dialerVars
  <2> QED
    BY <1>2, <2>1, NetShrinksOwn, DialStaysOwn
<1>13. ASSUME NEW d \in net, DialerFin(d)
       PROVE  NetOwn' /\ DialOwn'
  <2>1. d.peer \in Addrs
    BY DEF FInv, KInv, TInv, NetOK, DatagramOK, Datagram
  <2> QED
    BY <1>8, <1>13, <2>1 DEF DialerFin
<1>14. ASSUME NEW a \in Addrs, DialerClose(a)
       PROVE  NetOwn' /\ DialOwn'
  BY <1>8, <1>14 DEF DialerClose
<1>15. NetOwn' /\ DialOwn'
  BY <1>6, <1>7, <1>9, <1>10, <1>11, <1>12, <1>13, <1>14 DEF DialerStep
<1> QED
  BY <1>3, <1>15 DEF Own

LEMMA FInvAlways ==
  ASSUME "DisconnectSession" \notin Calls
  PROVE  Spec => []FInv
<1>1. Init => FInv
  <2>1. Init => Own
    BY DEF Init, Own, ConnsOwn, ReaderOwn, NetOwn, DialOwn, NoForeignInput, Reading
  <2> QED
    BY <2>1, Initially DEF FInv
<1>2. FInv /\ [Next]_vars => FInv'
  <2> SUFFICES ASSUME FInv, [Next]_vars
               PROVE  Own'
    BY Inductive DEF FInv
  <2>1. CASE ReaderStep
    BY <2>1, ReadSynOwn, ReadFinOwn, ReadSegmentOwn, WriteAckOwn, ReaderCloseOwn, InputOwn
       DEF ReaderStep
  <2>2. CASE \E s \in DOMAIN sessions : HandlerStep(s)
    BY <2>2, HandlerOwn
  <2>3. CASE UserStep
    BY <2>3, UserOwn
  <2>4. CASE DialerStep
    BY <2>4, DialerOwn
  <2>5. CASE UNCHANGED vars
    <3>1. UNCHANGED <<sessions, conns, leaving, reader, dial, heard, net>>
      BY <2>5 DEF vars, listenerVars, dialerVars
    <3> QED
      BY <3>1, SameSteady, SteadyOwned, NetShrinksOwn, QuietOwn
  <2> QED
    BY <2>1, <2>2, <2>3, <2>4, <2>5 DEF Next
<1> QED
  BY <1>1, <1>2, PTL DEF Spec

\* As long as nobody calls DisconnectSession (nobody does in the repository),
\* no session is ever fed a segment of another client, although a late FIN may
\* close a session that only has the same id.
THEOREM NoForeignInputHolds ==
  ASSUME "DisconnectSession" \notin Calls
  PROVE  Spec => []NoForeignInput
<1>1. FInv => NoForeignInput
  BY DEF FInv, Own
<1> QED
  BY <1>1, FInvAlways, PTL

\* What is on its way from a client has the convID it started with, and so
\* has the session that took what came.
Segment(d) == d.cmd = "SEG" /\ d.dir = "up"
Started(conv, a) == dial[a].state \in {"open", "closed"} /\ dial[a].conv = conv

Single ==
  /\ \A d \in net : Segment(d) => Started(d.conv, d.peer)
  /\ reader.op = "input" => Started(reader.d.conv, reader.d.peer)
  /\ \A h \in heard : Started(h[1], h[2])

LEMMA StillStarted ==
  ASSUME KInv, [Next]_vars, NEW a \in Addrs, NEW conv, Started(conv, a)
  PROVE  Started(conv, a)'
  BY StartedStays DEF Started

\* Only the dialed sessions send segments to the listener.
LEMMA NewSegments ==
  ASSUME FInv, [Next]_vars, NEW x \in net', Segment(x)
  PROVE  x \in net \/ (x.peer \in Addrs /\ Started(x.conv, x.peer))
<1> DEFINE Old == x \in net \/ (x.peer \in Addrs /\ Started(x.conv, x.peer))
<1>1. \A a, conv, sid, cmd : x # Down(a, cmd, conv, sid)
  BY DEF Segment, Down
<1>2. \A a, conv, sid : \A cmd \in {"SYN", "FIN"} : x # Up(a, cmd, conv, sid)
  BY DEF Segment, Up
<1>3. ASSUME NEW rest, rest \subseteq net, NEW a, NEW cmd, NEW conv, NEW sid,
             Write(rest, {Down(a, cmd, conv, sid)})
      PROVE  Old
  BY <1>1, <1>3, WriteIn
<1>4. ASSUME NEW rest, rest \subseteq net, NEW a, NEW cmd \in {"SYN", "FIN"}, NEW conv, NEW sid,
             Write(rest, {Up(a, cmd, conv, sid)})
      PROVE  Old
  BY <1>2, <1>4, WriteIn
<1>5. net' \subseteq net => Old
  OBVIOUS
<1> SUFFICES Old
  OBVIOUS
<1> HIDE DEF Old
<1>6. ASSUME NEW s
      PROVE  Fin(s) = Down(sessions[s].addr, "FIN", sessions[s].conv, sessions[s].sid)
  BY DEF Fin
<1>7. ASSUME NEW s, NEW conv, CloseWith(s, conv)
      PROVE  Old
  BY <1>3, <1>7 DEF CloseWith
<1>8. CASE ReaderStep
  <2>1. ASSUME NEW d \in net, ReadSyn(d)
        PROVE  Old
    BY <1>5, <2>1, AfterIn DEF ReadSyn, Drop
  <2>2. ASSUME NEW d \in net, ReadFin(d)
        PROVE  Old
    <3>1. PICK rest \in After(d) : Drop(rest) \/ Write(rest, {Down(d.peer, "FIN", d.conv, d.sid)})
      BY <2>2 DEF ReadFin
    <3> QED
      BY <1>3, <1>5, <3>1, AfterIn DEF Drop
  <2>3. ASSUME NEW d \in net, ReadSegment(d)
        PROVE  Old
    <3>1. PICK rest \in After(d) : Drop(rest) \/ Write(rest, {Down(d.peer, "FIN", d.conv, d.sid)})
      BY <2>3 DEF ReadSegment, Unknown
    <3> QED
      BY <1>3, <1>5, <3>1, AfterIn DEF Drop
  <2>4. CASE WriteAck
    BY <1>3, <2>4 DEF WriteAck
  <2>5. CASE ReaderClose \/ Input
    BY <1>5, <1>7, <2>5 DEF ReaderClose, Input
  <2> QED
    BY <1>8, <2>1, <2>2, <2>3, <2>4, <2>5, Zenon DEF ReaderStep
<1>9. ASSUME NEW s \in DOMAIN sessions, HandlerStep(s)
      PROVE  Old
  BY <1>3, <1>5, <1>6, <1>9 DEF HandlerStep, HandlerStart, HandlerSelect, HandlerFin
<1>10. CASE UserStep
  <2>1. CASE Accept \/ Close \/ CloseReleases \/ CloseSocket
    BY <1>5, <2>1 DEF Accept, Close, CloseReleases, CloseSocket
  <2>2. ASSUME NEW s \in accepted, Send(s) \/ CloseSession(s) \/ DisconnectSession(s)
        PROVE  Old
    BY <1>3, <1>5, <1>6, <2>2 DEF Send, CloseSession, DisconnectSession
  <2>3. ASSUME NEW l \in leaving, DisconnectClose(l)
        PROVE  Old
    BY <1>7, <2>3 DEF DisconnectClose
  <2> QED
    BY <1>10, <2>1, <2>2, <2>3, Zenon DEF UserStep
<1>11. ASSUME NEW a, NEW rest, rest \subseteq net, DialedClose(a, rest)
       PROVE  Old
  <2>1. {d \in rest : d.dir = "up" \/ d.peer # a} \subseteq net
    BY <1>11
  <2> QED
    BY <1>4, <1>11, <2>1 DEF DialedClose
<1>12. CASE DialerStep
  <2>1. ASSUME NEW a \in Addrs, Dial(a) \/ DialReturns(a)
        PROVE  Old
    <3>1. net' \subseteq net \cup {Up(a, "SYN", 0, 0)}
      BY <2>1 DEF Dial, DialReturns
    <3>2. x # Up(a, "SYN", 0, 0)
      BY <1>2
    <3> QED
      BY <3>1, <3>2 DEF Old
  <2>2. ASSUME NEW a \in Addrs, ClientSyn(a) \/ DialerClose(a)
        PROVE  Old
    BY <1>4, <1>11, <2>2 DEF ClientSyn, DialerClose
  <2>3. ASSUME NEW a \in Addrs, DialerSend(a)
        PROVE  Old
    <3>1. net' \subseteq net \cup {Up(a, "SEG", dial[a].conv, dial[a].sid)}
      BY <2>3, WriteIn DEF DialerSend
    <3>2. x = Up(a, "SEG", dial[a].conv, dial[a].sid) => x.peer \in Addrs /\ Started(x.conv, x.peer)
      BY <2>3 DEF DialerSend, Up, Started
    <3> QED
      BY <3>1, <3>2 DEF Old
  <2>4. ASSUME NEW d \in net, DialerAck(d) \/ DialerSegment(d) \/ DialerPanics(d)
        PROVE  Old
    BY <1>5, <2>4, AfterIn DEF DialerAck, DialerSegment, DialerPanics, Drop
  <2>5. ASSUME NEW d \in net, DialerFin(d)
        PROVE  Old
    BY <1>11, <2>5 DEF DialerFin
  <2> QED
    BY <1>12, <2>1, <2>2, <2>3, <2>4, <2>5, Zenon DEF DialerStep
<1>13. CASE UNCHANGED vars
  BY <1>5, <1>13 DEF vars
<1> QED
  BY <1>8, <1>9, <1>10, <1>12, <1>13 DEF Next

\* What the reader is about to hand to Input was in flight, and so what has
\* been heard.
LEMMA NewInput ==
  ASSUME FInv, [Next]_vars
  PROVE  /\ reader'.op = "input" => reader' = reader \/ (reader'.d \in net /\ Segment(reader'.d))
         /\ \A h \in heard' : h \in heard \/ (reader.op = "input" /\ h[1] = reader.d.conv /\ h[2] = reader.d.peer)
<1> DEFINE Goal == /\ reader'.op = "input" => reader' = reader \/ (reader'.d \in net /\ Segment(reader'.d))
                   /\ \A h \in heard' : h \in heard \/ (reader.op = "input" /\ h[1] = reader.d.conv /\ h[2] = reader.d.peer)
<1>1. UNCHANGED <<reader, heard>> => Goal
  OBVIOUS
<1>2. ASSUME NEW d \in net, ReadSyn(d) \/ ReadFin(d) \/ ReadSegment(d)
      PROVE  Goal
  <2>1. heard' = heard
    BY <1>2 DEF ReadSyn, ReadFin, ReadSegment
  <2>2. reader' = reader \/ reader'.op # "input" \/ (reader'.d = d /\ Segment(d))
    BY <1>2 DEF ReadSyn, ReadFin, ReadSegment, Reads, Segment
  <2> QED
    BY <2>1, <2>2
<1>3. ASSUME WriteAck \/ ReaderClose
      PROVE  Goal
  BY <1>3 DEF WriteAck, ReaderClose, Reading
<1>4. ASSUME Input
      PROVE  Goal
  <2>1. sessions[reader.s].conv = reader.s /\ reader.op = "input" /\ reader'.op # "input"
    BY <1>4 DEF Input, FInv, Own, ReaderOwn, Reading
  <2>2. CASE Accepts(reader.s, reader.d.conv, reader.d.sid)
    <3>1. heard' = heard \cup {<<reader.s, reader.d.peer>>} /\ reader.s = reader.d.conv
      BY <1>4, <2>1, <2>2 DEF Input, Accepts
    <3> QED
      BY <2>1, <3>1
  <2>3. CASE ~Accepts(reader.s, reader.d.conv, reader.d.sid)
    BY <1>4, <2>1, <2>3 DEF Input
  <2> QED
    BY <2>2, <2>3
<1> SUFFICES Goal
  OBVIOUS
<1> HIDE DEF Goal
<1>5. CASE ReaderStep
  BY <1>2, <1>3, <1>4, <1>5, Zenon DEF ReaderStep
<1>6. CASE \E s \in DOMAIN sessions : HandlerStep(s)
  BY <1>1, <1>6 DEF HandlerStep, HandlerStart, HandlerSelect, HandlerFin
<1>7. CASE UserStep
  BY <1>1, <1>7 DEF UserStep, Accept, Close, CloseReleases, CloseSocket, Send, CloseSession,
                    DisconnectSession, DisconnectClose
<1>8. CASE DialerStep
  BY <1>1, <1>8 DEF DialerStep, Dial, DialReturns, DialerClose, DialedClose, DialerSend, ClientSyn,
                    DialerAck, DialerFin, DialerSegment, DialerPanics
<1>9. CASE UNCHANGED vars
  BY <1>1, <1>9 DEF vars
<1> QED
  BY <1>5, <1>6, <1>7, <1>8, <1>9 DEF Next

LEMMA SingleStep ==
  ASSUME FInv, Single, [Next]_vars
  PROVE  Single'
<1>1. KInv /\ \A d \in net : d.peer \in Addrs
  BY DEF FInv, KInv, TInv, NetOK, DatagramOK, Datagram
<1>2. reader.op = "input" => reader.d.peer \in Addrs
  BY <1>1, ReaderSession DEF KInv, Datagram
<1>3. \A h \in heard : h[2] \in Addrs
  BY <1>1 DEF KInv, TInv, ReaderOK
<1>4. ASSUME NEW d \in net', Segment(d)
      PROVE  Started(d.conv, d.peer)'
  <2>1. d.peer \in Addrs /\ Started(d.conv, d.peer)
    BY <1>1, <1>4, NewSegments DEF Single
  <2> QED
    BY <1>1, <2>1, StillStarted
<1>5. ASSUME reader'.op = "input"
      PROVE  Started(reader.d.conv, reader.d.peer)'
  <2>1. CASE reader' = reader
    <3>1. reader.d.peer \in Addrs /\ Started(reader.d.conv, reader.d.peer)
      BY <1>2, <1>5, <2>1 DEF Single
    <3>2. dial'[reader.d.peer].state \in {"open", "closed"} /\ dial'[reader.d.peer].conv = reader.d.conv
      BY <1>1, <3>1, StartedStays DEF Started
    <3> QED
      BY <2>1, <3>2 DEF Started
  <2>2. CASE reader'.d \in net /\ Segment(reader'.d)
    <3> DEFINE d == reader'.d
    <3>1. d.peer \in Addrs /\ Started(d.conv, d.peer)
      BY <1>1, <2>2 DEF Single
    <3>2. dial'[d.peer].state \in {"open", "closed"} /\ dial'[d.peer].conv = d.conv
      <4> HIDE DEF d
      <4> QED
        BY <1>1, <3>1, StartedStays DEF Started
    <3> QED
      BY <3>2 DEF Started
  <2> QED
    BY <1>5, <2>1, <2>2, NewInput
<1>6. ASSUME NEW h \in heard'
      PROVE  Started(h[1], h[2])'
  <2>1. h[2] \in Addrs /\ Started(h[1], h[2])
    BY <1>2, <1>3, NewInput DEF Single
  <2> QED
    BY <1>1, <2>1, StillStarted
<1> QED
  BY <1>4, <1>5, <1>6 DEF Single, Segment

\* Under the same condition, however many sessions SYNs of one client open:
\* only the one whose ACK came first ever takes its segments (getOrCreateSession,
\* onControlData, Input).
THEOREM OneSessionHearsHolds ==
  ASSUME "DisconnectSession" \notin Calls
  PROVE  Spec => []OneSessionHears
<1>1. Init => Single
  BY DEF Init, Single, Reading
<1>2. FInv /\ Single /\ [Next]_vars => Single'
  BY SingleStep
<1>3. Single => OneSessionHears
  BY DEF Single, Started, OneSessionHears
<1> QED
  BY <1>1, <1>2, <1>3, FInvAlways, PTL DEF Spec
-----------------------------------------------------------------------------
(* The ticker keeps what Dial returned, if no id is given twice.           *)

\* One of a's sessions has the id sid.
HasId(sid, a) == \E n \in DOMAIN sessions : sessions[n].sid = sid /\ sessions[n].addr = a

\* Sessions with the same id are one client's: it may repeat SYN with its id.
IdsApart ==
  \A m, n \in DOMAIN sessions :
    sessions[m].sid = sessions[n].sid => sessions[m].addr = sessions[n].addr

\* A client has an id only from the ACK of one of its own sessions, and
\* repeats only such an id in SYN.
IdDatagram(d) ==
  /\ d.cmd = "ACK" => HasId(d.sid, d.peer)
  /\ d.cmd = "SYN" => d.sid = 0 \/ HasId(d.sid, d.peer)

NetIds == \A d \in net : IdDatagram(d)

\* Dial does not return before its session has started.
DialIds ==
  \A a \in Addrs : IF dial[a].state \in {"open", "closed"} THEN HasId(dial[a].sid, a)
                   ELSE ~dial[a].returned

UInv == KInv /\ IdsApart /\ NetIds /\ DialIds /\ DialedIsUpdated

\* What identifies the sessions stays.
Identified ==
  \A i \in DOMAIN sessions : /\ i \in DOMAIN sessions' /\ sessions'[i].addr = sessions[i].addr
                             /\ sessions'[i].sid = sessions[i].sid

LEMMA StillHasId ==
  ASSUME Identified, NEW sid, NEW a, HasId(sid, a)
  PROVE  \E n \in DOMAIN sessions' : sessions'[n].sid = sid /\ sessions'[n].addr = a
<1>1. PICK n \in DOMAIN sessions : sessions[n].sid = sid /\ sessions[n].addr = a
  BY DEF HasId
<1>2. n \in DOMAIN sessions' /\ sessions'[n].sid = sid /\ sessions'[n].addr = a
  BY <1>1 DEF Identified
<1> QED
  BY <1>2

LEMMA NetStaysIds ==
  ASSUME UInv, Identified, NEW d, IdDatagram(d), net' \subseteq net \cup {d}
  PROVE  NetIds'
<1> SUFFICES ASSUME NEW x \in net', x.cmd = "ACK" \/ (x.cmd = "SYN" /\ x.sid # 0)
             PROVE  \E n \in DOMAIN sessions' : sessions'[n].sid = x.sid /\ sessions'[n].addr = x.peer
  BY DEF NetIds, IdDatagram, HasId
<1>1. IdDatagram(x)
  BY DEF UInv, NetIds
<1> QED
  BY <1>1, StillHasId DEF IdDatagram

LEMMA NetShrinksIds ==
  ASSUME UInv, Identified, net' \subseteq net
  PROVE  NetIds'
<1> SUFFICES ASSUME NEW x \in net', x.cmd = "ACK" \/ (x.cmd = "SYN" /\ x.sid # 0)
             PROVE  \E n \in DOMAIN sessions' : sessions'[n].sid = x.sid /\ sessions'[n].addr = x.peer
  BY DEF NetIds, IdDatagram, HasId
<1>1. IdDatagram(x)
  BY DEF UInv, NetIds
<1> QED
  BY <1>1, StillHasId DEF IdDatagram

\* The steps of the listener's side.
LEMMA DialersStay ==
  ASSUME UInv, Identified, UNCHANGED dialerVars
  PROVE  DialIds' /\ DialedIsUpdated'
<1>1. ASSUME NEW a \in Addrs, dial[a].state \in {"open", "closed"}
      PROVE  \E n \in DOMAIN sessions' : sessions'[n].sid = dial[a].sid /\ sessions'[n].addr = a
  BY <1>1, StillHasId DEF UInv, DialIds
<1>2. DialIds'
  BY <1>1 DEF UInv, DialIds, HasId, dialerVars
<1> QED
  BY <1>2 DEF UInv, DialedIsUpdated, dialerVars

LEMMA ApartStay ==
  ASSUME UInv, Identified, DOMAIN sessions' = DOMAIN sessions
  PROVE  IdsApart'
  BY DEF UInv, IdsApart, Identified

\* The datagrams that carry no promise of an id.
LEMMA OtherIds ==
  ASSUME NEW a, NEW conv, NEW sid
  PROVE  /\ IdDatagram(Down(a, "FIN", conv, sid)) /\ IdDatagram(Down(a, "SEG", conv, sid))
         /\ IdDatagram(Up(a, "FIN", conv, sid)) /\ IdDatagram(Up(a, "SEG", conv, sid))
         /\ IdDatagram(Up(a, "SYN", conv, 0))
  BY DEF IdDatagram, Up, Down

\* Every step of the listener's side but ReadSyn and WriteAck leaves the
\* sessions' ids alone and writes FIN or SEG, if anything.
Plain ==
  /\ UNCHANGED dialerVars /\ Identified /\ DOMAIN sessions' = DOMAIN sessions
  /\ \/ net' \subseteq net
     \/ \E a, conv, sid : \E cmd \in {"FIN", "SEG"} : net' \subseteq net \cup {Down(a, cmd, conv, sid)}

LEMMA PlainIds ==
  ASSUME UInv, Plain
  PROVE  IdsApart' /\ NetIds' /\ DialIds' /\ DialedIsUpdated'
<1>1. IdsApart' /\ DialIds' /\ DialedIsUpdated'
  BY DialersStay, ApartStay DEF Plain
<1>2. NetIds'
  <2>1. CASE net' \subseteq net
    BY <2>1, NetShrinksIds DEF Plain
  <2>2. ASSUME NEW a, NEW conv, NEW sid, NEW cmd \in {"FIN", "SEG"},
               net' \subseteq net \cup {Down(a, cmd, conv, sid)}
        PROVE  NetIds'
    <3>1. IdDatagram(Down(a, cmd, conv, sid))
      BY OtherIds
    <3> QED
      BY <2>2, <3>1, NetStaysIds DEF Plain
  <2> QED
    BY <2>1, <2>2 DEF Plain
<1> QED
  BY <1>1, <1>2

LEMMA KeptIdentified ==
  ASSUME Kept(sessions', sessions)
  PROVE  Identified /\ DOMAIN sessions' = DOMAIN sessions
  BY DEF Kept, Identified

LEMMA SameIdentified ==
  ASSUME sessions' = sessions
  PROVE  Identified /\ DOMAIN sessions' = DOMAIN sessions
  BY DEF Identified

\* A new session has an id that no other has, or one that its client had.
LEMMA ReadSynIds ==
  ASSUME UInv, ~Reuse, NEW d \in net, ReadSyn(d)
  PROVE  IdsApart' /\ NetIds' /\ DialIds' /\ DialedIsUpdated'
<1> DEFINE n == Len(sessions)
<1>1. /\ TInv /\ d.sid \in Sids \cup {0} /\ d.cmd = "SYN" /\ d.peer \in Addrs
      /\ d.sid # 0 => HasId(d.sid, d.peer)
  BY DEF UInv, KInv, TInv, NetOK, DatagramOK, Datagram, NetIds, IdDatagram, ReadSyn
<1>2. net' \subseteq net /\ UNCHANGED dialerVars
  BY AfterIn DEF ReadSyn, Drop
<1>3. n \in Nat /\ DOMAIN sessions = 1..n /\ sessions \in Seq(Session)
  BY <1>1, SessionAt DEF TInv, ListenerOK
<1>4. CASE sessions' = sessions
  BY <1>2, <1>4, SameIdentified, PlainIds DEF Plain
<1>5. ASSUME NEW sid, sid \in IF d.sid = 0 THEN nextSessionID ELSE {d.sid},
             sessions' = Append(sessions,
               [sid |-> sid, conv |-> n + 1, addr |-> d.peer,
                open |-> manager = "running", handler |-> "start"])
      PROVE  IdsApart' /\ NetIds' /\ DialIds' /\ DialedIsUpdated'
  <2> DEFINE new == [sid |-> sid, conv |-> n + 1, addr |-> d.peer,
                     open |-> manager = "running", handler |-> "start"]
  <2>1. sid \in Sids
    BY <1>1, <1>5 DEF nextSessionID
  <2>2. new \in Session /\ new.sid = sid /\ new.addr = d.peer
    BY <1>1, <1>3, <2>1 DEF Session, Handlers
  <2>3. sessions' = Append(sessions, new)
    BY <1>5
  <2> HIDE DEF new
  <2>4. /\ sessions' \in Seq(Session) /\ Len(sessions') = n + 1
        /\ \A i \in 1..n : sessions'[i] = sessions[i]
        /\ sessions'[n + 1] = new
    BY <1>3, <2>2, <2>3, AppendProperties
  <2>5. DOMAIN sessions' = 1..(n + 1)
    BY <2>4, LenProperties
  <2>6. Identified
    <3>1. \A i \in DOMAIN sessions : i \in DOMAIN sessions' /\ sessions'[i] = sessions[i]
      BY <1>3, <2>4, <2>5
    <3> QED
      BY <3>1 DEF Identified
  <2>7. ASSUME NEW i \in DOMAIN sessions, sessions[i].sid = sid
        PROVE  sessions[i].addr = d.peer
    <3>1. d.sid # 0
      BY <1>5, <2>7 DEF nextSessionID
    <3>2. sid = d.sid
      BY <1>5, <3>1
    <3>3. PICK m \in DOMAIN sessions : sessions[m].sid = sid /\ sessions[m].addr = d.peer
      BY <1>1, <3>1, <3>2 DEF HasId
    <3> QED
      BY <2>7, <3>3 DEF UInv, IdsApart
  <2>8. \A i \in DOMAIN sessions' : \/ i \in DOMAIN sessions /\ sessions'[i] = sessions[i]
                                    \/ sessions'[i] = new
    BY <1>3, <2>4, <2>5
  <2>9. IdsApart'
    <3> SUFFICES ASSUME NEW i \in DOMAIN sessions', NEW j \in DOMAIN sessions',
                        sessions'[i].sid = sessions'[j].sid
                 PROVE  sessions'[i].addr = sessions'[j].addr
      BY DEF IdsApart
    <3>1. CASE sessions'[i] = new
      BY <2>2, <2>7, <2>8, <3>1
    <3>2. CASE sessions'[j] = new
      BY <2>2, <2>7, <2>8, <3>2
    <3>3. CASE /\ i \in DOMAIN sessions /\ sessions'[i] = sessions[i]
               /\ j \in DOMAIN sessions /\ sessions'[j] = sessions[j]
      BY <3>3 DEF UInv, IdsApart
    <3> QED
      BY <2>8, <3>1, <3>2, <3>3
  <2> QED
    BY <1>2, <2>6, <2>9, NetShrinksIds, DialersStay
<1> QED
  BY <1>4, <1>5 DEF ReadSyn

LEMMA WriteAckIds ==
  ASSUME UInv, WriteAck
  PROVE  IdsApart' /\ NetIds' /\ DialIds' /\ DialedIsUpdated'
<1> DEFINE s == reader.s
           ack == Down(sessions[s].addr, "ACK", sessions[s].conv, sessions[s].sid)
<1>1. UNCHANGED <<sessions, dialerVars>> /\ s \in DOMAIN sessions
  BY ReaderSession DEF UInv, KInv, WriteAck, listenerVars
<1>2. Identified /\ DOMAIN sessions' = DOMAIN sessions
  BY <1>1, SameIdentified
<1>3. net' \subseteq net \cup {ack}
  BY WriteIn DEF WriteAck
<1>4. HasId(sessions[s].sid, sessions[s].addr)
  BY <1>1 DEF HasId
<1>5. IdDatagram(ack)
  BY <1>4 DEF IdDatagram, Down
<1> QED
  BY <1>1, <1>2, <1>3, <1>5, NetStaysIds, DialersStay, ApartStay

LEMMA ReaderIds ==
  ASSUME UInv, ~Reuse, ReaderStep
  PROVE  IdsApart' /\ NetIds' /\ DialIds' /\ DialedIsUpdated'
<1>1. ASSUME NEW d \in net, ReadFin(d) \/ ReadSegment(d)
      PROVE  Plain
  <2>1. UNCHANGED dialerVars /\ sessions' = sessions
    BY <1>1 DEF ReadFin, ReadSegment, listenerVars
  <2>2. PICK rest \in After(d) : \/ Drop(rest)
                                 \/ Write(rest, {Down(d.peer, "FIN", d.conv, d.sid)})
    BY <1>1 DEF ReadFin, ReadSegment, Unknown
  <2>3. \/ net' \subseteq net
        \/ net' \subseteq net \cup {Down(d.peer, "FIN", d.conv, d.sid)}
    BY <2>2, AfterIn, WriteIn DEF Drop
  <2> QED
    BY <2>1, <2>3, SameIdentified DEF Plain
<1>2. CASE ReaderClose
  <2> DEFINE s == reader.s
  <2>1. reader.s \in DOMAIN sessions /\ reader.conv \in Nat /\ TInv
    BY <1>2, ReaderSession DEF UInv, KInv, ReaderClose
  <2>2. UNCHANGED dialerVars /\ Kept(sessions', sessions)
    BY <1>2, <2>1, CloseWithKeeps DEF ReaderClose
  <2>3. net' \subseteq net \cup {Down(sessions[s].addr, "FIN", reader.conv, sessions[s].sid)}
    BY <1>2, WriteIn DEF ReaderClose, CloseWith
  <2>4. Plain
    BY <2>2, <2>3, KeptIdentified DEF Plain
  <2> QED
    BY <2>4, PlainIds
<1>3. CASE Input
  BY <1>3, SameIdentified, PlainIds DEF Input, listenerVars, Plain
<1> QED
  BY <1>1, <1>2, <1>3, PlainIds, ReadSynIds, WriteAckIds DEF ReaderStep

LEMMA HandlerIds ==
  ASSUME UInv, NEW s \in DOMAIN sessions, HandlerStep(s)
  PROVE  Plain
<1>1. UNCHANGED dialerVars /\ sessions \in Seq(Session)
  BY DEF HandlerStep, HandlerStart, HandlerSelect, HandlerFin, UInv, KInv, TInv, ListenerOK
<1>2. CASE HandlerStart(s) \/ HandlerSelect(s)
  <2>1. PICK h \in Handlers : sessions' = [sessions EXCEPT ![s].handler = h]
    BY <1>2 DEF HandlerStart, HandlerSelect, Handlers
  <2>2. Kept(sessions', sessions)
    BY <1>1, <2>1, HandlerKeeps
  <2> QED
    BY <1>1, <1>2, <2>2, KeptIdentified DEF Plain, HandlerStart, HandlerSelect
<1>3. CASE HandlerFin(s)
  <2> DEFINE ss == Closed(sessions, s)
  <2>1. Kept(ss, sessions)
    BY <1>1, ClosedKeeps
  <2>2. sessions' = [ss EXCEPT ![s].handler = "done"]
    BY <1>3 DEF HandlerFin
  <2> HIDE DEF ss
  <2>3. ss \in Seq(Session) /\ s \in DOMAIN ss /\ "done" \in Handlers
    BY <2>1 DEF Kept, Handlers
  <2>4. Kept(sessions', sessions)
    BY <2>1, <2>2, <2>3, HandlerKeeps, KeptTwice
  <2>5. net' \subseteq net \cup {Fin(s)}
    BY <1>3, WriteIn DEF HandlerFin
  <2> QED
    BY <1>1, <2>4, <2>5, KeptIdentified DEF Plain, Fin
<1> QED
  BY <1>2, <1>3 DEF HandlerStep

LEMMA UserIds ==
  ASSUME UInv, UserStep
  PROVE  Plain
<1>1. UNCHANGED dialerVars /\ TInv /\ sessions \in Seq(Session) /\ accepted \subseteq DOMAIN sessions
  BY DEF UserStep, Accept, Close, CloseReleases, CloseSocket, Send, CloseSession, DisconnectSession,
         DisconnectClose, UInv, KInv, TInv, ListenerOK
<1>2. CASE Accept \/ CloseReleases \/ CloseSocket
  BY <1>1, <1>2, SameIdentified DEF Accept, CloseReleases, CloseSocket, Plain
<1>3. ASSUME NEW s \in accepted, Send(s)
      PROVE  Plain
  <2>1. net' \subseteq net \cup {Down(sessions[s].addr, "SEG", sessions[s].conv, sessions[s].sid)}
    BY <1>3, WriteIn DEF Send
  <2> QED
    BY <1>1, <1>3, <2>1, SameIdentified DEF Send, listenerVars, Plain
<1>4. ASSUME NEW s \in accepted, CloseSession(s)
      PROVE  Plain
  <2>1. Kept(sessions', sessions)
    BY <1>1, <1>4, ClosedKeeps DEF CloseSession
  <2>2. net' \subseteq net \cup {Fin(s)}
    BY <1>4, WriteIn DEF CloseSession
  <2> QED
    BY <1>1, <2>1, <2>2, KeptIdentified DEF Fin, Plain
<1>5. ASSUME NEW s \in accepted, DisconnectSession(s)
      PROVE  Plain
  <2>1. sessions' = sessions /\ (net' = net \/ Write(net, {Fin(s)}))
    BY <1>5 DEF DisconnectSession
  <2>2. net' \subseteq net \cup {Fin(s)}
    BY <2>1, WriteIn
  <2> QED
    BY <1>1, <2>1, <2>2, SameIdentified DEF Fin, Plain
<1>6. ASSUME NEW l \in leaving, DisconnectClose(l)
      PROVE  Plain
  <2>1. l.s \in DOMAIN sessions /\ l.conv \in Nat
    BY <1>1 DEF TInv, ListenerOK
  <2>2. Kept(sessions', sessions)
    BY <1>1, <1>6, <2>1, CloseWithKeeps DEF DisconnectClose
  <2>3. net' \subseteq net \cup {Down(sessions[l.s].addr, "FIN", l.conv, sessions[l.s].sid)}
    BY <1>6, WriteIn DEF DisconnectClose, CloseWith
  <2> QED
    BY <1>1, <2>2, <2>3, KeptIdentified DEF Plain
<1>7. CASE Close
  <2>1. ASSUME NEW i \in DOMAIN sessions
        PROVE  /\ i \in DOMAIN sessions' /\ sessions'[i].addr = sessions[i].addr
               /\ sessions'[i].sid = sessions[i].sid
    <3>1. sessions[i] \in Session
      BY <1>1, SessionAt
    <3>2. /\ i \in DOMAIN sessions'
          /\ sessions'[i] = [sessions[i] EXCEPT !.open = FALSE,
                               !.handler = IF @ = "blocked" THEN "fin" ELSE @]
      BY <1>7 DEF Close
    <3> QED
      BY <3>1, <3>2 DEF Session
  <2> QED
    BY <1>1, <1>7, <2>1 DEF Close, Plain, Identified
<1> QED
  BY <1>2, <1>3, <1>4, <1>5, <1>6, <1>7 DEF UserStep

\* The dialed sessions' ids are different where their clients are.
LEMMA DialsApart ==
  ASSUME UInv, NEW a \in Addrs, NEW b \in Addrs, a # b,
         dial[a].state \in {"open", "closed"}, dial[b].state \in {"open", "closed"}
  PROVE  dial[a].sid # dial[b].sid
<1>1. HasId(dial[a].sid, a) /\ HasId(dial[b].sid, b)
  BY DEF UInv, DialIds
<1> QED
  BY <1>1 DEF HasId, UInv, IdsApart

\* A dialed session changes; the map changes only for its id, and has it if
\* Dial has returned it and it is open.
LEMMA OneDials ==
  ASSUME UInv, UNCHANGED <<sessions, panicked>>, NEW a \in Addrs, NEW r \in Dialed,
         dial' = [dial EXCEPT ![a] = r],
         IF r.state \in {"open", "closed"} THEN HasId(r.sid, a) ELSE ~r.returned,
         \/ unmanaged' = unmanaged /\ (r.state = "open" /\ r.returned => dial[a] = r)
         \/ /\ dial[a].state \in {"open", "closed"}
            /\ \/ unmanaged' = With(unmanaged, dial[a].sid, a) /\ r.sid = dial[a].sid
               \/ unmanaged' = Without(unmanaged, dial[a].sid) /\ r.state # "open"
  PROVE  DialIds' /\ DialedIsUpdated'
<1>1. dial \in [Addrs -> Dialed]
  BY DEF UInv, KInv, TInv, DialerOK
<1>2. /\ \A b \in Addrs : b # a => dial'[b] = dial[b]
      /\ dial'[a] = r
  BY <1>1
<1>3. ASSUME NEW b \in Addrs
      PROVE  IF dial'[b].state \in {"open", "closed"} THEN HasId(dial'[b].sid, b)
             ELSE ~dial'[b].returned
  BY <1>2, <1>3 DEF UInv, DialIds
<1>4. DialIds'
  BY <1>3 DEF DialIds, HasId
<1>5. ASSUME NEW b \in Addrs, ~panicked', dial'[b].state = "open", dial'[b].returned
      PROVE  dial'[b].sid \in DOMAIN unmanaged' /\ unmanaged'[dial'[b].sid] = b
  <2>1. CASE b = a
    <3>1. r.state = "open" /\ r.returned /\ dial'[b] = r
      BY <1>2, <1>5, <2>1
    <3>2. CASE unmanaged' = unmanaged /\ dial[a] = r
      BY <1>5, <2>1, <3>1, <3>2 DEF UInv, DialedIsUpdated
    <3>3. CASE unmanaged' = With(unmanaged, dial[a].sid, a) /\ r.sid = dial[a].sid
      BY <2>1, <3>1, <3>3 DEF With
    <3> QED
      BY <3>1, <3>2, <3>3
  <2>2. CASE b # a
    <3>1. dial'[b] = dial[b] /\ dial[b].state = "open" /\ dial[b].returned
      BY <1>2, <1>5, <2>2
    <3>2. dial[b].sid \in DOMAIN unmanaged /\ unmanaged[dial[b].sid] = b
      BY <1>5, <3>1 DEF UInv, DialedIsUpdated
    <3>3. CASE unmanaged' = unmanaged
      BY <3>1, <3>2, <3>3
    <3>4. CASE dial[a].state \in {"open", "closed"}
      <4>1. dial[b].sid # dial[a].sid
        BY <2>2, <3>1, <3>4, DialsApart
      <4> QED
        BY <3>1, <3>2, <3>3, <4>1 DEF With, Without
    <3> QED
      BY <3>3, <3>4
  <2> QED
    BY <2>1, <2>2
<1>6. DialedIsUpdated'
  BY <1>5 DEF DialedIsUpdated
<1> QED
  BY <1>4, <1>6

LEMMA DialIdsKept ==
  ASSUME UInv, NEW a \in Addrs, Dial(a)
  PROVE  NetIds' /\ DialIds' /\ DialedIsUpdated'
<1> DEFINE r == [dial[a] EXCEPT !.state = "opening"]
<1>1. dial[a] \in Dialed /\ dial[a].state = "new" /\ ~dial[a].returned
  BY DEF UInv, KInv, TInv, DialerOK, DialIds, Dial
<1>2. r \in Dialed /\ r.state = "opening" /\ ~r.returned
  BY <1>1 DEF Dialed
<1>3. dial' = [dial EXCEPT ![a] = r] /\ UNCHANGED <<sessions, panicked, unmanaged>>
  BY DEF Dial, listenerVars
<1> HIDE DEF r
<1>4. DialIds' /\ DialedIsUpdated'
  BY <1>2, <1>3, OneDials
<1>5. net' \subseteq net \cup {Up(a, "SYN", 0, 0)}
  BY DEF Dial
<1> QED
  BY <1>3, <1>4, <1>5, SameIdentified, OtherIds, NetStaysIds

LEMMA AckIds ==
  ASSUME UInv, NEW d \in net, DialerAck(d)
  PROVE  NetIds' /\ DialIds' /\ DialedIsUpdated'
<1> DEFINE a == d.peer
           r == [dial[a] EXCEPT !.state = "open", !.conv = d.conv, !.sid = d.sid]
<1>1. /\ a \in Addrs /\ d.conv \in Nat /\ d.sid \in Nat /\ HasId(d.sid, a)
      /\ UNCHANGED <<sessions, panicked, unmanaged>>
  BY DEF UInv, KInv, TInv, NetOK, DatagramOK, Datagram, NetIds, IdDatagram, DialerAck, listenerVars
<1>2. NetIds'
  BY <1>1, AfterIn, SameIdentified, NetShrinksIds DEF DialerAck, Drop
<1>3. CASE Starts(a)
  <2>1. dial[a] \in Dialed /\ ~dial[a].returned
    BY <1>1, <1>3 DEF UInv, KInv, TInv, DialerOK, DialIds, Starts
  <2>2. r \in Dialed /\ r.state = "open" /\ ~r.returned /\ r.sid = d.sid
    BY <1>1, <2>1 DEF Dialed
  <2>3. dial' = [dial EXCEPT ![a] = r]
    BY <1>3 DEF DialerAck
  <2> HIDE DEF r
  <2> QED
    BY <1>1, <1>2, <2>2, <2>3, OneDials
<1>4. CASE ~Starts(a)
  <2>1. UNCHANGED dialerVars
    BY <1>1, <1>4 DEF DialerAck, dialerVars
  <2> QED
    BY <1>1, <1>2, <2>1, SameIdentified, DialersStay
<1> QED
  BY <1>3, <1>4

LEMMA ReturnIds ==
  ASSUME UInv, NEW a \in Addrs, DialReturns(a)
  PROVE  NetIds' /\ DialIds' /\ DialedIsUpdated'
<1> DEFINE r == [dial[a] EXCEPT !.returned = TRUE]
<1>1. dial[a] \in Dialed /\ dial[a].state \in {"open", "closed"} /\ HasId(dial[a].sid, a)
  BY DEF UInv, KInv, TInv, DialerOK, DialIds, DialReturns
<1>2. r \in Dialed /\ r.state = dial[a].state /\ r.sid = dial[a].sid
  BY <1>1 DEF Dialed
<1>3. /\ dial' = [dial EXCEPT ![a] = r] /\ UNCHANGED <<sessions, panicked, net>>
      /\ unmanaged' = With(unmanaged, dial[a].sid, a)
  BY DEF DialReturns, listenerVars
<1> HIDE DEF r
<1>4. DialIds' /\ DialedIsUpdated'
  BY <1>1, <1>2, <1>3, OneDials
<1> QED
  BY <1>3, <1>4, SameIdentified, NetShrinksIds

LEMMA ClosingIds ==
  ASSUME UInv, NEW a \in Addrs, NEW rest, rest \subseteq net, dial[a].state = "open",
         DialedClose(a, rest)
  PROVE  NetIds' /\ DialIds' /\ DialedIsUpdated'
<1> DEFINE r == [dial[a] EXCEPT !.state = "closed"]
<1>1. dial[a] \in Dialed /\ HasId(dial[a].sid, a)
  BY DEF UInv, KInv, TInv, DialerOK, DialIds
<1>2. r \in Dialed /\ r.state = "closed" /\ r.sid = dial[a].sid
  BY <1>1 DEF Dialed
<1>3. /\ dial' = [dial EXCEPT ![a] = r] /\ UNCHANGED <<sessions, panicked>>
      /\ unmanaged' = Without(unmanaged, dial[a].sid)
  BY DEF DialedClose, listenerVars
<1> HIDE DEF r
<1>4. DialIds' /\ DialedIsUpdated'
  BY <1>1, <1>2, <1>3, OneDials
<1>5. net' \subseteq net \cup {Up(a, "FIN", dial[a].conv, dial[a].sid)}
  BY WriteIn DEF DialedClose
<1> QED
  BY <1>3, <1>4, <1>5, SameIdentified, OtherIds, NetStaysIds

LEMMA DialerIds ==
  ASSUME UInv, DialerStep
  PROVE  IdsApart' /\ NetIds' /\ DialIds' /\ DialedIsUpdated'
<1>1. sessions' = sessions
  BY DEF DialerStep, Dial, DialReturns, DialerClose, DialedClose, DialerSend, ClientSyn, DialerAck,
         DialerFin, DialerSegment, DialerPanics, listenerVars
<1>2. Identified /\ IdsApart'
  BY <1>1, SameIdentified, ApartStay
<1>3. ASSUME NEW a \in Addrs, ClientSyn(a) \/ DialerSend(a)
      PROVE  NetIds' /\ DialIds' /\ DialedIsUpdated'
  <2>1. PICK cmd \in {"SYN", "SEG"} : Write(net, {Up(a, cmd, dial[a].conv, dial[a].sid)})
    BY <1>3 DEF ClientSyn, DialerSend
  <2>2. (dial[a].sid = 0 \/ HasId(dial[a].sid, a)) /\ UNCHANGED dialerVars
    BY <1>3 DEF ClientSyn, DialerSend, UInv, DialIds, KInv, TInv, DialerOK
  <2>3. IdDatagram(Up(a, cmd, dial[a].conv, dial[a].sid))
    BY <2>2 DEF IdDatagram, Up
  <2>4. net' \subseteq net \cup {Up(a, cmd, dial[a].conv, dial[a].sid)}
    BY <2>1, WriteIn
  <2> QED
    BY <1>2, <2>2, <2>3, <2>4, NetStaysIds, DialersStay
<1>4. ASSUME NEW d \in net, DialerSegment(d)
      PROVE  NetIds' /\ DialIds' /\ DialedIsUpdated'
  <2>1. net' \subseteq net /\ UNCHANGED dialerVars
    BY <1>4, AfterIn DEF DialerSegment, Drop
  <2> QED
    BY <1>2, <2>1, NetShrinksIds, DialersStay
<1>5. ASSUME NEW d \in net, DialerPanics(d)
      PROVE  NetIds' /\ DialIds' /\ DialedIsUpdated'
  <2>1. net' \subseteq net /\ UNCHANGED <<dial, unmanaged>> /\ panicked'
    BY <1>5 DEF DialerPanics
  <2>2. DialIds' /\ DialedIsUpdated'
    BY <1>1, <2>1 DEF UInv, DialIds, HasId, DialedIsUpdated
  <2> QED
    BY <1>2, <2>1, <2>2, NetShrinksIds
<1>6. ASSUME NEW d \in net, DialerFin(d)
      PROVE  NetIds' /\ DialIds' /\ DialedIsUpdated'
  <2>1. d.peer \in Addrs
    BY DEF UInv, KInv, TInv, NetOK, DatagramOK, Datagram
  <2>2. dial[d.peer].state = "open" /\ DialedClose(d.peer, net \ {d})
    BY <1>6 DEF DialerFin
  <2> QED
    BY <2>1, <2>2, ClosingIds
<1>7. ASSUME NEW a \in Addrs, DialerClose(a)
      PROVE  NetIds' /\ DialIds' /\ DialedIsUpdated'
  BY <1>7, ClosingIds DEF DialerClose
<1> QED
  BY <1>2, <1>3, <1>4, <1>5, <1>6, <1>7, DialIdsKept, AckIds, ReturnIds DEF DialerStep

\* A session that Dial has returned stays with the ticker until it is closed
\* (Dial, closeSession): nobody else's closing or dialing takes its place in
\* unmanaged.  It needs that the generator gives no id twice; clients may
\* repeat their own, and any closing call may be made.
THEOREM DialedIsUpdatedHolds ==
  ASSUME ~Reuse
  PROVE  Spec => []DialedIsUpdated
<1>1. Init => UInv
  <2>1. Init => IdsApart /\ NetIds /\ DialIds /\ DialedIsUpdated
    BY DEF Init, IdsApart, NetIds, DialIds, DialedIsUpdated
  <2> QED
    BY <2>1, Initially DEF UInv
<1>2. UInv /\ [Next]_vars => UInv'
  <2> SUFFICES ASSUME UInv, [Next]_vars
               PROVE  IdsApart' /\ NetIds' /\ DialIds' /\ DialedIsUpdated'
    BY Inductive DEF UInv
  <2>1. CASE ReaderStep
    BY <2>1, ReaderIds
  <2>2. CASE \E s \in DOMAIN sessions : HandlerStep(s)
    BY <2>2, HandlerIds, PlainIds
  <2>3. CASE UserStep
    BY <2>3, UserIds, PlainIds
  <2>4. CASE DialerStep
    BY <2>4, DialerIds
  <2>5. CASE UNCHANGED vars
    <3>1. Plain
      BY <2>5, SameIdentified DEF vars, listenerVars, Plain
    <3> QED
      BY <3>1, PlainIds
  <2> QED
    BY <2>1, <2>2, <2>3, <2>4, <2>5 DEF Next
<1>3. UInv => DialedIsUpdated
  BY DEF UInv
<1> QED
  BY <1>1, <1>2, <1>3, PTL DEF Spec

=============================================================================
