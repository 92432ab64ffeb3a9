----------------------------- MODULE Kcp_proofs -----------------------------
(***************************************************************************)
(* The safety properties of Kcp hold for every value of the constants:     *)
(* IInv (module KcpInv) is an inductive invariant and implies them.  On a  *)
(* path that keeps the order, WInv is one as well, and the sender knows    *)
(* the latest window.                                                      *)
(***************************************************************************)
EXTENDS KcpInv, SequenceTheorems, FiniteSetTheorems, TLAPS

-----------------------------------------------------------------------------
(* Facts about sequences and streams.                                      *)

\* A function on 1..n is a sequence of length n.
LEMMA FunctionIsSeq ==
  ASSUME NEW S, NEW n \in Nat, NEW f \in [1..n -> S]
  PROVE  f \in Seq(S) /\ Len(f) = n /\ DOMAIN f = 1..n
<1>1. f \in Seq(S)
  BY SeqDef
<1> QED
  BY <1>1, LenProperties

\* Split returns a sequence of count fragments, numbered down to 0.
LEMMA SplitProperties ==
  ASSUME NEW msg \in Nat, NEW count \in Nat
  PROVE  /\ Split(msg, count) \in Seq(Fragment)
         /\ Len(Split(msg, count)) = count
         /\ \A i \in 1..count : Split(msg, count)[i] = [msg |-> msg, frg |-> count - i]
<1>1. Split(msg, count) \in [1..count -> Fragment]
  BY DEF Split, Fragment
<1>2. \A i \in 1..count : Split(msg, count)[i] = [msg |-> msg, frg |-> count - i]
  BY DEF Split
<1> QED
  BY <1>1, <1>2, FunctionIsSeq

\* The number of a stream's last message bounds all the others.
LEMMA LastMsgProperties ==
  ASSUME NEW s \in Seq(Fragment), StreamOK(s)
  PROVE  /\ LastMsg(s) \in Nat
         /\ \A i \in DOMAIN s : s[i].msg <= LastMsg(s)
<1>1. CASE s = <<>>
  BY <1>1 DEF LastMsg
<1>2. CASE s # <<>>
  <2>1. Len(s) \in Nat \ {0} /\ DOMAIN s = 1..Len(s) /\ \A i \in 1..Len(s) : s[i] \in Fragment
    BY <1>2, EmptySeq, LenProperties, ElementOfSeq
  <2>2. LastMsg(s) = s[Len(s)].msg
    BY <1>2 DEF LastMsg
  <2>3. \A i \in 1..Len(s) : i < Len(s) => s[i].msg <= s[Len(s)].msg
    BY <2>1 DEF StreamOK
  <2> QED
    BY <2>1, <2>2, <2>3 DEF Fragment
<1> QED
  BY <1>1, <1>2

\* A message appended to a stream makes a stream.
LEMMA AppendMessage ==
  ASSUME NEW s \in Seq(Fragment), StreamOK(s), NEW count \in Nat
  PROVE  /\ s \o Split(LastMsg(s) + 1, count) \in Seq(Fragment)
         /\ StreamOK(s \o Split(LastMsg(s) + 1, count))
<1> DEFINE m == Split(LastMsg(s) + 1, count)
           t == s \o m
<1>1. LastMsg(s) \in Nat /\ \A i \in DOMAIN s : s[i].msg <= LastMsg(s)
  BY LastMsgProperties
<1>a. LastMsg(s) + 1 \in Nat
  BY <1>1
<1>2. /\ m \in Seq(Fragment) /\ Len(m) = count
      /\ \A i \in 1..count : m[i] = [msg |-> LastMsg(s) + 1, frg |-> count - i]
  BY <1>a, SplitProperties
<1>3. /\ t \in Seq(Fragment) /\ Len(t) = Len(s) + count /\ Len(s) \in Nat
      /\ \A i \in 1..Len(t) : t[i] = IF i <= Len(s) THEN s[i] ELSE m[i - Len(s)]
      /\ DOMAIN t = 1..Len(t) /\ DOMAIN s = 1..Len(s)
  <2> HIDE DEF m
  <2>1. /\ t \in Seq(Fragment) /\ Len(t) = Len(s) + Len(m)
        /\ \A i \in 1..(Len(s) + Len(m)) : t[i] = IF i <= Len(s) THEN s[i] ELSE m[i - Len(s)]
    BY <1>2, ConcatProperties, Zenon
  <2> HIDE DEF t
  <2>2. Len(s) \in Nat /\ DOMAIN s = 1..Len(s) /\ DOMAIN t = 1..Len(t)
    BY <2>1, LenProperties, Zenon
  <2> QED
    BY <1>2, <2>1, <2>2, Zenon
<1>4. \A i \in 1..Len(s) : s[i] \in Fragment /\ t[i] = s[i]
  BY <1>3, ElementOfSeq
<1>5. \A i \in (Len(s) + 1)..Len(t) :
        t[i] = [msg |-> LastMsg(s) + 1, frg |-> Len(t) - i]
  BY <1>2, <1>3
<1> HIDE DEF m, t
<1>6. \A i \in DOMAIN t :
        /\ i + t[i].frg <= Len(t)
        /\ \A j \in 0..t[i].frg : t[i + j] = [msg |-> t[i].msg, frg |-> t[i].frg - j]
  <2> TAKE i \in DOMAIN t
  <2>1. CASE i <= Len(s)
    <3>1. i + s[i].frg <= Len(s) /\ s[i].frg \in Nat
      BY <1>3, <1>4, <2>1 DEF StreamOK, Fragment
    <3>2. \A j \in 0..s[i].frg : s[i + j] = [msg |-> s[i].msg, frg |-> s[i].frg - j]
      BY <1>3, <2>1 DEF StreamOK
    <3> QED
      BY <1>3, <1>4, <2>1, <3>1, <3>2, SMTT(30)
  <2>2. CASE i > Len(s)
    <3>1. i \in (Len(s) + 1)..Len(t)
      BY <1>3, <2>2
    <3>2. t[i] = [msg |-> LastMsg(s) + 1, frg |-> Len(t) - i]
      BY <1>5, <3>1
    <3> QED
      BY <1>1, <1>3, <1>5, <2>2, <3>1, <3>2, SMTT(30)
  <2> QED
    BY <1>3, <2>1, <2>2
<1>7. \A i, j \in DOMAIN t : i < j => /\ t[i].msg <= t[j].msg
                                      /\ t[i].frg = 0 => t[i].msg < t[j].msg
  <2> SUFFICES ASSUME NEW i \in DOMAIN t, NEW j \in DOMAIN t, i < j
               PROVE  t[i].msg <= t[j].msg /\ (t[i].frg = 0 => t[i].msg < t[j].msg)
    OBVIOUS
  <2>0. i \in 1..Len(t) /\ j \in 1..Len(t)
    BY <1>3
  <2>1. CASE j <= Len(s)
    <3>1. i \in DOMAIN s /\ j \in DOMAIN s /\ t[i] = s[i] /\ t[j] = s[j]
      BY <1>3, <1>4, <2>0, <2>1
    <3> QED
      BY <3>1 DEF StreamOK
  <2>2. CASE j > Len(s) /\ i <= Len(s)
    <3>1. j \in (Len(s) + 1)..Len(t) /\ i \in 1..Len(s)
      BY <1>3, <2>0, <2>2
    <3>2. t[j] = [msg |-> LastMsg(s) + 1, frg |-> Len(t) - j]
      BY <1>5, <3>1
    <3>3. t[i].msg \in Nat /\ t[i].msg <= LastMsg(s)
      BY <1>1, <1>3, <1>4, <3>1 DEF Fragment
    <3> QED
      BY <1>1, <3>2, <3>3
  <2>3. CASE i > Len(s)
    <3>1. i \in (Len(s) + 1)..Len(t) /\ j \in (Len(s) + 1)..Len(t)
      BY <1>3, <2>0, <2>3
    <3>2. /\ t[i] = [msg |-> LastMsg(s) + 1, frg |-> Len(t) - i]
          /\ t[j] = [msg |-> LastMsg(s) + 1, frg |-> Len(t) - j]
      BY <1>5, <3>1
    <3>3. Len(t) - i # 0
      BY <1>3, <2>0
    <3> QED
      BY <1>1, <3>2, <3>3
  <2> QED
    BY <1>3, <2>1, <2>2, <2>3
<1> QED
  BY <1>3, <1>6, <1>7 DEF StreamOK, m, t

-----------------------------------------------------------------------------
(* What the helpers of the actions do to the state.                        *)

LEMMA OtherEnd ==
  ASSUME NEW e \in Ends
  PROVE  Other(e) \in Ends /\ Other(e) # e /\ Other(Other(e)) = e
BY DEF Ends, Other

\* n segments moved from the front of buf to the end of queue, which made q
\* of queue and left b of buf.
Moved(e, buf, queue, n, q, b) ==
  /\ n \in Nat /\ q \in Seq(Fragment)
  /\ rcv_nxt' = [rcv_nxt EXCEPT ![e] = rcv_nxt[e] + n]
  /\ rcv_queue' = [rcv_queue EXCEPT ![e] = q]
  /\ rcv_buf' = [rcv_buf EXCEPT ![e] = b]
  /\ \A i \in 1..n : rcv_nxt[e] + i - 1 \in DOMAIN buf
  /\ Len(q) = Len(queue) + n
  /\ n > 0 => Len(queue) + n <= RcvWnd
  /\ \A i \in 1..Len(queue) : q[i] = queue[i]
  /\ \A i \in 1..n : q[Len(queue) + i] = buf[rcv_nxt[e] + i - 1]
  /\ DOMAIN b = {sn \in DOMAIN buf : sn >= rcv_nxt[e] + n}
  /\ b \in [DOMAIN b -> Fragment]
  /\ \A sn \in DOMAIN b : b[sn] = buf[sn]

\* Assemble moves segments from the front of buf to the end of queue.
LEMMA AssembleEffect ==
  ASSUME TypeOK, NEW e \in Ends, NEW buf, NEW queue \in Seq(Fragment),
         DOMAIN buf \subseteq Nat, buf \in [DOMAIN buf -> Fragment],
         Assemble(e, buf, queue)
  PROVE  \E n, q, b : Moved(e, buf, queue, n, q, b)
<1>1. PICK n \in Available(rcv_nxt[e], buf, queue) :
        /\ rcv_queue' = [rcv_queue EXCEPT ![e] =
                           queue \o [i \in 1..n |-> buf[rcv_nxt[e] + i - 1]]]
        /\ rcv_buf' = [rcv_buf EXCEPT ![e] =
                         Restricted(buf, {sn \in DOMAIN buf : sn >= rcv_nxt[e] + n})]
        /\ rcv_nxt' = [rcv_nxt EXCEPT ![e] = @ + n]
  BY DEF Assemble
<1>2. n \in Nat /\ rcv_nxt[e] \in Nat
  BY <1>1, KcpConstants DEF Available, TypeOK
<1>3. \A i \in 1..n : rcv_nxt[e] + i - 1 \in DOMAIN buf
  <2> TAKE i \in 1..n
  <2>1. i - 1 \in 0..(n - 1) /\ rcv_nxt[e] + (i - 1) = rcv_nxt[e] + i - 1
    BY <1>2
  <2> QED
    BY <1>1, <2>1 DEF Available
<1> DEFINE moved == [i \in 1..n |-> buf[rcv_nxt[e] + i - 1]]
           q == queue \o moved
           b == Restricted(buf, {sn \in DOMAIN buf : sn >= rcv_nxt[e] + n})
<1>4. moved \in Seq(Fragment) /\ Len(moved) = n
  <2>1. moved \in [1..n -> Fragment]
    BY <1>3
  <2> HIDE DEF moved
  <2> QED
    BY <1>2, <2>1, FunctionIsSeq
<1>5. \A i \in 1..n : moved[i] = buf[rcv_nxt[e] + i - 1]
  OBVIOUS
<1>6. /\ q \in Seq(Fragment) /\ Len(q) = Len(queue) + n /\ Len(queue) \in Nat
      /\ \A i \in 1..(Len(queue) + n) :
           q[i] = IF i <= Len(queue) THEN queue[i] ELSE moved[i - Len(queue)]
  <2> HIDE DEF moved
  <2> QED
    BY <1>4, ConcatProperties, LenProperties
<1>7. \A i \in 1..n : q[Len(queue) + i] = buf[rcv_nxt[e] + i - 1]
  <2> TAKE i \in 1..n
  <2>1. Len(queue) + i \in 1..(Len(queue) + n) /\ ~(Len(queue) + i <= Len(queue))
        /\ Len(queue) + i - Len(queue) = i
    BY <1>2, <1>6
  <2> HIDE DEF moved, q
  <2> QED
    BY <1>5, <1>6, <2>1
<1>8. \A i \in 1..Len(queue) : q[i] = queue[i]
  <2> HIDE DEF moved, q
  <2> QED
    BY <1>2, <1>6
<1>9. /\ DOMAIN b = {sn \in DOMAIN buf : sn >= rcv_nxt[e] + n}
      /\ b \in [DOMAIN b -> Fragment]
      /\ \A sn \in DOMAIN b : b[sn] = buf[sn]
  BY DEF Restricted
<1>10. /\ rcv_nxt' = [rcv_nxt EXCEPT ![e] = rcv_nxt[e] + n]
       /\ rcv_queue' = [rcv_queue EXCEPT ![e] = q]
       /\ rcv_buf' = [rcv_buf EXCEPT ![e] = b]
  BY <1>1
<1> HIDE DEF moved, q, b
<1>11. n > 0 => Len(queue) + n <= RcvWnd
  BY <1>1 DEF Available
<1>12. Moved(e, buf, queue, n, q, b)
  BY <1>2, <1>3, <1>6, <1>7, <1>8, <1>9, <1>10, <1>11 DEF Moved
<1> QED
  BY <1>12

\* buf holds segments of the peer's stream from rcv_nxt on, and queue the
\* stream from k to rcv_nxt.
FromPeer(e, buf, queue, k) ==
  /\ DOMAIN buf \subseteq Nat /\ buf \in [DOMAIN buf -> Fragment]
  /\ DOMAIN rcv_buf[e] \subseteq DOMAIN buf
  /\ rcv_nxt[e] <= snd_nxt[Other(e)]
  /\ \A sn \in DOMAIN buf : /\ rcv_nxt[e] <= sn /\ sn < snd_nxt[Other(e)]
                            /\ buf[sn] = sent[Other(e)][sn + 1]
  /\ k + Len(queue) = rcv_nxt[e]
  /\ \A i \in 1..Len(queue) : queue[i] = sent[Other(e)][k + i]

\* The same is true in the next state, and nothing that was received is lost.
Assembled(e, buf, k) ==
  /\ rcv_nxt' \in [Ends -> Nat] /\ rcv_queue' \in [Ends -> Seq(Fragment)]
  /\ DOMAIN rcv_buf' = Ends
  /\ \A x \in Ends : x # e => /\ rcv_nxt'[x] = rcv_nxt[x]
                              /\ rcv_buf'[x] = rcv_buf[x]
                              /\ rcv_queue'[x] = rcv_queue[x]
  /\ DOMAIN rcv_buf'[e] \subseteq Nat
  /\ rcv_buf'[e] \in [DOMAIN rcv_buf'[e] -> Fragment]
  /\ rcv_nxt[e] <= rcv_nxt'[e] /\ rcv_nxt'[e] <= snd_nxt[Other(e)]
  /\ \A sn \in DOMAIN rcv_buf'[e] :
       /\ rcv_nxt'[e] <= sn /\ sn < snd_nxt[Other(e)]
       /\ rcv_buf'[e][sn] = sent[Other(e)][sn + 1]
  /\ k + Len(rcv_queue'[e]) = rcv_nxt'[e]
  /\ \A i \in 1..Len(rcv_queue'[e]) : rcv_queue'[e][i] = sent[Other(e)][k + i]
  /\ \A sn \in Nat : Received(e, sn) \/ sn \in DOMAIN buf
                        => sn < rcv_nxt'[e] \/ sn \in DOMAIN rcv_buf'[e]

LEMMA AssembleOK ==
  ASSUME TypeOK, NEW e \in Ends, NEW buf, NEW queue \in Seq(Fragment), NEW k \in Nat,
         FromPeer(e, buf, queue, k), Assemble(e, buf, queue)
  PROVE  Assembled(e, buf, k)
<1> USE DEF FromPeer
<1>0. PICK n, q, b : Moved(e, buf, queue, n, q, b)
  BY AssembleEffect
<1>1. /\ n \in Nat /\ q \in Seq(Fragment)
      /\ rcv_nxt' = [rcv_nxt EXCEPT ![e] = rcv_nxt[e] + n]
      /\ rcv_queue' = [rcv_queue EXCEPT ![e] = q]
      /\ rcv_buf' = [rcv_buf EXCEPT ![e] = b]
      /\ \A i \in 1..n : rcv_nxt[e] + i - 1 \in DOMAIN buf
      /\ Len(q) = Len(queue) + n
      /\ \A i \in 1..Len(queue) : q[i] = queue[i]
      /\ \A i \in 1..n : q[Len(queue) + i] = buf[rcv_nxt[e] + i - 1]
      /\ DOMAIN b = {sn \in DOMAIN buf : sn >= rcv_nxt[e] + n}
      /\ b \in [DOMAIN b -> Fragment]
      /\ \A sn \in DOMAIN b : b[sn] = buf[sn]
  BY <1>0 DEF Moved
<1>2. /\ rcv_nxt \in [Ends -> Nat] /\ rcv_queue \in [Ends -> Seq(Fragment)]
      /\ DOMAIN rcv_buf = Ends /\ snd_nxt[Other(e)] \in Nat /\ rcv_nxt[e] \in Nat
      /\ Len(queue) \in Nat
  BY OtherEnd, LenProperties DEF TypeOK
<1>3. /\ rcv_nxt'[e] = rcv_nxt[e] + n /\ rcv_queue'[e] = q /\ rcv_buf'[e] = b
      /\ rcv_nxt' \in [Ends -> Nat] /\ rcv_queue' \in [Ends -> Seq(Fragment)]
      /\ DOMAIN rcv_buf' = Ends
      /\ \A x \in Ends : x # e => /\ rcv_nxt'[x] = rcv_nxt[x]
                                  /\ rcv_buf'[x] = rcv_buf[x]
                                  /\ rcv_queue'[x] = rcv_queue[x]
  BY <1>1, <1>2
<1>4. rcv_nxt[e] + n <= snd_nxt[Other(e)]
  <2>1. CASE n = 0
    BY <1>2, <2>1
  <2>2. CASE n # 0
    <3>1. n \in 1..n
      BY <1>1, <2>2
    <3>2. rcv_nxt[e] + n - 1 \in DOMAIN buf
      BY <1>1, <3>1
    <3>3. rcv_nxt[e] + n - 1 < snd_nxt[Other(e)]
      BY <3>2
    <3> QED
      BY <1>1, <1>2, <3>3
  <2> QED
    BY <2>1, <2>2
<1>5. \A i \in 1..Len(q) : q[i] = sent[Other(e)][k + i]
  <2> TAKE i \in 1..Len(q)
  <2>1. CASE i <= Len(queue)
    BY <1>1, <1>2, <2>1
  <2>2. CASE i > Len(queue)
    <3> DEFINE j == i - Len(queue)
    <3>1. j \in 1..n /\ i = Len(queue) + j
      BY <1>1, <1>2, <2>2
    <3> HIDE DEF j
    <3>2. q[i] = buf[rcv_nxt[e] + j - 1] /\ rcv_nxt[e] + j - 1 \in DOMAIN buf
      BY <1>1, <3>1
    <3>3. q[i] = sent[Other(e)][rcv_nxt[e] + j - 1 + 1]
      BY <3>2
    <3>4. rcv_nxt[e] + j - 1 + 1 = k + i
      BY <1>2, <3>1
    <3> QED
      BY <3>3, <3>4
  <2> QED
    BY <1>1, <1>2, <2>1, <2>2
<1>6. \A sn \in DOMAIN b : /\ rcv_nxt[e] + n <= sn /\ sn < snd_nxt[Other(e)]
                           /\ b[sn] = sent[Other(e)][sn + 1]
  BY <1>1, <1>2
<1>7. \A sn \in Nat : Received(e, sn) \/ sn \in DOMAIN buf
                      => sn < rcv_nxt[e] + n \/ sn \in DOMAIN b
  BY <1>1, <1>2 DEF Received
<1>8. k + Len(q) = rcv_nxt[e] + n
  BY <1>1, <1>2
<1> QED
  BY <1>1, <1>2, <1>3, <1>4, <1>5, <1>6, <1>7, <1>8, SMTT(30) DEF Assembled

\* A flush moves no more than snd_queue holds and the window allows.
LEMMA NewSegsBound ==
  ASSUME TypeOK, NEW e \in Ends, SndOK(e)
  PROVE  /\ NewSegs(e) \in Nat
         /\ NewSegs(e) <= Len(snd_queue[e])
         /\ snd_nxt[e] + NewSegs(e) <= snd_una[e] + SndWnd
<1>1. /\ snd_una[e] \in Nat /\ snd_nxt[e] \in Nat /\ rmt_wnd[e] \in Nat /\ SndWnd \in Nat
      /\ Len(snd_queue[e]) \in Nat /\ snd_nxt[e] <= snd_una[e] + SndWnd
  BY KcpConstants, LenProperties DEF TypeOK, SndOK
<1> DEFINE limit == snd_una[e] + imin(SndWnd, rmt_wnd[e])
<1>2. limit \in Nat /\ limit <= snd_una[e] + SndWnd
  BY <1>1 DEF imin
<1>3. NewSegs(e) = IF snd_nxt[e] < limit THEN imin(Len(snd_queue[e]), limit - snd_nxt[e]) ELSE 0
  BY DEF NewSegs
<1> HIDE DEF limit
<1>4. CASE snd_nxt[e] < limit
  <2>1. limit - snd_nxt[e] \in Nat /\ NewSegs(e) = imin(Len(snd_queue[e]), limit - snd_nxt[e])
    BY <1>1, <1>2, <1>3, <1>4
  <2> QED
    BY <1>1, <1>2, <2>1, SMTT(30) DEF imin
<1>5. CASE ~(snd_nxt[e] < limit)
  BY <1>1, <1>3, <1>5
<1> QED
  BY <1>4, <1>5

\* snd_buf with the new segments is still the stream from snd_una on.
LEMMA WithNewProperties ==
  ASSUME TypeOK, NEW e \in Ends, SndOK(e)
  PROVE  /\ DOMAIN WithNew(e) = snd_una[e]..(snd_nxt[e] + NewSegs(e) - 1)
         /\ \A sn \in DOMAIN WithNew(e) :
              /\ WithNew(e)[sn] \in [frag : Fragment, acked : BOOLEAN]
              /\ WithNew(e)[sn].frag = sent[e][sn + 1]
              /\ WithNew(e)[sn].acked => Received(Other(e), sn)
<1>0. NewSegs(e) \in Nat /\ NewSegs(e) <= Len(snd_queue[e])
  BY NewSegsBound
<1>1. /\ NewSegs(e) \in Nat /\ NewSegs(e) <= Len(snd_queue[e])
      /\ snd_una[e] \in Nat /\ snd_nxt[e] \in Nat /\ snd_una[e] <= snd_nxt[e]
      /\ snd_queue[e] \in Seq(Fragment) /\ Len(snd_queue[e]) \in Nat
      /\ DOMAIN snd_queue[e] = 1..Len(snd_queue[e])
      /\ DOMAIN snd_buf[e] = snd_una[e]..(snd_nxt[e] - 1)
  BY <1>0, LenProperties DEF TypeOK, SndOK
<1>2. DOMAIN WithNew(e) = DOMAIN snd_buf[e] \cup New(e)
  BY DEF WithNew
<1>3. DOMAIN WithNew(e) = snd_una[e]..(snd_nxt[e] + NewSegs(e) - 1)
  BY <1>1, <1>2 DEF New
<1>4. ASSUME NEW sn \in DOMAIN WithNew(e)
      PROVE  /\ WithNew(e)[sn] \in [frag : Fragment, acked : BOOLEAN]
             /\ WithNew(e)[sn].frag = sent[e][sn + 1]
             /\ WithNew(e)[sn].acked => Received(Other(e), sn)
  <2>1. CASE sn \in New(e)
    <3>1. WithNew(e)[sn] = [frag |-> snd_queue[e][sn - snd_nxt[e] + 1], acked |-> FALSE]
      BY <1>2, <2>1 DEF WithNew
    <3>2. sn - snd_nxt[e] + 1 \in 1..Len(snd_queue[e]) /\ sn \in Nat
      BY <1>1, <2>1 DEF New
    <3>3. snd_queue[e][sn - snd_nxt[e] + 1] \in Fragment
      BY <1>1, <3>2, ElementOfSeq
    <3>4. snd_queue[e][sn - snd_nxt[e] + 1] = sent[e][snd_nxt[e] + (sn - snd_nxt[e] + 1)]
      BY <1>1, <3>2 DEF SndOK
    <3>5. snd_nxt[e] + (sn - snd_nxt[e] + 1) = sn + 1
      BY <1>1, <3>2
    <3> QED
      BY <3>1, <3>3, <3>4, <3>5
  <2>2. CASE sn \notin New(e)
    <3>1. sn \in DOMAIN snd_buf[e] /\ WithNew(e)[sn] = snd_buf[e][sn]
      BY <1>2, <2>2 DEF WithNew
    <3>2. snd_buf[e] \in [DOMAIN snd_buf[e] -> [frag : Fragment, acked : BOOLEAN]]
      BY DEF TypeOK
    <3>3. WithNew(e)[sn] \in [frag : Fragment, acked : BOOLEAN]
      BY <3>1, <3>2, Zenon
    <3>4. /\ WithNew(e)[sn].frag = sent[e][sn + 1]
          /\ WithNew(e)[sn].acked => Received(Other(e), sn)
      BY <3>1, Zenon DEF SndOK
    <3> QED
      BY <3>3, <3>4
  <2> QED
    BY <2>1, <2>2
<1> QED
  BY <1>3, <1>4

\* What a flush of e says in a segment.
Emitted(e, seg) ==
  /\ seg \in Segment
  /\ seg.una = rcv_nxt[e] /\ seg.wnd = wnd_unused(e)
  /\ seg.cmd = "PUSH" => /\ seg.sn < snd_nxt[e] + NewSegs(e)
                         /\ seg.frag = sent[e][seg.sn + 1]
  /\ seg.cmd = "ACK" => Received(e, seg.sn)

\* A sequence in ascending order, of a finite set.
LEMMA AscendingProperties ==
  ASSUME NEW S, IsFiniteSet(S), NEW f \in Ascending(S)
  PROVE  \E n \in Nat : f \in [1..n -> S] /\ DOMAIN f = 1..n
<1>1. Cardinality(S) \in Nat
  BY FS_CardinalityType
<1> QED
  BY <1>1 DEF Ascending

LEMMA OutputOK ==
  ASSUME TypeOK, NEW e \in Ends, SndOK(e), RcvOK(e), NEW asks \in SUBSET {"SEND", "TELL"},
         NEW pushes \in SUBSET DOMAIN WithNew(e), NEW out \in Output(e, asks, pushes)
  PROVE  out \in Seq(Segment) /\ \A i \in DOMAIN out : Emitted(e, out[i])
<1> DEFINE Good == {seg \in Segment : Emitted(e, seg)}
<1>1. PICK ai \in Ascending(AcksSent(e)), ps \in Ascending(pushes) :
        out = AckSegs(e, ai) \o AskSegs(e, asks) \o PushSegs(e, ps)
  BY DEF Output
<1>2. rcv_nxt[e] \in Nat /\ wnd_unused(e) \in 0..RcvWnd
  <2>1. Len(rcv_queue[e]) \in Nat /\ RcvWnd \in Nat
    BY KcpConstants, LenProperties DEF TypeOK
  <2> QED
    BY <2>1 DEF TypeOK, wnd_unused
<1>3. \A cmd \in {"WASK", "WINS"} : AskSeg(e, cmd) \in Good
  BY <1>2 DEF AskSeg, Emitted, Segment
<1>4. AskSegs(e, asks) \in Seq(Good)
  <2> DEFINE wask == IF "SEND" \in asks THEN <<AskSeg(e, "WASK")>> ELSE <<>>
             wins == IF "TELL" \in asks THEN <<AskSeg(e, "WINS")>> ELSE <<>>
  <2>1. AskSeg(e, "WASK") \in Good /\ AskSeg(e, "WINS") \in Good
    BY <1>3
  <2>2. wask \in Seq(Good) /\ wins \in Seq(Good)
    <3> HIDE DEF Good
    <3> QED
      BY <2>1
  <2>3. AskSegs(e, asks) = wask \o wins
    BY DEF AskSegs
  <2> HIDE DEF wask, wins, Good
  <2> QED
    BY <2>2, <2>3, ConcatProperties
<1>5. AckSegs(e, ai) \in Seq(Good)
  <2>1. acklist[e] \in Seq(Nat) /\ Len(acklist[e]) \in Nat /\ DOMAIN acklist[e] = 1..Len(acklist[e])
    BY LenProperties DEF TypeOK
  <2>2. IsFiniteSet(1..Len(acklist[e]))
    BY <2>1, FS_Interval
  <2>3. AcksSent(e) \subseteq 1..Len(acklist[e])
    BY <2>1 DEF AcksSent
  <2>4. IsFiniteSet(AcksSent(e))
    BY <2>2, <2>3, FS_Subset
  <2>5. PICK n \in Nat : ai \in [1..n -> AcksSent(e)] /\ DOMAIN ai = 1..n
    BY <2>4, AscendingProperties
  <2>6. ASSUME NEW i \in 1..n
        PROVE  AckSeg(e, acklist[e][ai[i]]) \in Good
    <3>1. ai[i] \in DOMAIN acklist[e]
      BY <2>1, <2>3, <2>5
    <3>2. acklist[e][ai[i]] \in Nat /\ Received(e, acklist[e][ai[i]])
      BY <2>1, <3>1, ElementOfSeq DEF RcvOK
    <3> QED
      BY <1>2, <3>2 DEF AckSeg, Emitted, Segment
  <2>7. AckSegs(e, ai) \in [1..n -> Good]
    BY <2>5, <2>6 DEF AckSegs
  <2> HIDE DEF Good
  <2> QED
    BY <2>7, FunctionIsSeq
<1>6. PushSegs(e, ps) \in Seq(Good)
  <2>1. /\ DOMAIN WithNew(e) = snd_una[e]..(snd_nxt[e] + NewSegs(e) - 1)
        /\ \A sn \in DOMAIN WithNew(e) :
             /\ WithNew(e)[sn] \in [frag : Fragment, acked : BOOLEAN]
             /\ WithNew(e)[sn].frag = sent[e][sn + 1]
    BY WithNewProperties
  <2>a. NewSegs(e) \in Nat
    BY NewSegsBound
  <2>2. snd_una[e] \in Nat /\ snd_nxt[e] + NewSegs(e) - 1 \in Int
        /\ snd_nxt[e] \in Nat /\ NewSegs(e) \in Nat
    BY <2>a DEF TypeOK
  <2>b. snd_una[e] \in Int
    BY <2>2
  <2>c. IsFiniteSet(snd_una[e]..(snd_nxt[e] + NewSegs(e) - 1))
    BY <2>2, <2>b, FS_Interval, Zenon
  <2>3. IsFiniteSet(DOMAIN WithNew(e))
    BY <2>1, <2>c
  <2>4. IsFiniteSet(pushes)
    BY <2>3, FS_Subset
  <2>5. PICK n \in Nat : ps \in [1..n -> pushes] /\ DOMAIN ps = 1..n
    BY <2>4, AscendingProperties
  <2>6. ASSUME NEW i \in 1..n
        PROVE  PushSeg(e, ps[i]) \in Good
    <3>1. ps[i] \in DOMAIN WithNew(e)
      BY <2>5
    <3>2. ps[i] \in Nat /\ ps[i] < snd_nxt[e] + NewSegs(e)
      BY <2>1, <2>2, <3>1
    <3>3. WithNew(e)[ps[i]].frag \in Fragment
          /\ WithNew(e)[ps[i]].frag = sent[e][ps[i] + 1]
      BY <2>1, <3>1
    <3> QED
      BY <1>2, <3>2, <3>3 DEF PushSeg, Emitted, Segment
  <2>7. PushSegs(e, ps) \in [1..n -> Good]
    BY <2>5, <2>6 DEF PushSegs
  <2> HIDE DEF Good
  <2> QED
    BY <2>7, FunctionIsSeq
<1>7. out \in Seq(Good)
  <2> HIDE DEF Good
  <2>1. AckSegs(e, ai) \o AskSegs(e, asks) \in Seq(Good)
    BY <1>4, <1>5, ConcatProperties
  <2> QED
    BY <1>1, <1>6, <2>1, ConcatProperties
<1>8. \A i \in DOMAIN out : out[i] \in Good
  <2> HIDE DEF Good
  <2> QED
    BY <1>7, LenProperties, ElementOfSeq
<1>9. out \in Seq(Segment)
  <2>1. Good \subseteq Segment
    OBVIOUS
  <2> HIDE DEF Good
  <2> QED
    BY <1>7, <2>1, SeqMonotonic
<1> QED
  BY <1>8, <1>9

\* A datagram of a flush carries segments of its output, to the other end.
LEMMA DatagramsOK ==
  ASSUME NEW e \in Ends, NEW out \in Seq(Segment), NEW d \in Datagrams(e, out)
  PROVE  /\ d \in Datagram /\ d.to = Other(e)
         /\ \A i \in DOMAIN d.segs : \E j \in DOMAIN out : d.segs[i] = out[j]
<1>1. /\ Len(out) \in Nat /\ DOMAIN out = 1..Len(out) /\ MtuSegs \in Nat \ {0}
      /\ \A j \in 1..Len(out) : out[j] \in Segment
  BY KcpConstants, LenProperties, ElementOfSeq
<1>2. PICK lo \in DOMAIN out :
        d = [to |-> Other(e), segs |-> SubSeq(out, lo, imin(Len(out), lo + MtuSegs - 1))]
  BY DEF Datagrams
<1> DEFINE hi == imin(Len(out), lo + MtuSegs - 1)
<1>3. lo \in 1..Len(out) /\ hi \in Int /\ hi <= Len(out)
  BY <1>1, <1>2 DEF imin
<1> HIDE DEF hi
<1>4. \A j \in lo..hi : out[j] \in Segment
  BY <1>1, <1>3
<1>5. /\ SubSeq(out, lo, hi) \in Seq(Segment)
      /\ Len(SubSeq(out, lo, hi)) = IF lo <= hi THEN hi - lo + 1 ELSE 0
      /\ \A i \in 1..(hi - lo + 1) : SubSeq(out, lo, hi)[i] = out[lo + i - 1]
  BY <1>3, <1>4, SubSeqProperties
<1>6. d.to = Other(e) /\ d.segs = SubSeq(out, lo, hi) /\ d \in Datagram
  BY <1>2, <1>5, OtherEnd DEF Datagram, hi
<1>7. ASSUME NEW i \in DOMAIN d.segs
      PROVE  \E j \in DOMAIN out : d.segs[i] = out[j]
  <2>1. DOMAIN d.segs = 1..Len(SubSeq(out, lo, hi))
    BY <1>5, <1>6, LenProperties
  <2>2. i \in 1..(hi - lo + 1) /\ lo + i - 1 \in 1..Len(out)
    BY <1>1, <1>3, <1>5, <2>1
  <2>3. d.segs[i] = out[lo + i - 1]
    BY <1>5, <1>6, <2>2
  <2> QED
    BY <1>1, <2>2, <2>3
<1> QED
  BY <1>6, <1>7

\* A flush of e: the sending half of e is still as SndOK says, its acklist is
\* empty, and what is new in the network was emitted by e.
LEMMA FlushEffect ==
  ASSUME TypeOK, NEW e \in Ends, SndOK(e), RcvOK(e),
         NEW due \in SUBSET Unacked(e), NEW asking \in BOOLEAN, NEW reliable \in BOOLEAN,
         Flush(e, due, asking, reliable)
  PROVE  /\ snd_queue' \in [Ends -> Seq(Fragment)] /\ snd_nxt' \in [Ends -> Nat]
         /\ snd_una' = snd_una /\ rmt_wnd' = rmt_wnd
         /\ probe_wait' \in [Ends -> BOOLEAN] /\ acklist' \in [Ends -> Seq(Nat)]
         /\ DOMAIN snd_buf' = Ends
         /\ \A x \in Ends : x # e => /\ snd_queue'[x] = snd_queue[x]
                                     /\ snd_nxt'[x] = snd_nxt[x]
                                     /\ snd_buf'[x] = snd_buf[x]
                                     /\ acklist'[x] = acklist[x]
         /\ acklist'[e] = <<>>
         /\ snd_nxt'[e] = snd_nxt[e] + NewSegs(e) /\ snd_nxt[e] <= snd_nxt'[e]
         /\ snd_nxt'[e] <= snd_una[e] + SndWnd
         /\ snd_nxt'[e] + Len(snd_queue'[e]) = Len(sent[e])
         /\ \A i \in 1..Len(snd_queue'[e]) : snd_queue'[e][i] = sent[e][snd_nxt'[e] + i]
         /\ snd_buf'[e] = WithNew(e)
         /\ \A d \in net' : \/ d \in net
                            \/ /\ d \in Datagram /\ d.to = Other(e)
                               /\ \A i \in DOMAIN d.segs : Emitted(e, d.segs[i])
<1>1. /\ NewSegs(e) \in Nat /\ NewSegs(e) <= Len(snd_queue[e])
      /\ snd_nxt[e] + NewSegs(e) <= snd_una[e] + SndWnd
  BY NewSegsBound
<1>2. /\ snd_nxt \in [Ends -> Nat] /\ snd_queue \in [Ends -> Seq(Fragment)]
      /\ probe_wait \in [Ends -> BOOLEAN] /\ acklist \in [Ends -> Seq(Nat)]
      /\ DOMAIN snd_buf = Ends /\ snd_queue[e] \in Seq(Fragment)
  BY DEF TypeOK
<1>3. /\ snd_buf' = [snd_buf EXCEPT ![e] = WithNew(e)]
      /\ snd_nxt' = [snd_nxt EXCEPT ![e] = @ + NewSegs(e)]
      /\ snd_queue' = [snd_queue EXCEPT ![e] = SubSeq(@, NewSegs(e) + 1, Len(@))]
      /\ probe_wait' = [probe_wait EXCEPT ![e] = rmt_wnd[e] = 0]
      /\ acklist' = [acklist EXCEPT ![e] = <<>>]
      /\ snd_una' = snd_una /\ rmt_wnd' = rmt_wnd
  BY DEF Flush
<1> DEFINE q == SubSeq(snd_queue[e], NewSegs(e) + 1, Len(snd_queue[e]))
<1>4. /\ q \in Seq(Fragment) /\ Len(q) = Len(snd_queue[e]) - NewSegs(e)
      /\ \A i \in 1..Len(q) : q[i] = snd_queue[e][NewSegs(e) + i]
  <2>1. Len(snd_queue[e]) \in Nat
    BY <1>2, LenProperties
  <2>2. \A i \in (NewSegs(e) + 1)..Len(snd_queue[e]) : snd_queue[e][i] \in Fragment
    BY <1>1, <1>2, <2>1, ElementOfSeq
  <2>3. /\ q \in Seq(Fragment)
        /\ Len(q) = IF NewSegs(e) + 1 <= Len(snd_queue[e])
                    THEN Len(snd_queue[e]) - (NewSegs(e) + 1) + 1 ELSE 0
        /\ \A i \in 1..(Len(snd_queue[e]) - (NewSegs(e) + 1) + 1) :
             q[i] = snd_queue[e][NewSegs(e) + 1 + i - 1]
    BY <1>1, <2>1, <2>2, SubSeqProperties
  <2> HIDE DEF q
  <2>4. Len(q) = Len(snd_queue[e]) - NewSegs(e)
    BY <1>1, <2>1, <2>3
  <2>5. ASSUME NEW i \in 1..Len(q)
        PROVE  q[i] = snd_queue[e][NewSegs(e) + i]
    <3>1. i \in 1..(Len(snd_queue[e]) - (NewSegs(e) + 1) + 1)
      BY <1>1, <2>1, <2>4
    <3>2. NewSegs(e) + 1 + i - 1 = NewSegs(e) + i
      BY <1>1, <3>1
    <3> QED
      BY <2>3, <3>1, <3>2
  <2> QED
    BY <2>3, <2>4, <2>5
<1>5. snd_queue'[e] = q
  BY <1>2, <1>3
<1> HIDE DEF q
<1>6. snd_nxt'[e] = snd_nxt[e] + NewSegs(e) /\ snd_nxt[e] \in Nat
  BY <1>2, <1>3
<1>7. snd_nxt'[e] + Len(q) = Len(sent[e])
  <2>1. snd_nxt[e] + Len(snd_queue[e]) = Len(sent[e]) /\ Len(snd_queue[e]) \in Nat
    BY <1>2, LenProperties DEF SndOK
  <2> QED
    BY <1>1, <1>4, <1>6, <2>1
<1>8. ASSUME NEW i \in 1..Len(q)
      PROVE  q[i] = sent[e][snd_nxt'[e] + i]
  <2>1. NewSegs(e) + i \in 1..Len(snd_queue[e]) /\ DOMAIN snd_queue[e] = 1..Len(snd_queue[e])
    BY <1>1, <1>2, <1>4, LenProperties
  <2>2. snd_queue[e][NewSegs(e) + i] = sent[e][snd_nxt[e] + (NewSegs(e) + i)]
    BY <2>1 DEF SndOK
  <2>3. snd_nxt[e] + (NewSegs(e) + i) = snd_nxt'[e] + i
    BY <1>1, <1>6
  <2> QED
    BY <1>4, <2>2, <2>3
<1>9. ASSUME NEW d \in net', d \notin net
      PROVE  d \in Datagram /\ d.to = Other(e) /\ \A i \in DOMAIN d.segs : Emitted(e, d.segs[i])
  <2> DEFINE asks == probe[e] \cup (IF asking THEN {"SEND"} ELSE {})
  <2>1. PICK out \in Output(e, asks, due \cup New(e)) :
          Transmit(e, Datagrams(e, out), reliable)
    BY DEF Flush
  <2>2. asks \in SUBSET {"SEND", "TELL"}
    BY DEF TypeOK
  <2>3. due \cup New(e) \in SUBSET DOMAIN WithNew(e)
    BY DEF Unacked, WithNew
  <2> HIDE DEF asks
  <2>4. out \in Seq(Segment) /\ \A i \in DOMAIN out : Emitted(e, out[i])
    BY <2>1, <2>2, <2>3, OutputOK
  <2>5. d \in Datagrams(e, out)
    BY <1>9, <2>1 DEF Transmit
  <2>6. /\ d \in Datagram /\ d.to = Other(e)
        /\ \A i \in DOMAIN d.segs : \E j \in DOMAIN out : d.segs[i] = out[j]
    BY <2>4, <2>5, DatagramsOK
  <2> QED
    BY <2>4, <2>6
<1>10. /\ snd_queue' \in [Ends -> Seq(Fragment)] /\ snd_nxt' \in [Ends -> Nat]
       /\ probe_wait' \in [Ends -> BOOLEAN] /\ acklist' \in [Ends -> Seq(Nat)]
  BY <1>1, <1>2, <1>3, <1>4, <1>5, EmptySeq
<1>11. /\ DOMAIN snd_buf' = Ends /\ snd_buf'[e] = WithNew(e) /\ acklist'[e] = <<>>
       /\ \A x \in Ends : x # e => /\ snd_queue'[x] = snd_queue[x]
                                   /\ snd_nxt'[x] = snd_nxt[x]
                                   /\ snd_buf'[x] = snd_buf[x]
                                   /\ acklist'[x] = acklist[x]
  BY <1>2, <1>3
<1>12. snd_nxt[e] <= snd_nxt'[e] /\ snd_nxt'[e] <= snd_una[e] + SndWnd
  BY <1>1, <1>6
<1> QED
  BY <1>3, <1>5, <1>6, <1>7, <1>8, <1>9, <1>10, <1>11, <1>12

-----------------------------------------------------------------------------
(* What stays true when a step leaves a part of the state alone.           *)

\* Received and SegOK in the next state, of what is fixed in this one.
StillReceived(x, sn) == sn < rcv_nxt'[x] \/ sn \in DOMAIN rcv_buf'[x]
SegStillOK(e, seg) ==
  /\ seg.una <= rcv_nxt'[Other(e)]
  /\ seg.cmd = "PUSH" => /\ seg.sn < snd_nxt'[Other(e)]
                         /\ seg.frag = sent'[Other(e)][seg.sn + 1]
  /\ seg.cmd = "ACK" => StillReceived(Other(e), seg.sn)

\* No step takes back a number, a segment that was received, or a fragment
\* that was sent.
Grows ==
  \A x \in Ends :
    /\ snd_nxt[x] <= snd_nxt'[x] /\ rcv_nxt[x] <= rcv_nxt'[x]
    /\ \A sn \in Nat : Received(x, sn) => StillReceived(x, sn)
    /\ Len(sent[x]) <= Len(sent'[x])
    /\ \A i \in 1..Len(sent[x]) : sent'[x][i] = sent[x][i]

LEMMA SegOKGrows ==
  ASSUME TypeOK, TypeOK', Grows, NEW e \in Ends, SndOK(Other(e)),
         NEW seg \in Segment, SegOK(e, seg)
  PROVE  SegStillOK(e, seg)
<1> DEFINE o == Other(e)
<1>1. o \in Ends
  BY OtherEnd
<1> HIDE DEF o
<1>2. /\ rcv_nxt[o] \in Nat /\ rcv_nxt'[o] \in Nat /\ snd_nxt[o] \in Nat /\ snd_nxt'[o] \in Nat
      /\ Len(snd_queue[o]) \in Nat
  BY <1>1, LenProperties DEF TypeOK
<1>3. snd_nxt[o] <= Len(sent[o]) /\ Len(sent[o]) \in Nat
  <2>1. snd_nxt[o] + Len(snd_queue[o]) = Len(sent[o])
    BY <1>1 DEF SndOK, o
  <2> QED
    BY <1>2, <2>1
<1>4. seg.una \in Nat /\ seg.una <= rcv_nxt[o]
  BY DEF Segment, SegOK, o
<1>5. seg.una <= rcv_nxt'[o]
  BY <1>1, <1>2, <1>4 DEF Grows
<1>6. CASE seg.cmd = "PUSH"
  <2>1. seg.sn \in Nat /\ seg.sn < snd_nxt[o] /\ seg.frag = sent[o][seg.sn + 1]
    BY <1>6 DEF Segment, SegOK, o
  <2>2. seg.sn + 1 \in 1..Len(sent[o])
    BY <1>2, <1>3, <2>1
  <2>3. seg.sn < snd_nxt'[o] /\ sent'[o][seg.sn + 1] = sent[o][seg.sn + 1]
    BY <1>1, <1>2, <2>1, <2>2 DEF Grows
  <2> QED
    BY <1>5, <1>6, <2>1, <2>3 DEF SegStillOK, o
<1>7. CASE seg.cmd = "ACK"
  <2>1. seg.sn \in Nat /\ Received(o, seg.sn)
    BY <1>7 DEF Segment, SegOK, o
  <2>2. StillReceived(o, seg.sn)
    BY <1>1, <2>1 DEF Grows
  <2> QED
    BY <1>5, <1>7, <2>2 DEF SegStillOK, o
<1>8. CASE seg.cmd # "PUSH" /\ seg.cmd # "ACK"
  BY <1>5, <1>8 DEF SegStillOK, o
<1> QED
  BY <1>6, <1>7, <1>8

\* Datagrams that were in the network, and segments that were being handled.
LEMMA NetOKGrows ==
  ASSUME TypeOK, TypeOK', Grows, \A x \in Ends : SndOK(x), NetOK
  PROVE  \A d \in net : \A i \in DOMAIN d.segs : SegStillOK(d.to, d.segs[i])
<1> SUFFICES ASSUME NEW d \in net, NEW i \in DOMAIN d.segs
             PROVE  SegStillOK(d.to, d.segs[i])
  OBVIOUS
<1>1. d \in Datagram
  BY DEF TypeOK
<1>2. d.to \in Ends /\ d.segs \in Seq(Segment)
  BY <1>1 DEF Datagram
<1>3. d.segs[i] \in Segment
  BY <1>2, LenProperties, ElementOfSeq
<1>4. SegOK(d.to, d.segs[i]) /\ SndOK(Other(d.to))
  BY <1>2, OtherEnd DEF NetOK
<1> QED
  BY <1>2, <1>3, <1>4, SegOKGrows

LEMMA InputOKGrows ==
  ASSUME TypeOK, TypeOK', Grows, \A x \in Ends : SndOK(x), NEW e \in Ends, InputOK(e)
  PROVE  \A i \in DOMAIN input[e].segs : SegStillOK(e, input[e].segs[i])
<1> SUFFICES ASSUME NEW i \in DOMAIN input[e].segs
             PROVE  SegStillOK(e, input[e].segs[i])
  OBVIOUS
<1>1. input[e].segs \in Seq(Segment)
  BY DEF TypeOK
<1>2. input[e].segs[i] \in Segment
  BY <1>1, LenProperties, ElementOfSeq
<1>3. SegOK(e, input[e].segs[i]) /\ SndOK(Other(e))
  BY OtherEnd DEF InputOK
<1> QED
  BY <1>2, <1>3, SegOKGrows

LEMMA SndOKFrame ==
  ASSUME TypeOK, TypeOK', Grows, NEW x \in Ends, SndOK(x),
         snd_queue'[x] = snd_queue[x], snd_buf'[x] = snd_buf[x], snd_una'[x] = snd_una[x],
         snd_nxt'[x] = snd_nxt[x], sent'[x] = sent[x]
  PROVE  SndOK(x)'
<1>1. Other(x) \in Ends /\ snd_una[x] \in Nat
      /\ rcv_nxt[Other(x)] \in Nat /\ rcv_nxt'[Other(x)] \in Nat
      /\ DOMAIN snd_buf[x] \subseteq Nat
  BY OtherEnd DEF TypeOK
<1>2. snd_una[x] <= rcv_nxt'[Other(x)]
  BY <1>1 DEF Grows, SndOK
<1>3. \A sn \in DOMAIN snd_buf[x] : snd_buf[x][sn].acked => StillReceived(Other(x), sn)
  BY <1>1 DEF Grows, SndOK
<1> QED
  BY <1>2, <1>3 DEF SndOK, Received, StillReceived

LEMMA RcvOKFrame ==
  ASSUME TypeOK, TypeOK', Grows, NEW x \in Ends, RcvOK(x), SndOK(Other(x)),
         rcv_nxt'[x] = rcv_nxt[x], rcv_buf'[x] = rcv_buf[x],
         acklist'[x] = acklist[x] \/ acklist'[x] = <<>>
  PROVE  RcvOK(x)'
<1> DEFINE o == Other(x)
<1>1. /\ o \in Ends /\ snd_nxt[o] \in Nat /\ snd_nxt'[o] \in Nat /\ snd_nxt[o] <= snd_nxt'[o]
      /\ rcv_nxt[x] \in Nat /\ DOMAIN rcv_buf[x] \subseteq Nat /\ Len(snd_queue[o]) \in Nat
  BY OtherEnd, LenProperties DEF TypeOK, Grows
<1>2. snd_nxt[o] + Len(snd_queue[o]) = Len(sent[o])
  BY DEF SndOK
<1>3. rcv_nxt[x] <= snd_nxt'[o]
  BY <1>1 DEF RcvOK
<1>4. ASSUME NEW sn \in DOMAIN rcv_buf[x]
      PROVE  /\ rcv_nxt[x] <= sn /\ sn < snd_nxt'[o]
             /\ rcv_buf[x][sn] = sent'[o][sn + 1]
  <2>1. rcv_nxt[x] <= sn /\ sn < snd_nxt[o] /\ rcv_buf[x][sn] = sent[o][sn + 1] /\ sn \in Nat
    BY <1>1 DEF RcvOK
  <2>2. sn + 1 \in 1..Len(sent[o])
    BY <1>1, <1>2, <2>1
  <2>3. sent'[o][sn + 1] = sent[o][sn + 1]
    BY <1>1, <2>2 DEF Grows
  <2> QED
    BY <1>1, <2>1, <2>3
<1>5. \A i \in DOMAIN acklist'[x] : StillReceived(x, acklist'[x][i])
  <2>1. CASE acklist'[x] = acklist[x]
    <3>1. acklist[x] \in Seq(Nat)
      BY DEF TypeOK
    <3>2. \A i \in DOMAIN acklist[x] : acklist[x][i] \in Nat
      BY <3>1, LenProperties, ElementOfSeq
    <3>3. \A i \in DOMAIN acklist[x] : Received(x, acklist[x][i])
      BY DEF RcvOK
    <3>4. \A i \in DOMAIN acklist[x] : StillReceived(x, acklist[x][i])
      BY <3>2, <3>3 DEF Grows
    <3> QED
      BY <2>1, <3>4
  <2>2. CASE acklist'[x] = <<>>
    BY <2>2
  <2> QED
    BY <2>1, <2>2
<1> QED
  BY <1>3, <1>4, <1>5 DEF RcvOK, Received, StillReceived

\* Two parts and the indices of the whole.
LEMMA Within ==
  ASSUME NEW a \in Nat, NEW b \in Nat, NEW c \in Nat, a + b = c
  PROVE  (\A i \in 1..a : i \in 1..c) /\ (\A i \in 1..b : a + i \in 1..c)
OBVIOUS

LEMMA ReadOKFrame ==
  ASSUME TypeOK, TypeOK', Grows, NEW x \in Ends, ReadOK(x), RcvOK(x), SndOK(Other(x)),
         rcv_nxt'[x] = rcv_nxt[x], rcv_queue'[x] = rcv_queue[x], read'[x] = read[x]
  PROVE  ReadOK(x)'
<1> DEFINE o == Other(x)
<1>1. /\ o \in Ends /\ snd_nxt[o] \in Nat /\ rcv_nxt[x] \in Nat /\ Len(snd_queue[o]) \in Nat
      /\ Len(read[x]) \in Nat /\ DOMAIN read[x] = 1..Len(read[x])
      /\ Len(rcv_queue[x]) \in Nat /\ DOMAIN rcv_queue[x] = 1..Len(rcv_queue[x])
  <2>1. o \in Ends
    BY OtherEnd
  <2>2. /\ snd_nxt[o] \in Nat /\ rcv_nxt[x] \in Nat
        /\ snd_queue[o] \in Seq(Fragment) /\ read[x] \in Seq(Fragment)
        /\ rcv_queue[x] \in Seq(Fragment)
    BY <2>1 DEF TypeOK
  <2> QED
    BY <2>1, <2>2, LenProperties, Zenon
<1>2. /\ snd_nxt[o] + Len(snd_queue[o]) = Len(sent[o]) /\ rcv_nxt[x] <= snd_nxt[o]
      /\ Len(read[x]) + Len(rcv_queue[x]) = rcv_nxt[x]
  BY DEF SndOK, RcvOK, ReadOK
<1>3. \A i \in 1..rcv_nxt[x] : sent'[o][i] = sent[o][i]
  BY <1>1, <1>2 DEF Grows
<1>a. /\ \A i \in 1..Len(read[x]) : i \in 1..rcv_nxt[x]
      /\ \A i \in 1..Len(rcv_queue[x]) : Len(read[x]) + i \in 1..rcv_nxt[x]
  BY <1>1, <1>2, Within, Zenon
<1>4. ASSUME NEW i \in DOMAIN read[x]
      PROVE  read[x][i] = sent'[o][i]
  <2>0. i \in 1..Len(read[x])
    BY <1>1
  <2>1. i \in 1..rcv_nxt[x]
    BY <1>a, <2>0
  <2> QED
    BY <1>3, <2>1 DEF ReadOK
<1>5. ASSUME NEW i \in DOMAIN rcv_queue[x]
      PROVE  rcv_queue[x][i] = sent'[o][Len(read[x]) + i]
  <2>0. i \in 1..Len(rcv_queue[x])
    BY <1>1
  <2>1. Len(read[x]) + i \in 1..rcv_nxt[x]
    BY <1>a, <2>0
  <2> QED
    BY <1>3, <2>1 DEF ReadOK
<1> QED
  BY <1>4, <1>5 DEF ReadOK

LEMMA UserOKFrame ==
  ASSUME NEW x \in Ends, UserOK(x),
         payload'[x] = payload[x], delivered'[x] = delivered[x], read'[x] = read[x]
  PROVE  UserOK(x)'
BY DEF UserOK, Got

LEMMA GrowsFrame ==
  ASSUME TypeOK, UNCHANGED <<snd_nxt, rcv_nxt, rcv_buf, sent>>
  PROVE  Grows
<1>1. \A x \in Ends : snd_nxt[x] \in Nat /\ rcv_nxt[x] \in Nat /\ Len(sent[x]) \in Nat
  BY LenProperties DEF TypeOK
<1>2. \A x \in Ends : /\ snd_nxt[x] <= snd_nxt[x] /\ rcv_nxt[x] <= rcv_nxt[x]
                       /\ Len(sent[x]) <= Len(sent[x])
  BY <1>1
<1> QED
  BY <1>2 DEF Grows, Received, StillReceived

LEMMA NetOKFrame ==
  ASSUME TypeOK, TypeOK', Grows, \A x \in Ends : SndOK(x), NetOK, net' \subseteq net
  PROVE  NetOK'
<1>1. \A d \in net : \A i \in DOMAIN d.segs : SegStillOK(d.to, d.segs[i])
  BY NetOKGrows
<1> QED
  BY <1>1 DEF NetOK, SegOK, SegStillOK, Received, StillReceived

LEMMA InputOKFrame ==
  ASSUME TypeOK, TypeOK', Grows, \A x \in Ends : SndOK(x), NEW e \in Ends, InputOK(e),
         input'[e].segs = input[e].segs
  PROVE  InputOK(e)'
<1>1. \A i \in DOMAIN input[e].segs : SegStillOK(e, input[e].segs[i])
  BY InputOKGrows
<1> QED
  BY <1>1 DEF InputOK, SegOK, SegStillOK, Received, StillReceived

-----------------------------------------------------------------------------
(* Every action preserves the invariant.                                   *)

LEMMA PayloadStep ==
  ASSUME IInv, NEW e \in Ends, Payload(e)
  PROVE  IInv'
<1> USE DEF IInv
<1>1. /\ payload \in [Ends -> Seq(Seq(Fragment))] /\ delivered \in [Ends -> Seq(Seq(Fragment))]
      /\ payload[e] \in Seq(Seq(Fragment)) /\ delivered[e] \in Seq(Seq(Fragment))
      /\ payload[e] # <<>>
  BY DEF TypeOK, Payload
<1>2. /\ payload' = [payload EXCEPT ![e] = Tail(payload[e])]
      /\ delivered' = [delivered EXCEPT ![e] = Append(delivered[e], Head(payload[e]))]
  BY DEF Payload
<1>3. /\ Tail(payload[e]) \in Seq(Seq(Fragment))
      /\ Append(delivered[e], Head(payload[e])) \in Seq(Seq(Fragment))
  BY <1>1
<1>4. UNCHANGED <<sndVars, probe, rcvVars, acklist, sent, read, input, net>>
  BY DEF Payload
<1>5. TypeOK'
  BY <1>1, <1>2, <1>3, <1>4 DEF TypeOK, sndVars, rcvVars
<1>6. Grows
  BY <1>4, GrowsFrame DEF sndVars, rcvVars
<1>7. NetOK' /\ \A x \in Ends : InputOK(x)'
  BY <1>4, <1>5, <1>6, NetOKFrame, InputOKFrame
<1>8. ASSUME NEW x \in Ends
      PROVE  StreamOK(sent[x])' /\ SndOK(x)' /\ RcvOK(x)' /\ ReadOK(x)'
  <2>0. Other(x) \in Ends
    BY OtherEnd
  <2>1. SndOK(x)'
    BY <1>4, <1>5, <1>6, SndOKFrame DEF sndVars
  <2>2. RcvOK(x)'
    BY <1>4, <1>5, <1>6, <2>0, RcvOKFrame DEF rcvVars
  <2>3. ReadOK(x)'
    BY <1>4, <1>5, <1>6, <2>0, ReadOKFrame DEF rcvVars
  <2>4. StreamOK(sent[x])'
    BY <1>4
  <2> QED
    BY <2>1, <2>2, <2>3, <2>4
<1>9. ASSUME NEW x \in Ends
      PROVE  UserOK(x)'
  <2>1. CASE x = e
    <3>1. Got(x)' = Append(delivered[e], Head(payload[e])) \o Tail(payload[e])
      BY <1>1, <1>2, <2>1 DEF Got
    <3>2. Got(x)' = Got(x)
      BY <1>1, <2>1, <3>1 DEF Got
    <3> QED
      BY <1>4, <3>2 DEF UserOK
  <2>2. CASE x # e
    <3>1. payload'[x] = payload[x] /\ delivered'[x] = delivered[x] /\ read'[x] = read[x]
      BY <1>1, <1>2, <1>4, <2>2
    <3> QED
      BY <3>1, UserOKFrame
  <2> QED
    BY <2>1, <2>2
<1> QED
  BY <1>5, <1>7, <1>8, <1>9

\* PeekSize's condition on the fragment at the head of a queue.
Complete(q) == q[1].frg = 0 \/ Len(q) >= q[1].frg + 1

\* The first message of a queue that holds all its fragments: Recv takes as
\* many fragments as Send made of it, and it is later than all before it.
LEMMA FirstOfStream ==
  ASSUME NEW s \in Seq(Fragment), StreamOK(s), NEW q \in Seq(Fragment), NEW k \in Nat,
         k + Len(q) <= Len(s), \A i \in 1..Len(q) : q[i] = s[k + i],
         q # <<>>, Complete(q), NEW n \in Nat, n \in FirstMessage(q)
  PROVE  /\ n \in 1..Len(q) /\ q[n].frg = 0 /\ q[n].msg = q[1].msg /\ q[1].msg \in Nat
         /\ SubSeq(q, 1, n) \in Seq(Fragment) /\ Len(SubSeq(q, 1, n)) = n
         /\ \A i \in 1..n : SubSeq(q, 1, n)[i] = q[i]
         /\ SubSeq(q, 1, n) = Split(q[1].msg, n)
         /\ k > 0 /\ s[k].frg = 0 => s[k].msg < q[1].msg
<1>1. /\ Len(q) \in Nat \ {0} /\ DOMAIN q = 1..Len(q) /\ Len(s) \in Nat /\ DOMAIN s = 1..Len(s)
      /\ \A i \in 1..Len(q) : q[i] \in Fragment
  BY EmptySeq, LenProperties, ElementOfSeq
<1>2. PICK f \in Nat, msg \in Nat : q[1] = [msg |-> msg, frg |-> f]
  BY <1>1, SMTT(30) DEF Fragment
<1>a. q[1].msg = msg /\ q[1].frg = f
  BY <1>2
<1> DEFINE m == f + 1
<1>3. m \in 1..Len(q)
  BY <1>1, <1>a DEF Complete
<1>4. \A j \in 0..f : s[k + 1 + j] = [msg |-> msg, frg |-> f - j]
  <2>1. k + 1 \in DOMAIN s /\ s[k + 1] = q[1]
    BY <1>1
  <2> QED
    BY <1>a, <2>1 DEF StreamOK
<1>5. ASSUME NEW i \in 1..m
      PROVE  q[i] = [msg |-> msg, frg |-> m - i]
  <2>1. i - 1 \in 0..f /\ k + 1 + (i - 1) = k + i /\ f - (i - 1) = m - i /\ i \in 1..Len(q)
    BY <1>1, <1>3
  <2>2. s[k + 1 + (i - 1)] = [msg |-> msg, frg |-> f - (i - 1)]
    BY <1>4, <2>1
  <2> QED
    BY <2>1, <2>2
<1>6. n \in 1..Len(q)
  BY <1>1 DEF FirstMessage
<1>b. \A i \in 1..(n - 1) : q[i].frg # 0
  BY DEF FirstMessage
<1>c. q[n].frg = 0 \/ n = Len(q)
  BY DEF FirstMessage
<1>7. n = m
  <2>1. CASE n > m
    <3>1. m \in 1..(n - 1) /\ m \in 1..m
      BY <1>1, <1>3, <1>6, <2>1
    <3>2. q[m] = [msg |-> msg, frg |-> m - m]
      BY <1>5, <3>1
    <3>3. q[m].frg = 0
      BY <3>2
    <3> QED
      BY <1>b, <3>1, <3>3
  <2>2. CASE n < m
    <3>1. n \in 1..m
      BY <1>1, <1>3, <1>6, <2>2
    <3>2. q[n] = [msg |-> msg, frg |-> m - n]
      BY <1>5, <3>1
    <3>3. q[n].frg = m - n
      BY <3>2
    <3>4. m - n # 0
      BY <1>1, <1>3, <1>6, <2>2
    <3>5. n = Len(q)
      BY <1>c, <3>3, <3>4
    <3>6. m \in 1..n
      BY <1>3, <3>5, Zenon
    <3> QED
      BY <2>2, <3>6
  <2> QED
    BY <1>1, <1>3, <1>6, <2>1, <2>2
<1> HIDE DEF m
<1>8. q[n] = [msg |-> msg, frg |-> n - n]
  <2>1. n \in 1..n
    BY <1>6
  <2> QED
    BY <1>5, <1>7, <2>1, Zenon
<1>9. /\ SubSeq(q, 1, n) \in Seq(Fragment) /\ Len(SubSeq(q, 1, n)) = n
      /\ \A i \in 1..n : SubSeq(q, 1, n)[i] = q[i]
  <2>1. \A i \in 1..n : q[i] \in Fragment
    BY <1>1, <1>6
  <2>2. /\ SubSeq(q, 1, n) \in Seq(Fragment)
        /\ Len(SubSeq(q, 1, n)) = IF 1 <= n THEN n - 1 + 1 ELSE 0
        /\ \A i \in 1..(n - 1 + 1) : SubSeq(q, 1, n)[i] = q[1 + i - 1]
    BY <1>1, <1>6, <2>1, SubSeqProperties
  <2> HIDE DEF Fragment
  <2> QED
    BY <1>1, <1>6, <2>2
<1>10. SubSeq(q, 1, n) = Split(msg, n)
  <2> DEFINE p == Split(msg, n)
  <2>1. n \in Nat
    BY <1>1, <1>6
  <2>2. /\ p \in Seq(Fragment) /\ Len(p) = n
        /\ \A i \in 1..n : p[i] = [msg |-> msg, frg |-> n - i]
    BY <2>1, SplitProperties
  <2>3. \A i \in 1..n : SubSeq(q, 1, n)[i] = p[i]
    BY <1>5, <1>7, <1>9, <2>2
  <2> HIDE DEF p
  <2>4. SubSeq(q, 1, n) = p
    BY <1>9, <2>1, <2>2, <2>3, SeqEqual
  <2> QED
    BY <2>4 DEF p
<1>11. k > 0 /\ s[k].frg = 0 => s[k].msg < msg
  <2>1. k > 0 => k \in DOMAIN s /\ k + 1 \in DOMAIN s /\ k < k + 1
    BY <1>1
  <2>2. k > 0 => (s[k].frg = 0 => s[k].msg < s[k + 1].msg)
    BY <2>1 DEF StreamOK
  <2>3. s[k + 1] = q[1]
    BY <1>1
  <2> QED
    BY <1>a, <2>2, <2>3, Zenon
<1>12. q[n].frg = 0 /\ q[n].msg = msg
  BY <1>1, <1>6, <1>8
<1> QED
  BY <1>a, <1>6, <1>9, <1>10, <1>11, <1>12

-----------------------------------------------------------------------------
(* The two halves of a call on e that may flush and may read: what the     *)
(* sending half and what the receiving half of the state become.           *)

\* A segment written by e: its una, sn and body are those of the flush.
Written(e, seg) ==
  /\ seg \in Segment /\ seg.una = rcv_nxt[e]
  /\ seg.cmd = "PUSH" => seg.sn < snd_nxt'[e] /\ seg.frag = sent[e][seg.sn + 1]
  /\ seg.cmd = "ACK" => Received(e, seg.sn)

SndHalf(e) ==
  /\ snd_queue' \in [Ends -> Seq(Fragment)] /\ snd_nxt' \in [Ends -> Nat]
  /\ snd_una' \in [Ends -> Nat] /\ rmt_wnd' \in [Ends -> 0..RcvWnd]
  /\ probe_wait' \in [Ends -> BOOLEAN] /\ acklist' \in [Ends -> Seq(Nat)]
  /\ DOMAIN snd_buf' = Ends
  /\ \A x \in Ends : x # e => /\ snd_queue'[x] = snd_queue[x] /\ snd_nxt'[x] = snd_nxt[x]
                              /\ snd_una'[x] = snd_una[x]
                              /\ snd_buf'[x] = snd_buf[x] /\ acklist'[x] = acklist[x]
  /\ \A i \in DOMAIN acklist'[e] :
       Received(e, acklist'[e][i]) \/ StillReceived(e, acklist'[e][i])
  /\ snd_nxt[e] <= snd_nxt'[e] /\ snd_nxt'[e] <= snd_una'[e] + SndWnd
  /\ snd_una'[e] <= snd_nxt'[e] /\ snd_una'[e] <= rcv_nxt[Other(e)]
  /\ snd_nxt'[e] + Len(snd_queue'[e]) = Len(sent[e])
  /\ \A i \in DOMAIN snd_queue'[e] : snd_queue'[e][i] = sent[e][snd_nxt'[e] + i]
  /\ DOMAIN snd_buf'[e] = snd_una'[e]..(snd_nxt'[e] - 1)
  /\ snd_buf'[e] \in [DOMAIN snd_buf'[e] -> [frag : Fragment, acked : BOOLEAN]]
  /\ \A sn \in DOMAIN snd_buf'[e] :
       /\ snd_buf'[e][sn].frag = sent[e][sn + 1]
       /\ snd_buf'[e][sn].acked => Received(Other(e), sn)
  /\ \A d \in net' : \/ d \in net
                     \/ /\ d \in Datagram /\ d.to = Other(e)
                        /\ \A i \in DOMAIN d.segs : Written(e, d.segs[i])

LEMMA LastOfSum ==
  ASSUME NEW a \in Nat, NEW b \in Nat, NEW c, c = a + b
  PROVE  c - 1 = a + b - 1
OBVIOUS

LEMMA FlushSndHalf ==
  ASSUME IInv, NEW e \in Ends, AnyFlush(e)
  PROVE  SndHalf(e)
<1>1. TypeOK /\ SndOK(e) /\ RcvOK(e)
  BY DEF IInv
<1>2. PICK due \in SUBSET Unacked(e), asking \in BOOLEAN : Flush(e, due, asking, FALSE)
  BY DEF AnyFlush
<1>3. /\ snd_queue' \in [Ends -> Seq(Fragment)] /\ snd_nxt' \in [Ends -> Nat]
      /\ snd_una' = snd_una /\ rmt_wnd' = rmt_wnd
      /\ probe_wait' \in [Ends -> BOOLEAN] /\ acklist' \in [Ends -> Seq(Nat)]
      /\ DOMAIN snd_buf' = Ends
      /\ \A x \in Ends : x # e => /\ snd_queue'[x] = snd_queue[x]
                                  /\ snd_nxt'[x] = snd_nxt[x]
                                  /\ snd_buf'[x] = snd_buf[x]
                                  /\ acklist'[x] = acklist[x]
      /\ acklist'[e] = <<>>
      /\ snd_nxt'[e] = snd_nxt[e] + NewSegs(e) /\ snd_nxt[e] <= snd_nxt'[e]
      /\ snd_nxt'[e] <= snd_una[e] + SndWnd
      /\ snd_nxt'[e] + Len(snd_queue'[e]) = Len(sent[e])
      /\ \A i \in 1..Len(snd_queue'[e]) : snd_queue'[e][i] = sent[e][snd_nxt'[e] + i]
      /\ snd_buf'[e] = WithNew(e)
      /\ \A d \in net' : \/ d \in net
                         \/ /\ d \in Datagram /\ d.to = Other(e)
                            /\ \A i \in DOMAIN d.segs : Emitted(e, d.segs[i])
  BY <1>1, <1>2, FlushEffect
<1>4. /\ DOMAIN WithNew(e) = snd_una[e]..(snd_nxt[e] + NewSegs(e) - 1)
      /\ \A sn \in DOMAIN WithNew(e) :
           /\ WithNew(e)[sn] \in [frag : Fragment, acked : BOOLEAN]
           /\ WithNew(e)[sn].frag = sent[e][sn + 1]
           /\ WithNew(e)[sn].acked => Received(Other(e), sn)
  BY <1>1, WithNewProperties
<1>5. DOMAIN snd_buf'[e] = snd_una[e]..(snd_nxt'[e] - 1)
  <2>1. snd_nxt'[e] = snd_nxt[e] + NewSegs(e)
    BY <1>3, Zenon
  <2>2. DOMAIN snd_buf'[e] = snd_una[e]..(snd_nxt[e] + NewSegs(e) - 1)
    BY <1>3, <1>4, Zenon
  <2>3. snd_nxt[e] \in Nat /\ NewSegs(e) \in Nat
    BY <1>1, NewSegsBound DEF TypeOK
  <2>4. snd_nxt'[e] - 1 = snd_nxt[e] + NewSegs(e) - 1
    BY <2>1, <2>3, LastOfSum, Zenon
  <2> QED
    BY <2>2, <2>4, Zenon
<1>6. DOMAIN snd_queue'[e] = 1..Len(snd_queue'[e])
  <2>1. snd_queue'[e] \in Seq(Fragment)
    BY <1>3
  <2> QED
    BY <2>1, LenProperties
<1>b. /\ snd_una' \in [Ends -> Nat] /\ rmt_wnd' \in [Ends -> 0..RcvWnd]
      /\ snd_una'[e] <= snd_nxt'[e] /\ snd_una'[e] <= rcv_nxt[Other(e)]
      /\ snd_nxt'[e] <= snd_una'[e] + SndWnd
      /\ DOMAIN snd_buf'[e] = snd_una'[e]..(snd_nxt'[e] - 1)
      /\ \A x \in Ends : x # e => snd_una'[x] = snd_una[x]
      /\ \A i \in DOMAIN acklist'[e] :
           Received(e, acklist'[e][i]) \/ StillReceived(e, acklist'[e][i])
  <2>1. snd_una' = snd_una /\ rmt_wnd' = rmt_wnd /\ DOMAIN acklist'[e] = {}
    BY <1>3
  <2>2. snd_una[e] \in Nat /\ snd_nxt[e] \in Nat /\ snd_nxt'[e] \in Nat
    BY <1>1, <1>3 DEF TypeOK
  <2>3. snd_una[e] <= snd_nxt[e] /\ snd_nxt[e] <= snd_nxt'[e] /\ snd_una[e] <= rcv_nxt[Other(e)]
    BY <1>1, <1>3, Zenon DEF SndOK
  <2>4. snd_una[e] <= snd_nxt'[e]
    BY <2>2, <2>3
  <2> QED
    BY <1>1, <1>3, <1>5, <2>1, <2>3, <2>4, Zenon DEF TypeOK
<1>7. \A seg : Emitted(e, seg) => Written(e, seg)
  BY <1>3, Zenon DEF Emitted, Written
<1>8. \A sn \in DOMAIN snd_buf'[e] :
        /\ snd_buf'[e][sn].frag = sent[e][sn + 1]
        /\ snd_buf'[e][sn].acked => Received(Other(e), sn)
  BY <1>3, <1>4, Zenon
<1>a. snd_buf'[e] \in [DOMAIN snd_buf'[e] -> [frag : Fragment, acked : BOOLEAN]]
  <2>1. WithNew(e) \in [DOMAIN WithNew(e) -> [frag : Fragment, acked : BOOLEAN]]
    <3>1. WithNew(e) = [sn \in DOMAIN WithNew(e) |-> WithNew(e)[sn]]
      BY DEF WithNew
    <3>2. \A sn \in DOMAIN WithNew(e) : WithNew(e)[sn] \in [frag : Fragment, acked : BOOLEAN]
      BY <1>4, Zenon
    <3> QED
      BY <3>1, <3>2
  <2> QED
    BY <1>3, <2>1, Zenon
<1>9. \A d \in net' : \/ d \in net
                      \/ /\ d \in Datagram /\ d.to = Other(e)
                         /\ \A i \in DOMAIN d.segs : Written(e, d.segs[i])
  BY <1>3, <1>7, Zenon
<1> QED
  BY <1>3, <1>5, <1>6, <1>8, <1>9, <1>a, <1>b, Zenon DEF SndHalf

LEMMA NoFlushSndHalf ==
  ASSUME IInv, NEW e \in Ends, NoFlush
  PROVE  SndHalf(e)
<1>1. TypeOK /\ SndOK(e) /\ RcvOK(e)
  BY DEF IInv
<1>2. UNCHANGED <<snd_queue, snd_buf, snd_una, snd_nxt, rmt_wnd, probe_wait, acklist, net>>
  BY DEF NoFlush, sndVars
<1>3. snd_nxt[e] \in Nat
  BY <1>1 DEF TypeOK
<1>4. snd_nxt[e] <= snd_nxt[e]
  BY <1>3
<1>5. snd_buf[e] \in [DOMAIN snd_buf[e] -> [frag : Fragment, acked : BOOLEAN]]
  BY <1>1 DEF TypeOK
<1>6. \A d \in net' : d \in net
  BY <1>2
<1> QED
  BY <1>1, <1>2, <1>4, <1>5, <1>6, Zenon DEF SndHalf, TypeOK, SndOK, RcvOK

RcvHalf(e) ==
  /\ rcv_nxt' \in [Ends -> Nat] /\ rcv_queue' \in [Ends -> Seq(Fragment)]
  /\ DOMAIN rcv_buf' = Ends /\ DOMAIN rcv_buf'[e] \subseteq Nat
  /\ rcv_buf'[e] \in [DOMAIN rcv_buf'[e] -> Fragment]
  /\ read' \in [Ends -> Seq(Fragment)] /\ payload' \in [Ends -> Seq(Seq(Fragment))]
  /\ delivered' = delivered /\ sent' = sent
  /\ \A x \in Ends : x # e => /\ rcv_nxt'[x] = rcv_nxt[x] /\ rcv_buf'[x] = rcv_buf[x]
                              /\ rcv_queue'[x] = rcv_queue[x] /\ read'[x] = read[x]
                              /\ payload'[x] = payload[x]
  /\ rcv_nxt[e] <= rcv_nxt'[e] /\ rcv_nxt'[e] <= snd_nxt[Other(e)]
  /\ \A sn \in DOMAIN rcv_buf'[e] : /\ rcv_nxt'[e] <= sn /\ sn < snd_nxt[Other(e)]
                                    /\ rcv_buf'[e][sn] = sent[Other(e)][sn + 1]
  /\ \A sn \in Nat : Received(e, sn) => StillReceived(e, sn)
  /\ Len(read'[e]) + Len(rcv_queue'[e]) = rcv_nxt'[e]
  /\ \A i \in DOMAIN read'[e] : read'[e][i] = sent[Other(e)][i]
  /\ \A i \in DOMAIN rcv_queue'[e] :
       rcv_queue'[e][i] = sent[Other(e)][Len(read'[e]) + i]
  /\ Len(read'[e]) > 0 => read'[e][Len(read'[e])].frg = 0
  /\ UserOK(e)'

LEMMA NoRecvRcvHalf ==
  ASSUME IInv, NEW e \in Ends, UNCHANGED <<rcvVars, userVars>>
  PROVE  RcvHalf(e)
<1>1. TypeOK /\ RcvOK(e) /\ ReadOK(e) /\ UserOK(e)
  BY DEF IInv
<1>2. UNCHANGED <<rcv_queue, rcv_buf, rcv_nxt, payload, sent, read, delivered>>
  BY DEF rcvVars, userVars
<1>3. rcv_nxt[e] \in Nat
  BY <1>1 DEF TypeOK
<1>4. rcv_nxt[e] <= rcv_nxt[e]
  BY <1>3
<1>5. UserOK(e)'
  BY <1>1, <1>2, UserOKFrame
<1>6. \A sn \in Nat : Received(e, sn) => StillReceived(e, sn)
  BY <1>2 DEF Received, StillReceived
<1> QED
  BY <1>1, <1>2, <1>4, <1>5, <1>6, Zenon DEF RcvHalf, TypeOK, RcvOK, ReadOK

LEMMA ConcatAppend ==
  ASSUME NEW S, NEW s \in Seq(S), NEW t \in Seq(S), NEW m \in S
  PROVE  s \o Append(t, m) = Append(s \o t, m)
<1>1. s \o t \in Seq(S) /\ <<m>> \in Seq(S)
  BY ConcatProperties
<1>2. Append(t, m) = t \o <<m>>
  BY AppendIsConcat
<1>3. Append(s \o t, m) = (s \o t) \o <<m>>
  BY <1>1, AppendIsConcat
<1>4. (s \o t) \o <<m>> = s \o (t \o <<m>>)
  BY <1>1, ConcatAssociative
<1> QED
  BY <1>2, <1>3, <1>4, Zenon

LEMMA GotAppend ==
  ASSUME NEW s \in Seq(Seq(Fragment)), NEW t \in Seq(Seq(Fragment)), NEW m \in Seq(Fragment)
  PROVE  s \o Append(t, m) = Append(s \o t, m)
BY ConcatAppend

\* Payload's channel and what it has delivered, with one message more that is
\* later than all of them.
LEMMA UserOKAppend ==
  ASSUME TypeOK, NEW e \in Ends, UserOK(e), NEW n \in Nat \ {0}, NEW msg \in Nat,
         NEW m, m = Split(msg, n), payload' \in [Ends -> Seq(Seq(Fragment))],
         delivered' = delivered, payload'[e] = payload[e] \/ payload'[e] = Append(payload[e], m),
         Len(read'[e]) > 0, read'[e][Len(read'[e])].msg = msg,
         Len(read[e]) > 0 => read[e][Len(read[e])].msg < msg
  PROVE  UserOK(e)'
<1>0. /\ m \in Seq(Fragment) /\ Len(m) = n /\ m # <<>> /\ m[1].msg = msg
  <2>1. /\ m \in Seq(Fragment) /\ Len(m) = n
        /\ \A i \in 1..n : m[i] = [msg |-> msg, frg |-> n - i]
    BY SplitProperties
  <2>2. 1 \in 1..n
    OBVIOUS
  <2> QED
    BY <2>1, <2>2, EmptySeq
<1>1. /\ payload[e] \in Seq(Seq(Fragment)) /\ delivered[e] \in Seq(Seq(Fragment))
      /\ read[e] \in Seq(Fragment) /\ Len(read[e]) \in Nat
  BY LenProperties DEF TypeOK
<1> DEFINE g == Got(e)
           h == delivered'[e] \o payload'[e]
<1>2. /\ g \in Seq(Seq(Fragment)) /\ Len(g) \in Nat /\ DOMAIN g = 1..Len(g)
      /\ \A i \in 1..Len(g) : g[i] \in Seq(Fragment)
  <2>1. g \in Seq(Seq(Fragment))
    BY <1>1, ConcatProperties DEF Got
  <2> HIDE DEF g
  <2> QED
    BY <2>1, LenProperties, ElementOfSeq
<1>3. h = g \/ h = Append(g, m)
  <2>1. CASE payload'[e] = payload[e]
    BY <2>1 DEF Got
  <2>2. CASE payload'[e] = Append(payload[e], m)
    <3>1. delivered[e] \o Append(payload[e], m) = Append(delivered[e] \o payload[e], m)
      BY <1>0, <1>1, GotAppend, Zenon
    <3>3. h = delivered[e] \o Append(payload[e], m)
      BY <2>2, Zenon
    <3> QED
      BY <3>1, <3>3, Zenon DEF Got
  <2> QED
    BY <2>1, <2>2
<1>4. \A i \in 1..Len(g) : /\ g[i] # <<>> /\ g[i] = Split(g[i][1].msg, Len(g[i]))
                           /\ g[i][1].msg \in Nat /\ g[i][1].msg < msg
  <2> TAKE i \in 1..Len(g)
  <2>1. /\ g[i] # <<>> /\ g[i] = Split(g[i][1].msg, Len(g[i]))
        /\ Len(read[e]) > 0 /\ g[i][1].msg <= read[e][Len(read[e])].msg
    BY <1>2, Zenon DEF UserOK
  <2> HIDE DEF g
  <2>2. g[i][1] \in Fragment
    BY <1>2, <2>1, EmptySeq, LenProperties, ElementOfSeq
  <2>3. Len(read[e]) \in 1..Len(read[e])
    BY <1>1, <2>1
  <2>4. read[e][Len(read[e])] \in Fragment
    BY <1>1, <2>3, ElementOfSeq
  <2>5. read[e][Len(read[e])].msg \in Nat /\ g[i][1].msg \in Nat
    BY <2>2, <2>4 DEF Fragment
  <2> QED
    BY <2>1, <2>5
<1>5. \A i, j \in 1..Len(g) : i < j => g[i][1].msg < g[j][1].msg
  BY <1>2, Zenon DEF UserOK
<1> HIDE DEF g
<1>6. CASE h = g
  <2>1. /\ \A i \in DOMAIN h : h[i] # <<>> /\ h[i] = Split(h[i][1].msg, Len(h[i]))
        /\ \A i, j \in DOMAIN h : i < j => h[i][1].msg < h[j][1].msg
    BY <1>2, <1>4, <1>5, <1>6, Zenon
  <2>2. \A i \in DOMAIN h : h[i][1].msg <= msg
    BY <1>2, <1>4, <1>6
  <2> QED
    BY <2>1, <2>2, Zenon DEF UserOK, Got
<1>7. CASE h = Append(g, m)
  <2>1. /\ Len(h) = Len(g) + 1 /\ DOMAIN h = 1..(Len(g) + 1)
        /\ \A i \in 1..Len(g) : h[i] = g[i]
        /\ h[Len(g) + 1] = m
    BY <1>0, <1>2, <1>7, AppendProperties, LenProperties
  <2> HIDE DEF h
  <2>2. ASSUME NEW i \in DOMAIN h
        PROVE  h[i] # <<>> /\ h[i] = Split(h[i][1].msg, Len(h[i])) /\ h[i][1].msg <= msg
    <3>1. CASE i \in 1..Len(g)
      <4>1. h[i] = g[i] /\ g[i][1].msg \in Nat /\ g[i][1].msg < msg
        BY <1>4, <2>1, <3>1, Zenon
      <4>2. g[i] # <<>> /\ g[i] = Split(g[i][1].msg, Len(g[i]))
        BY <1>4, <3>1, Zenon
      <4>3. g[i][1].msg <= msg
        BY <4>1
      <4> QED
        BY <4>1, <4>2, <4>3, Zenon
    <3>2. CASE i = Len(g) + 1
      BY <1>0, <2>1, <3>2
    <3> QED
      BY <1>2, <2>1, <3>1, <3>2
  <2>3. ASSUME NEW i \in DOMAIN h, NEW j \in DOMAIN h, i < j
        PROVE  h[i][1].msg < h[j][1].msg
    <3>1. i \in 1..Len(g) /\ (j \in 1..Len(g) \/ j = Len(g) + 1)
      BY <1>2, <2>1, <2>3
    <3>2. CASE j \in 1..Len(g)
      BY <1>5, <2>1, <2>3, <3>1, <3>2
    <3>3. CASE j = Len(g) + 1
      BY <1>0, <1>4, <2>1, <3>1, <3>3
    <3> QED
      BY <3>1, <3>2, <3>3
  <2> QED
    BY <2>2, <2>3, Zenon DEF UserOK, Got, h
<1> QED
  BY <1>3, <1>6, <1>7

\* What is left of a sequence after its first n elements.
LEMMA Rest ==
  ASSUME NEW q \in Seq(Fragment), NEW n \in 0..Len(q)
  PROVE  /\ SubSeq(q, n + 1, Len(q)) \in Seq(Fragment)
         /\ Len(SubSeq(q, n + 1, Len(q))) = Len(q) - n
         /\ \A i \in 1..(Len(q) - n) : SubSeq(q, n + 1, Len(q))[i] = q[n + i]
<1>1. Len(q) \in Nat /\ n \in Nat /\ n <= Len(q)
  BY LenProperties
<1>2. \A i \in (n + 1)..Len(q) : q[i] \in Fragment
  BY <1>1, ElementOfSeq
<1> DEFINE t == SubSeq(q, n + 1, Len(q))
<1>3. /\ t \in Seq(Fragment)
      /\ Len(t) = IF n + 1 <= Len(q) THEN Len(q) - (n + 1) + 1 ELSE 0
      /\ \A i \in 1..(Len(q) - (n + 1) + 1) : t[i] = q[n + 1 + i - 1]
  <2>1. n + 1 \in Int /\ Len(q) \in Int
    BY <1>1
  <2> QED
    BY <1>1, <1>2, <2>1, SubSeqProperties, SMTT(30)
<1> HIDE DEF t
<1>4. Len(t) = Len(q) - n
  BY <1>1, <1>3
<1>5. ASSUME NEW i \in 1..(Len(q) - n)
      PROVE  t[i] = q[n + i]
  <2>1. i \in 1..(Len(q) - (n + 1) + 1) /\ n + 1 + i - 1 = n + i
    BY <1>1
  <2> QED
    BY <1>3, <2>1
<1> QED
  BY <1>3, <1>4, <1>5 DEF t

\* r was read of the stream s and q follows in the queue: what Recv does to
\* them, n fragments being the first message of q.
ReadSoFar(s, r, q) ==
  /\ Len(r) + Len(q) <= Len(s)
  /\ \A i \in 1..Len(r) : r[i] = s[i]
  /\ \A i \in 1..Len(q) : q[i] = s[Len(r) + i]
  /\ Len(r) > 0 => r[Len(r)].frg = 0

Pieces(s, r, q, n, m, t, u) ==
  /\ n \in Nat \ {0} /\ m = Split(q[1].msg, n) /\ q[1].msg \in Nat
  /\ t \in Seq(Fragment) /\ u \in Seq(Fragment) /\ ReadSoFar(s, u, t)
  /\ Len(u) + Len(t) = Len(r) + Len(q)
  /\ Len(u) \in Nat /\ Len(u) > 0 /\ u[Len(u)].msg = q[1].msg
  /\ Len(r) > 0 => r[Len(r)].msg < q[1].msg

LEMMA RecvPieces ==
  ASSUME NEW s \in Seq(Fragment), StreamOK(s), NEW q \in Seq(Fragment),
         NEW r \in Seq(Fragment), ReadSoFar(s, r, q), q # <<>>, Complete(q),
         NEW n \in Nat, n \in FirstMessage(q),
         NEW m, m = SubSeq(q, 1, n), NEW t, t = SubSeq(q, n + 1, Len(q)),
         NEW u, u = r \o m
  PROVE  Pieces(s, r, q, n, m, t, u)
<1>1. Len(q) \in Nat /\ Len(r) \in Nat /\ Len(s) \in Nat
  BY LenProperties
<1>a. /\ Len(r) + Len(q) <= Len(s)
      /\ \A i \in 1..Len(q) : q[i] = s[Len(r) + i]
  BY DEF ReadSoFar
<1>2. /\ n \in 1..Len(q) /\ q[n].frg = 0 /\ q[n].msg = q[1].msg /\ q[1].msg \in Nat
      /\ m \in Seq(Fragment) /\ Len(m) = n /\ \A i \in 1..n : m[i] = q[i]
      /\ m = Split(q[1].msg, n)
      /\ Len(r) > 0 /\ s[Len(r)].frg = 0 => s[Len(r)].msg < q[1].msg
  <2>1. /\ n \in 1..Len(q) /\ q[n].frg = 0 /\ q[n].msg = q[1].msg /\ q[1].msg \in Nat
        /\ SubSeq(q, 1, n) \in Seq(Fragment) /\ Len(SubSeq(q, 1, n)) = n
        /\ \A i \in 1..n : SubSeq(q, 1, n)[i] = q[i]
        /\ SubSeq(q, 1, n) = Split(q[1].msg, n)
        /\ Len(r) > 0 /\ s[Len(r)].frg = 0 => s[Len(r)].msg < q[1].msg
    BY <1>1, <1>a, FirstOfStream
  <2> QED
    BY <2>1, Zenon
<1>3. n \in Nat \ {0} /\ n \in 0..Len(q)
  BY <1>1, <1>2
<1>4. /\ t \in Seq(Fragment) /\ Len(t) = Len(q) - n
      /\ \A i \in 1..(Len(q) - n) : t[i] = q[n + i]
  BY <1>3, Rest, Zenon
<1>5. /\ u \in Seq(Fragment) /\ Len(u) = Len(r) + Len(m)
      /\ \A i \in 1..(Len(r) + Len(m)) : u[i] = IF i <= Len(r) THEN r[i] ELSE m[i - Len(r)]
  BY <1>2, ConcatProperties, Zenon
<1>6. /\ Len(u) = Len(r) + n
      /\ \A i \in 1..(Len(r) + n) : u[i] = IF i <= Len(r) THEN r[i] ELSE m[i - Len(r)]
  BY <1>2, <1>5, Zenon
<1>b. /\ \A i \in 1..n : m[i] = q[i]
      /\ n \in 1..Len(q)
  BY <1>2
<1>7. \A i \in 1..(Len(r) + n) : u[i] = s[i]
  <2> TAKE i \in 1..(Len(r) + n)
  <2>1. CASE i <= Len(r)
    BY <1>1, <1>6, <2>1 DEF ReadSoFar
  <2>2. CASE ~(i <= Len(r))
    <3>1. i - Len(r) \in 1..n /\ i - Len(r) \in 1..Len(q) /\ Len(r) + (i - Len(r)) = i
      BY <1>1, <1>b, <2>2
    <3>2. u[i] = m[i - Len(r)] /\ m[i - Len(r)] = q[i - Len(r)]
      BY <1>b, <1>6, <2>2, <3>1
    <3>3. q[i - Len(r)] = s[Len(r) + (i - Len(r))]
      BY <1>a, <3>1
    <3> QED
      BY <3>1, <3>2, <3>3
  <2> QED
    BY <2>1, <2>2
<1>8. u[Len(r) + n] = q[n]
  <2>1. Len(r) + n \in 1..(Len(r) + n) /\ ~(Len(r) + n <= Len(r)) /\ Len(r) + n - Len(r) = n
        /\ n \in 1..n
    BY <1>1, <1>3
  <2> QED
    BY <1>b, <1>6, <2>1
<1>9. ASSUME NEW i \in 1..(Len(q) - n)
      PROVE  t[i] = s[Len(r) + n + i]
  <2>1. n + i \in 1..Len(q) /\ Len(r) + (n + i) = Len(r) + n + i
    BY <1>1, <1>3
  <2>2. q[n + i] = s[Len(r) + (n + i)]
    BY <1>a, <2>1
  <2> QED
    BY <1>4, <2>1, <2>2
<1>10. /\ Len(r) + n \in Nat /\ Len(r) + n > 0
       /\ Len(r) + n + (Len(q) - n) = Len(r) + Len(q)
  BY <1>1, <1>3
<1>11. Len(u) \in Nat /\ Len(u) > 0 /\ Len(u) + Len(t) = Len(r) + Len(q)
  BY <1>4, <1>6, <1>10, Zenon
<1>12. u[Len(u)].frg = 0 /\ u[Len(u)].msg = q[1].msg
  BY <1>2, <1>6, <1>8, Zenon
<1>13. ReadSoFar(s, u, t)
  <2>1. Len(u) + Len(t) <= Len(s)
    BY <1>a, <1>11, Zenon
  <2>2. \A i \in 1..Len(u) : u[i] = s[i]
    BY <1>6, <1>7, Zenon
  <2>3. \A i \in 1..Len(t) : t[i] = s[Len(u) + i]
    BY <1>4, <1>6, <1>9, Zenon
  <2> QED
    BY <1>12, <2>1, <2>2, <2>3, Zenon DEF ReadSoFar
<1>14. Len(r) > 0 => r[Len(r)].msg < q[1].msg
  <2>1. Len(r) > 0 => Len(r) \in 1..Len(r)
    BY <1>1
  <2>2. Len(r) > 0 => r[Len(r)] = s[Len(r)] /\ r[Len(r)].frg = 0
    BY <2>1, Zenon DEF ReadSoFar
  <2> QED
    BY <1>2, <2>2, Zenon
<1> QED
  BY <1>2, <1>3, <1>4, <1>5, <1>11, <1>12, <1>13, <1>14, Zenon DEF Pieces

LEMMA Chain ==
  ASSUME NEW a \in Nat, NEW b \in Nat, NEW c \in Nat, NEW d \in Nat, NEW f \in Nat, NEW g \in Nat,
         a + b = c, c <= d, d + f = g
  PROVE  a + b <= g /\ c <= g /\ d <= g
OBVIOUS

\* The invariant's view of what e has read.
LEMMA ReadSoFarOK ==
  ASSUME IInv, NEW e \in Ends
  PROVE  ReadSoFar(sent[Other(e)], read[e], rcv_queue[e])
<1>1. /\ Other(e) \in Ends /\ Len(read[e]) \in Nat /\ Len(rcv_queue[e]) \in Nat
      /\ rcv_nxt[e] \in Nat /\ snd_nxt[Other(e)] \in Nat /\ Len(snd_queue[Other(e)]) \in Nat
      /\ Len(sent[Other(e)]) \in Nat
      /\ DOMAIN read[e] = 1..Len(read[e]) /\ DOMAIN rcv_queue[e] = 1..Len(rcv_queue[e])
  BY OtherEnd, LenProperties DEF IInv, TypeOK
<1>2. ReadOK(e) /\ RcvOK(e) /\ SndOK(Other(e))
  BY <1>1 DEF IInv
<1>3. /\ Len(read[e]) + Len(rcv_queue[e]) = rcv_nxt[e] /\ rcv_nxt[e] <= snd_nxt[Other(e)]
      /\ snd_nxt[Other(e)] + Len(snd_queue[Other(e)]) = Len(sent[Other(e)])
  BY <1>2 DEF ReadOK, RcvOK, SndOK
<1>4. Len(read[e]) + Len(rcv_queue[e]) <= Len(sent[Other(e)])
  BY <1>1, <1>3, Chain, Zenon
<1> QED
  BY <1>1, <1>2, <1>4, Zenon DEF ReadSoFar, ReadOK

LEMMA RecvRcvHalf ==
  ASSUME IInv, NEW e \in Ends, NEW before, Readable(e), Recv(e, before),
         UNCHANGED <<sent, delivered>>
  PROVE  RcvHalf(e)
<1> DEFINE o == Other(e)
           q == rcv_queue[e]
           r == read[e]
           s == sent[o]
<1>1. /\ o \in Ends /\ q \in Seq(Fragment) /\ r \in Seq(Fragment) /\ s \in Seq(Fragment)
      /\ payload[e] \in Seq(Seq(Fragment)) /\ read \in [Ends -> Seq(Fragment)]
      /\ payload \in [Ends -> Seq(Seq(Fragment))] /\ TypeOK
  BY OtherEnd DEF IInv, TypeOK
<1>2. StreamOK(s) /\ ReadOK(e) /\ RcvOK(e) /\ UserOK(e) /\ SndOK(o)
  BY <1>1 DEF IInv
<1>3. PICK n \in FirstMessage(q) :
        /\ Assemble(e, rcv_buf[e], SubSeq(q, n + 1, Len(q)))
        /\ read' = [read EXCEPT ![e] = @ \o SubSeq(q, 1, n)]
        /\ payload' = IF Len(payload[e]) < PayloadCap
                      THEN [payload EXCEPT ![e] = Append(@, SubSeq(q, 1, n))] ELSE payload
  BY DEF Recv
<1>4. n \in Nat
  BY <1>1, LenProperties DEF FirstMessage
<1>5. ReadSoFar(s, r, q) /\ q # <<>> /\ Complete(q)
  BY ReadSoFarOK DEF Readable, Complete
<1> DEFINE m == SubSeq(q, 1, n)
           t == SubSeq(q, n + 1, Len(q))
           u == r \o m
<1>6. /\ n \in Nat \ {0} /\ m = Split(q[1].msg, n) /\ q[1].msg \in Nat
      /\ t \in Seq(Fragment) /\ u \in Seq(Fragment) /\ ReadSoFar(s, u, t)
      /\ Len(u) + Len(t) = Len(r) + Len(q)
      /\ Len(u) \in Nat /\ Len(u) > 0 /\ u[Len(u)].msg = q[1].msg
      /\ Len(r) > 0 => r[Len(r)].msg < q[1].msg
  <2>1. m = SubSeq(q, 1, n) /\ t = SubSeq(q, n + 1, Len(q)) /\ u = r \o m
    OBVIOUS
  <2>2. n \in FirstMessage(q)
    BY <1>3
  <2> HIDE DEF m, t, u, q, r, s, o
  <2>3. Pieces(s, r, q, n, m, t, u)
    BY <1>1, <1>2, <1>4, <1>5, <2>1, <2>2, RecvPieces, Zenon
  <2> QED
    BY <2>3 DEF Pieces
<1>7. m \in Seq(Fragment)
  BY <1>6, SplitProperties
<1> HIDE DEF m, t, u
<1>8. /\ read' = [read EXCEPT ![e] = u]
      /\ payload' = [payload EXCEPT ![e] = Append(payload[e], m)] \/ payload' = payload
      /\ Assemble(e, rcv_buf[e], t)
  BY <1>3 DEF m, t, u
<1>9. /\ read' \in [Ends -> Seq(Fragment)] /\ read'[e] = u
      /\ \A x \in Ends : x # e => read'[x] = read[x]
  BY <1>1, <1>6, <1>8
<1>10. /\ payload' \in [Ends -> Seq(Seq(Fragment))]
       /\ payload'[e] = payload[e] \/ payload'[e] = Append(payload[e], m)
       /\ \A x \in Ends : x # e => payload'[x] = payload[x]
  <2>1. CASE payload' = payload
    BY <1>1, <2>1
  <2>2. CASE payload' = [payload EXCEPT ![e] = Append(payload[e], m)]
    <3>1. Append(payload[e], m) \in Seq(Seq(Fragment))
      BY <1>1, <1>7
    <3> QED
      BY <1>1, <2>2, <3>1
  <2> QED
    BY <1>8, <2>1, <2>2
<1>11. UserOK(e)'
  <2>1. read'[e][Len(read'[e])].msg = q[1].msg /\ Len(read'[e]) > 0
    BY <1>6, <1>9, Zenon
  <2>2. Len(read[e]) > 0 => read[e][Len(read[e])].msg < q[1].msg
    BY <1>6
  <2>3. delivered' = delivered
    OBVIOUS
  <2> HIDE DEF q
  <2> QED
    BY <1>1, <1>2, <1>6, <1>10, <2>1, <2>2, <2>3, UserOKAppend, Zenon

<1>12. /\ rcv_nxt' \in [Ends -> Nat] /\ rcv_queue' \in [Ends -> Seq(Fragment)]
       /\ DOMAIN rcv_buf' = Ends
       /\ \A x \in Ends : x # e => /\ rcv_nxt'[x] = rcv_nxt[x]
                                   /\ rcv_buf'[x] = rcv_buf[x]
                                   /\ rcv_queue'[x] = rcv_queue[x]
       /\ DOMAIN rcv_buf'[e] \subseteq Nat
       /\ rcv_buf'[e] \in [DOMAIN rcv_buf'[e] -> Fragment]
       /\ rcv_nxt[e] <= rcv_nxt'[e] /\ rcv_nxt'[e] <= snd_nxt[Other(e)]
       /\ \A sn \in DOMAIN rcv_buf'[e] :
            /\ rcv_nxt'[e] <= sn /\ sn < snd_nxt[Other(e)]
            /\ rcv_buf'[e][sn] = sent[Other(e)][sn + 1]
       /\ Len(u) + Len(rcv_queue'[e]) = rcv_nxt'[e]
       /\ \A i \in 1..Len(rcv_queue'[e]) : rcv_queue'[e][i] = sent[Other(e)][Len(u) + i]
       /\ \A sn \in Nat : Received(e, sn) \/ sn \in DOMAIN rcv_buf[e]
                            => sn < rcv_nxt'[e] \/ sn \in DOMAIN rcv_buf'[e]
  <2>1. DOMAIN rcv_buf[e] \subseteq Nat /\ rcv_buf[e] \in [DOMAIN rcv_buf[e] -> Fragment]
    BY <1>1 DEF TypeOK
  <2>2. /\ rcv_nxt[e] <= snd_nxt[Other(e)]
        /\ \A sn \in DOMAIN rcv_buf[e] : /\ rcv_nxt[e] <= sn /\ sn < snd_nxt[Other(e)]
                                         /\ rcv_buf[e][sn] = sent[Other(e)][sn + 1]
    BY <1>2 DEF RcvOK
  <2>3. Len(r) + Len(q) = rcv_nxt[e]
    BY <1>2 DEF ReadOK
  <2>4. Len(u) + Len(t) = rcv_nxt[e]
    BY <1>6, <2>3, Zenon
  <2>5. \A i \in 1..Len(t) : t[i] = sent[Other(e)][Len(u) + i]
    BY <1>6, Zenon DEF ReadSoFar
  <2>6. DOMAIN rcv_buf[e] \subseteq DOMAIN rcv_buf[e]
    OBVIOUS
  <2> HIDE DEF q, r, s, o
  <2> QED
    <3>1. FromPeer(e, rcv_buf[e], t, Len(u))
      BY <2>1, <2>2, <2>4, <2>5, <2>6, Zenon DEF FromPeer
    <3>2. Assembled(e, rcv_buf[e], Len(u))
      BY <1>1, <1>6, <1>8, <3>1, AssembleOK, Zenon
    <3> QED
      BY <3>2, Zenon DEF Assembled
<1>13. /\ DOMAIN read'[e] = 1..Len(u) /\ Len(read'[e]) = Len(u)
       /\ DOMAIN rcv_queue'[e] = 1..Len(rcv_queue'[e])
  <2>1. rcv_queue'[e] \in Seq(Fragment)
    BY <1>12
  <2>2. u \in Seq(Fragment)
    BY <1>6
  <2>3. DOMAIN u = 1..Len(u) /\ DOMAIN rcv_queue'[e] = 1..Len(rcv_queue'[e])
    BY <2>1, <2>2, LenProperties
  <2> QED
    BY <1>9, <2>3, Zenon
<1>14. /\ \A i \in DOMAIN read'[e] : read'[e][i] = s[i]
       /\ read'[e][Len(read'[e])].frg = 0
       /\ Len(read'[e]) + Len(rcv_queue'[e]) = rcv_nxt'[e]
       /\ \A i \in DOMAIN rcv_queue'[e] : rcv_queue'[e][i] = s[Len(read'[e]) + i]
  <2>1. \A i \in 1..Len(u) : u[i] = s[i]
    BY <1>6, Zenon DEF ReadSoFar
  <2>2. u[Len(u)].frg = 0
    BY <1>6, Zenon DEF ReadSoFar
  <2> QED
    BY <1>9, <1>12, <1>13, <2>1, <2>2, Zenon
<1>15. \A sn \in Nat : Received(e, sn) => StillReceived(e, sn)
  BY <1>12, Zenon DEF StillReceived
<1> QED
  BY <1>9, <1>10, <1>11, <1>12, <1>14, <1>15, Zenon DEF RcvHalf

\* What e has written in this step, the other end will find to be true.
LEMMA WrittenOK ==
  ASSUME TypeOK, TypeOK', Grows, NEW e \in Ends, sent' = sent, NEW seg, Written(e, seg)
  PROVE  SegStillOK(Other(e), seg)
<1>1. seg \in Segment /\ seg.una = rcv_nxt[e] /\ rcv_nxt[e] \in Nat /\ rcv_nxt'[e] \in Nat
  BY DEF Written, TypeOK
<1>2. seg.una <= rcv_nxt'[e]
  BY <1>1 DEF Grows
<1>3. Other(Other(e)) = e
  BY OtherEnd
<1>4. seg.cmd = "PUSH" => seg.sn < snd_nxt'[e] /\ seg.frag = sent'[e][seg.sn + 1]
  BY DEF Written
<1>5. seg.cmd = "ACK" => StillReceived(e, seg.sn)
  <2>1. seg.cmd = "ACK" => seg.sn \in Nat
    BY <1>1 DEF Segment
  <2> QED
    BY <2>1 DEF Written, Grows
<1> QED
  BY <1>2, <1>3, <1>4, <1>5, Zenon DEF SegStillOK

LEMMA HalvesStep ==
  ASSUME IInv, NEW e \in Ends, SndHalf(e), RcvHalf(e),
         probe' \in [Ends -> SUBSET {"SEND", "TELL"}],
         input' \in [Ends -> [busy : BOOLEAN, segs : Seq(Segment), slid : BOOLEAN]],
         \A x \in Ends : \A i \in DOMAIN input'[x].segs :
           \E j \in DOMAIN input[x].segs : input'[x].segs[i] = input[x].segs[j]
  PROVE  IInv'
<1>0. TypeOK /\ NetOK
  BY DEF IInv
<1>a. \A x \in Ends : StreamOK(sent[x]) /\ SndOK(x) /\ RcvOK(x) /\ ReadOK(x)
                      /\ InputOK(x) /\ UserOK(x) /\ Other(x) \in Ends
  BY OtherEnd DEF IInv
<1>b. sent' = sent /\ delivered' = delivered
  BY DEF RcvHalf
<1>c. \A x \in Ends : x # e => /\ snd_queue'[x] = snd_queue[x] /\ snd_nxt'[x] = snd_nxt[x]
                               /\ snd_buf'[x] = snd_buf[x] /\ acklist'[x] = acklist[x]
                               /\ rcv_nxt'[x] = rcv_nxt[x] /\ rcv_buf'[x] = rcv_buf[x]
                               /\ rcv_queue'[x] = rcv_queue[x] /\ read'[x] = read[x]
                               /\ payload'[x] = payload[x] /\ snd_una'[x] = snd_una[x]
  BY Zenon DEF SndHalf, RcvHalf
<1>1. TypeOK'
  <2>1. ASSUME NEW x \in Ends
        PROVE  /\ DOMAIN snd_buf'[x] \subseteq Nat
               /\ snd_buf'[x] \in [DOMAIN snd_buf'[x] -> [frag : Fragment, acked : BOOLEAN]]
               /\ DOMAIN rcv_buf'[x] \subseteq Nat
               /\ rcv_buf'[x] \in [DOMAIN rcv_buf'[x] -> Fragment]
    <3>1. CASE x = e
      <4>1. DOMAIN rcv_buf'[e] \subseteq Nat /\ rcv_buf'[e] \in [DOMAIN rcv_buf'[e] -> Fragment]
        BY DEF RcvHalf
      <4>2. DOMAIN snd_buf'[e] = snd_una'[e]..(snd_nxt'[e] - 1) /\ snd_una'[e] \in Nat
            /\ snd_nxt'[e] \in Nat
        BY DEF SndHalf
      <4>3. DOMAIN snd_buf'[e] \subseteq Nat
        BY <4>2
      <4> QED
        BY <3>1, <4>1, <4>3, Zenon DEF SndHalf
    <3>2. CASE x # e
      BY <1>0, <1>c, <3>2 DEF TypeOK
    <3> QED
      BY <3>1, <3>2
  <2>2. net' \subseteq Datagram
    BY <1>0 DEF SndHalf, TypeOK
  <2>3. /\ snd_queue' \in [Ends -> Seq(Fragment)] /\ snd_nxt' \in [Ends -> Nat]
        /\ snd_una' \in [Ends -> Nat] /\ rmt_wnd' \in [Ends -> 0..RcvWnd]
        /\ probe_wait' \in [Ends -> BOOLEAN] /\ acklist' \in [Ends -> Seq(Nat)]
        /\ DOMAIN snd_buf' = Ends
    BY Zenon DEF SndHalf
  <2>4. /\ rcv_nxt' \in [Ends -> Nat] /\ rcv_queue' \in [Ends -> Seq(Fragment)]
        /\ DOMAIN rcv_buf' = Ends /\ read' \in [Ends -> Seq(Fragment)]
        /\ payload' \in [Ends -> Seq(Seq(Fragment))]
    BY Zenon DEF RcvHalf
  <2> QED
    BY <1>0, <1>b, <2>1, <2>2, <2>3, <2>4, Zenon DEF TypeOK
<1>2. Grows
  <2>1. \A x \in Ends : /\ snd_nxt[x] \in Nat /\ rcv_nxt[x] \in Nat /\ Len(sent[x]) \in Nat
    BY <1>0, LenProperties DEF TypeOK
  <2>2. \A x \in Ends : /\ snd_nxt[x] <= snd_nxt[x] /\ rcv_nxt[x] <= rcv_nxt[x]
                        /\ Len(sent[x]) <= Len(sent[x])
    BY <2>1
  <2>3. snd_nxt[e] <= snd_nxt'[e] /\ rcv_nxt[e] <= rcv_nxt'[e]
        /\ \A sn \in Nat : Received(e, sn) => StillReceived(e, sn)
    BY Zenon DEF SndHalf, RcvHalf
  <2>4. ASSUME NEW x \in Ends, x # e
        PROVE  \A sn \in Nat : Received(x, sn) => StillReceived(x, sn)
    BY <1>c, <2>4, Zenon DEF Received, StillReceived
  <2> QED
    BY <1>b, <1>c, <2>2, <2>3, <2>4, Zenon DEF Grows
<1>3. ASSUME NEW x \in Ends
      PROVE  SndOK(x)'
  <2>1. CASE x = e
    <3>1. snd_una'[e] \in Nat /\ rcv_nxt[Other(e)] \in Nat /\ rcv_nxt'[Other(e)] \in Nat
      BY <1>0, <1>1, <1>a DEF TypeOK
    <3>3. snd_una'[e] <= rcv_nxt'[Other(e)]
      <4>1. snd_una'[e] <= rcv_nxt[Other(e)] /\ rcv_nxt[Other(e)] <= rcv_nxt'[Other(e)]
        BY <1>2, <1>a, Zenon DEF SndHalf, Grows
      <4> QED
        BY <3>1, <4>1
    <3>4. \A sn \in DOMAIN snd_buf'[e] :
            /\ snd_buf'[e][sn].frag = sent[e][sn + 1]
            /\ snd_buf'[e][sn].acked => StillReceived(Other(e), sn)
      <4>1. DOMAIN snd_buf'[e] \subseteq Nat
        BY <1>1 DEF TypeOK
      <4>2. \A sn \in Nat : Received(Other(e), sn) => StillReceived(Other(e), sn)
        BY <1>2, <1>a, Zenon DEF Grows
      <4> QED
        BY <4>1, <4>2 DEF SndHalf
    <3>5. \A sn \in Nat : StillReceived(Other(e), sn) <=> Received(Other(e), sn)'
      BY DEF StillReceived, Received
    <3> QED
      BY <1>b, <2>1, <3>3, <3>4, <3>5, Zenon DEF SndOK, SndHalf, StillReceived, Received
  <2>2. CASE x # e
    <3>1. /\ snd_queue'[x] = snd_queue[x] /\ snd_buf'[x] = snd_buf[x]
          /\ snd_una'[x] = snd_una[x] /\ snd_nxt'[x] = snd_nxt[x] /\ sent'[x] = sent[x]
      BY <1>b, <1>c, <2>2, Zenon
    <3> QED
      BY <1>0, <1>1, <1>2, <1>a, <3>1, SndOKFrame
  <2> QED
    BY <2>1, <2>2
<1>4. ASSUME NEW x \in Ends
      PROVE  RcvOK(x)'
  <2>1. CASE x = e
    <3>1. snd_nxt'[Other(e)] = snd_nxt[Other(e)]
      BY <1>a, <1>c, OtherEnd, Zenon
    <3>2. \A i \in DOMAIN acklist'[e] : StillReceived(e, acklist'[e][i])
      <4>1. acklist'[e] \in Seq(Nat)
        BY <1>1 DEF TypeOK
      <4>2. \A i \in DOMAIN acklist'[e] : acklist'[e][i] \in Nat
        BY <4>1, LenProperties, ElementOfSeq
      <4> QED
        BY <1>2, <4>2, Zenon DEF SndHalf, Grows
    <3>3. /\ rcv_nxt'[e] <= snd_nxt'[Other(e)]
          /\ \A sn \in DOMAIN rcv_buf'[e] : /\ rcv_nxt'[e] <= sn /\ sn < snd_nxt'[Other(e)]
                                            /\ rcv_buf'[e][sn] = sent'[Other(e)][sn + 1]
      BY <1>b, <3>1, Zenon DEF RcvHalf
    <3> QED
      BY <2>1, <3>2, <3>3, Zenon DEF RcvOK, StillReceived, Received
  <2>2. CASE x # e
    <3>1. rcv_nxt'[x] = rcv_nxt[x] /\ rcv_buf'[x] = rcv_buf[x] /\ acklist'[x] = acklist[x]
      BY <1>c, <2>2, Zenon
    <3> QED
      BY <1>0, <1>1, <1>2, <1>a, <3>1, RcvOKFrame
  <2> QED
    BY <2>1, <2>2
<1>5. ASSUME NEW x \in Ends
      PROVE  ReadOK(x)' /\ UserOK(x)'
  <2>1. CASE x = e
    BY <1>b, <2>1, Zenon, SMTT(30) DEF ReadOK, RcvHalf
  <2>2. CASE x # e
    <3>1. /\ rcv_nxt'[x] = rcv_nxt[x] /\ rcv_queue'[x] = rcv_queue[x] /\ read'[x] = read[x]
          /\ payload'[x] = payload[x] /\ delivered'[x] = delivered[x]
      BY <1>b, <1>c, <2>2, Zenon
    <3>2. ReadOK(x)'
      BY <1>0, <1>1, <1>2, <1>a, <3>1, ReadOKFrame
    <3>3. UserOK(x)'
      BY <1>a, <3>1, UserOKFrame
    <3> QED
      BY <3>2, <3>3
  <2> QED
    BY <2>1, <2>2
<1>6. NetOK'
  <2>1. ASSUME NEW d \in net', NEW i \in DOMAIN d.segs
        PROVE  SegStillOK(d.to, d.segs[i])
    <3>1. CASE d \in net
      BY <1>0, <1>1, <1>2, <1>a, <3>1, NetOKGrows
    <3>2. CASE d.to = Other(e) /\ Written(e, d.segs[i])
      BY <1>0, <1>1, <1>2, <1>b, <3>2, WrittenOK
    <3> QED
      BY <3>1, <3>2 DEF SndHalf
  <2> QED
    BY <2>1 DEF NetOK, SegOK, SegStillOK, Received, StillReceived
<1>7. ASSUME NEW x \in Ends
      PROVE  InputOK(x)'
  <2>1. \A j \in DOMAIN input[x].segs : SegStillOK(x, input[x].segs[j])
    BY <1>0, <1>1, <1>2, <1>a, InputOKGrows
  <2>2. \A i \in DOMAIN input'[x].segs : SegStillOK(x, input'[x].segs[i])
    BY <2>1, Zenon
  <2> QED
    BY <2>2, Zenon DEF InputOK, SegOK, SegStillOK, Received, StillReceived
<1>8. \A x \in Ends : StreamOK(sent[x])'
  BY <1>a, <1>b
<1> QED
  BY <1>1, <1>3, <1>4, <1>5, <1>6, <1>7, <1>8 DEF IInv

LEMMA DeliverRcvHalf ==
  ASSUME IInv, NEW e \in Ends, NEW before \in SUBSET {"SEND", "TELL"}, Deliver(e, before)
  PROVE  /\ RcvHalf(e) /\ input' = input
         /\ probe' \in [Ends -> SUBSET {"SEND", "TELL"}]
<1>0. probe \in [Ends -> SUBSET {"SEND", "TELL"}]
  BY DEF IInv, TypeOK
<1>1. CASE Readable(e)
  <2>1. Recv(e, before) /\ UNCHANGED <<sent, delivered, input>>
    BY <1>1 DEF Deliver
  <2>2. probe' \in [Ends -> SUBSET {"SEND", "TELL"}]
    BY <1>0, <2>1 DEF Recv
  <2>3. RcvHalf(e)
    BY <1>1, <2>1, RecvRcvHalf
  <2> QED
    BY <2>1, <2>2, <2>3
<1>2. CASE ~Readable(e)
  <2>1. /\ probe' = [probe EXCEPT ![e] = before]
        /\ UNCHANGED <<rcvVars, userVars, input>>
    BY <1>2 DEF Deliver
  <2>2. RcvHalf(e)
    BY <2>1, NoRecvRcvHalf
  <2> QED
    BY <1>0, <2>1, <2>2
<1> QED
  BY <1>1, <1>2

LEMMA UpdateStep ==
  ASSUME IInv, NEW e \in Ends, UpdateFlush(e) \/ UpdateOnly(e)
  PROVE  IInv'
<1>1. SndHalf(e)
  BY FlushSndHalf, NoFlushSndHalf DEF UpdateFlush, UpdateOnly
<1>2. probe[e] \in SUBSET {"SEND", "TELL"}
      /\ input \in [Ends -> [busy : BOOLEAN, segs : Seq(Segment), slid : BOOLEAN]]
  BY DEF IInv, TypeOK
<1>3. /\ RcvHalf(e) /\ input' = input
      /\ probe' \in [Ends -> SUBSET {"SEND", "TELL"}]
  <2>1. CASE UpdateFlush(e)
    <3>1. Deliver(e, {})
      BY <2>1 DEF UpdateFlush
    <3> QED
      BY <3>1, DeliverRcvHalf
  <2>2. CASE UpdateOnly(e)
    <3>1. Deliver(e, probe[e])
      BY <2>2 DEF UpdateOnly
    <3> QED
      BY <1>2, <3>1, DeliverRcvHalf
  <2> QED
    BY <2>1, <2>2
<1> QED
  BY <1>1, <1>2, <1>3, HalvesStep

LEMMA InputReturnStep ==
  ASSUME IInv, NEW e \in Ends, InputReturn(e)
  PROVE  IInv'
<1>1. SndHalf(e)
  BY FlushSndHalf, NoFlushSndHalf DEF InputReturn
<1>2. RcvHalf(e)
  BY NoRecvRcvHalf DEF InputReturn
<1>3. probe \in [Ends -> SUBSET {"SEND", "TELL"}]
      /\ input \in [Ends -> [busy : BOOLEAN, segs : Seq(Segment), slid : BOOLEAN]]
  BY DEF IInv, TypeOK
<1>4. probe' \in [Ends -> SUBSET {"SEND", "TELL"}]
  BY <1>3 DEF InputReturn
<1>5. /\ Idle \in [busy : BOOLEAN, segs : Seq(Segment), slid : BOOLEAN]
      /\ Idle.segs = <<>> /\ input[e].segs = <<>> /\ input' = [input EXCEPT ![e] = Idle]
  BY EmptySeq DEF InputReturn, Idle
<1>6. /\ input' \in [Ends -> [busy : BOOLEAN, segs : Seq(Segment), slid : BOOLEAN]]
      /\ \A x \in Ends : input'[x].segs = input[x].segs
  <2> HIDE DEF Idle
  <2> QED
    BY <1>3, <1>5
<1>7. \A x \in Ends : \A i \in DOMAIN input'[x].segs :
        \E j \in DOMAIN input[x].segs : input'[x].segs[i] = input[x].segs[j]
  BY <1>6, Zenon
<1> QED
  BY <1>1, <1>2, <1>4, <1>6, <1>7, HalvesStep

LEMMA OnSegmentDataStep ==
  ASSUME IInv, NEW e \in Ends, NEW d \in net, NEW again \in BOOLEAN,
         onSegmentData(e, d, again)
  PROVE  IInv'
<1>0. /\ TypeOK /\ NetOK
      /\ \A x \in Ends : StreamOK(sent[x]) /\ SndOK(x) /\ RcvOK(x) /\ ReadOK(x)
                         /\ InputOK(x) /\ UserOK(x) /\ Other(x) \in Ends
  BY OtherEnd DEF IInv
<1>1. /\ UNCHANGED <<sndVars, probe, rcvVars, acklist, userVars>>
      /\ d.to = e /\ net' \subseteq net
      /\ input' = [input EXCEPT ![e] = [busy |-> TRUE, segs |-> d.segs, slid |-> FALSE]]
  BY DEF onSegmentData
<1>2. d \in Datagram /\ d.segs \in Seq(Segment)
  BY <1>0 DEF TypeOK, Datagram
<1>3. TypeOK'
  <2>1. input' \in [Ends -> [busy : BOOLEAN, segs : Seq(Segment), slid : BOOLEAN]]
    BY <1>0, <1>1, <1>2 DEF TypeOK
  <2>2. net' \subseteq Datagram
    BY <1>0, <1>1 DEF TypeOK
  <2> QED
    BY <1>0, <1>1, <2>1, <2>2, Zenon DEF TypeOK, sndVars, rcvVars, userVars
<1>4. Grows
  BY <1>0, <1>1, GrowsFrame DEF sndVars, rcvVars, userVars
<1>5. NetOK'
  BY <1>0, <1>1, <1>3, <1>4, NetOKFrame
<1>6. ASSUME NEW x \in Ends
      PROVE  StreamOK(sent[x])' /\ SndOK(x)' /\ RcvOK(x)' /\ ReadOK(x)' /\ UserOK(x)'
  <2>1. SndOK(x)'
    BY <1>0, <1>1, <1>3, <1>4, SndOKFrame DEF sndVars, userVars
  <2>2. RcvOK(x)'
    BY <1>0, <1>1, <1>3, <1>4, RcvOKFrame DEF rcvVars
  <2>3. ReadOK(x)'
    BY <1>0, <1>1, <1>3, <1>4, ReadOKFrame DEF rcvVars, userVars
  <2>4. StreamOK(sent[x])'
    BY <1>0, <1>1 DEF userVars
  <2>5. UserOK(x)'
    BY <1>0, <1>1, UserOKFrame DEF userVars
  <2> QED
    BY <2>1, <2>2, <2>3, <2>4, <2>5
<1>7. ASSUME NEW x \in Ends
      PROVE  InputOK(x)'
  <2>1. CASE x = e
    <3>1. \A i \in DOMAIN d.segs : SegStillOK(e, d.segs[i])
      BY <1>0, <1>1, <1>3, <1>4, NetOKGrows
    <3>2. input'[e].segs = d.segs
      BY <1>0, <1>1 DEF TypeOK
    <3> QED
      BY <2>1, <3>1, <3>2, Zenon DEF InputOK, SegOK, SegStillOK, Received, StillReceived
  <2>2. CASE x # e
    <3>1. input'[x].segs = input[x].segs
      BY <1>0, <1>1, <2>2 DEF TypeOK
    <3> QED
      BY <1>0, <1>3, <1>4, <3>1, InputOKFrame
  <2> QED
    BY <2>1, <2>2
<1> QED
  BY <1>3, <1>5, <1>6, <1>7 DEF IInv

LEMMA Shift ==
  ASSUME NEW n \in Nat, NEW a \in Nat, NEW b \in Nat, n + a = b, NEW i \in Nat
  PROVE  /\ (n + i) - b = i - a
         /\ ~(i <= a) => ~(n + i <= b)
         /\ n + (a + i) = b + i /\ b <= b + i
OBVIOUS

\* What Send appends to the queue and to the stream.
Follows(s, q, n) ==
  /\ n + Len(q) = Len(s)
  /\ \A i \in 1..Len(q) : q[i] = s[n + i]

LEMMA BothAppended ==
  ASSUME NEW s \in Seq(Fragment), NEW q \in Seq(Fragment), NEW f \in Seq(Fragment), NEW n \in Nat,
         Follows(s, q, n)
  PROVE  /\ q \o f \in Seq(Fragment) /\ Follows(s \o f, q \o f, n)
         /\ \A i \in 1..Len(s) : (s \o f)[i] = s[i]
         /\ Len(s) <= Len(s \o f)
<1>1. Len(s) \in Nat /\ Len(q) \in Nat /\ Len(f) \in Nat
  BY LenProperties
<1>2. /\ Len(s \o f) = Len(s) + Len(f)
      /\ \A i \in 1..(Len(s) + Len(f)) : (s \o f)[i] = IF i <= Len(s) THEN s[i] ELSE f[i - Len(s)]
  BY ConcatProperties
<1>3. /\ q \o f \in Seq(Fragment) /\ Len(q \o f) = Len(q) + Len(f)
      /\ \A i \in 1..(Len(q) + Len(f)) : (q \o f)[i] = IF i <= Len(q) THEN q[i] ELSE f[i - Len(q)]
  BY ConcatProperties
<1>a. n + Len(q) = Len(s) /\ \A i \in 1..Len(q) : q[i] = s[n + i]
  BY DEF Follows
<1>4. ASSUME NEW i \in 1..(Len(q) + Len(f))
      PROVE  (q \o f)[i] = (s \o f)[n + i]
  <2>1. n + i \in 1..(Len(s) + Len(f))
    BY <1>1, <1>a
  <2>2. CASE i <= Len(q)
    BY <1>1, <1>2, <1>3, <1>a, <2>1, <2>2
  <2>3. CASE ~(i <= Len(q))
    <3>1. ~(n + i <= Len(s)) /\ (n + i) - Len(s) = i - Len(q)
      <4>1. i \in Nat
        BY <1>1
      <4>2. n + Len(q) = Len(s)
        BY <1>a
      <4>3. (n + i) - Len(s) = i - Len(q)
        BY <1>1, <4>1, <4>2, Shift
      <4>4. ~(i <= Len(q)) => ~(n + i <= Len(s))
        BY <1>1, <4>1, <4>2, Shift
      <4> QED
        BY <2>3, <4>3, <4>4, Zenon
    <3>2. (q \o f)[i] = f[i - Len(q)]
      BY <1>3, <2>3, Zenon
    <3>3. (s \o f)[n + i] = f[(n + i) - Len(s)]
      BY <1>2, <2>1, <3>1, Zenon
    <3> QED
      BY <3>1, <3>2, <3>3, Zenon
  <2> QED
    BY <2>2, <2>3
<1>5. \A i \in 1..Len(q \o f) : (q \o f)[i] = (s \o f)[n + i]
  BY <1>3, <1>4, Zenon
<1>6. n + Len(q \o f) = Len(s \o f) /\ Len(s) <= Len(s \o f)
  <2>1. n + (Len(q) + Len(f)) = Len(s) + Len(f) /\ Len(s) <= Len(s) + Len(f)
    BY <1>1, <1>a, Shift
  <2> QED
    BY <1>2, <1>3, <2>1, Zenon
<1>7. \A i \in 1..Len(s) : (s \o f)[i] = s[i]
  BY <1>1, <1>2
<1> QED
  BY <1>3, <1>5, <1>6, <1>7, Zenon DEF Follows

LEMMA SendPayloadStep ==
  ASSUME IInv, NEW e \in Ends, NEW count \in Nat, SendPayload(e, count)
  PROVE  IInv'
<1>0. /\ TypeOK /\ NetOK
      /\ \A x \in Ends : StreamOK(sent[x]) /\ SndOK(x) /\ RcvOK(x) /\ ReadOK(x)
                         /\ InputOK(x) /\ UserOK(x) /\ Other(x) \in Ends
  BY OtherEnd DEF IInv
<1> DEFINE frags == Split(LastMsg(sent[e]) + 1, count)
<1>1. /\ sent' = [sent EXCEPT ![e] = sent[e] \o frags]
      /\ snd_queue' = [snd_queue EXCEPT ![e] = snd_queue[e] \o frags]
      /\ UNCHANGED <<snd_buf, snd_una, snd_nxt, rmt_wnd, probe, probe_wait, rcvVars,
                     acklist, payload, read, delivered, input, net>>
  BY DEF SendPayload
<1>2. /\ sent \in [Ends -> Seq(Fragment)] /\ snd_queue \in [Ends -> Seq(Fragment)]
      /\ sent[e] \in Seq(Fragment) /\ snd_queue[e] \in Seq(Fragment)
      /\ Len(sent[e]) \in Nat /\ Len(snd_queue[e]) \in Nat /\ snd_nxt[e] \in Nat
      /\ DOMAIN snd_queue[e] = 1..Len(snd_queue[e])
  BY <1>0, LenProperties DEF TypeOK
<1>3. sent[e] \o frags \in Seq(Fragment) /\ StreamOK(sent[e] \o frags)
  BY <1>0, <1>2, AppendMessage
<1>4. frags \in Seq(Fragment) /\ Len(frags) = count
  <2>1. LastMsg(sent[e]) + 1 \in Nat
    BY <1>0, <1>2, LastMsgProperties
  <2> QED
    BY <2>1, SplitProperties
<1> HIDE DEF frags
<1>5. /\ snd_queue[e] \o frags \in Seq(Fragment)
      /\ Follows(sent[e] \o frags, snd_queue[e] \o frags, snd_nxt[e])
      /\ \A i \in 1..Len(sent[e]) : (sent[e] \o frags)[i] = sent[e][i]
      /\ Len(sent[e]) <= Len(sent[e] \o frags)
  <2>1. Follows(sent[e], snd_queue[e], snd_nxt[e])
    BY <1>0, <1>2, Zenon DEF SndOK, Follows
  <2> QED
    BY <1>2, <1>4, <2>1, BothAppended
<1>6. /\ sent' \in [Ends -> Seq(Fragment)] /\ snd_queue' \in [Ends -> Seq(Fragment)]
      /\ sent'[e] = sent[e] \o frags /\ snd_queue'[e] = snd_queue[e] \o frags
      /\ \A x \in Ends : x # e => sent'[x] = sent[x] /\ snd_queue'[x] = snd_queue[x]
  BY <1>1, <1>2, <1>3, <1>5
<1>7. TypeOK'
  BY <1>0, <1>1, <1>6, Zenon DEF TypeOK, rcvVars

<1>8. Grows
  <2>1. \A x \in Ends : snd_nxt[x] \in Nat /\ rcv_nxt[x] \in Nat /\ Len(sent[x]) \in Nat
    BY <1>0, LenProperties DEF TypeOK
  <2>2. \A x \in Ends : /\ snd_nxt[x] <= snd_nxt[x] /\ rcv_nxt[x] <= rcv_nxt[x]
                        /\ Len(sent[x]) <= Len(sent[x])
    BY <2>1
  <2>3. \A x \in Ends : /\ Len(sent[x]) <= Len(sent'[x])
                        /\ \A i \in 1..Len(sent[x]) : sent'[x][i] = sent[x][i]
    BY <1>5, <1>6, <2>2, Zenon
  <2>4. snd_nxt' = snd_nxt /\ rcv_nxt' = rcv_nxt /\ rcv_buf' = rcv_buf
    BY <1>1 DEF rcvVars
  <2> QED
    BY <2>2, <2>3, <2>4, Zenon DEF Grows, Received, StillReceived
<1>9. NetOK' /\ \A x \in Ends : InputOK(x)'
  BY <1>0, <1>1, <1>7, <1>8, NetOKFrame, InputOKFrame
<1>10. ASSUME NEW x \in Ends
       PROVE  RcvOK(x)' /\ ReadOK(x)' /\ UserOK(x)'
  <2>1. RcvOK(x)'
    BY <1>0, <1>1, <1>7, <1>8, RcvOKFrame DEF rcvVars
  <2>2. ReadOK(x)'
    BY <1>0, <1>1, <1>7, <1>8, ReadOKFrame DEF rcvVars
  <2>3. UserOK(x)'
    BY <1>0, <1>1, UserOKFrame
  <2> QED
    BY <2>1, <2>2, <2>3
<1>11. SndOK(e)'
  <2>1. DOMAIN snd_queue'[e] = 1..Len(snd_queue'[e])
    <3>1. snd_queue'[e] \in Seq(Fragment)
      BY <1>6
    <3> QED
      BY <3>1, LenProperties
  <2>2. /\ snd_nxt'[e] + Len(snd_queue'[e]) = Len(sent'[e])
        /\ \A i \in DOMAIN snd_queue'[e] : snd_queue'[e][i] = sent'[e][snd_nxt'[e] + i]
    BY <1>1, <1>5, <1>6, <2>1, Zenon DEF Follows
  <2>3. \A sn \in DOMAIN snd_buf[e] : snd_buf[e][sn].frag = sent'[e][sn + 1]
    <3> SUFFICES ASSUME NEW sn \in DOMAIN snd_buf[e]
                 PROVE  snd_buf[e][sn].frag = sent'[e][sn + 1]
      OBVIOUS
    <3>1. /\ DOMAIN snd_buf[e] = snd_una[e]..(snd_nxt[e] - 1) /\ snd_una[e] \in Nat
      BY <1>0 DEF SndOK, TypeOK
    <3>2. sn \in Nat /\ sn + 1 <= snd_nxt[e]
      BY <1>2, <3>1
    <3>3. snd_nxt[e] + Len(snd_queue[e]) = Len(sent[e])
      BY <1>0 DEF SndOK
    <3>4. sn + 1 \in 1..Len(sent[e])
      BY <1>2, <3>2, <3>3
    <3>5. sent'[e][sn + 1] = sent[e][sn + 1]
      BY <1>5, <1>6, <3>4, Zenon
    <3> QED
      BY <1>0, <3>5, Zenon DEF SndOK
  <2>4. UNCHANGED <<snd_buf, snd_una, snd_nxt, rcv_nxt, rcv_buf>>
    BY <1>1 DEF rcvVars
  <2> QED
    BY <1>0, <2>2, <2>3, <2>4, Zenon DEF SndOK, Received
<1>12. ASSUME NEW x \in Ends
       PROVE  SndOK(x)' /\ StreamOK(sent[x])'
  <2>1. CASE x = e
    BY <1>3, <1>6, <1>11, <2>1
  <2>2. CASE x # e
    <3>1. sent'[x] = sent[x] /\ snd_queue'[x] = snd_queue[x]
      BY <1>6, <2>2
    <3>2. SndOK(x)'
      BY <1>0, <1>1, <1>7, <1>8, <3>1, SndOKFrame
    <3> QED
      BY <1>0, <3>1, <3>2
  <2> QED
    BY <2>1, <2>2
<1> QED
  BY <1>7, <1>9, <1>10, <1>12 DEF IInv

\* The first of the segments that una leaves: a is snd_una, n snd_nxt, r what
\* the receiver expects next, u the una that has arrived.
LEMMA Shrunk ==
  ASSUME NEW a \in Nat, NEW n \in Nat, a <= n, NEW w \in Nat, n <= a + w,
         NEW r \in Nat, a <= r, r <= n, NEW u \in Nat, u <= r,
         NEW left, left = {sn \in a..(n - 1) : sn >= u},
         NEW x \in left \cup {n}, \A sn \in left \cup {n} : x <= sn
  PROVE  /\ x \in Nat /\ x <= n /\ x <= r /\ n <= x + w
         /\ left = x..(n - 1)
<1>1. x \in Nat /\ x <= n /\ a <= x
  OBVIOUS
<1>2. x <= r
  <2>1. CASE r = n
    BY <1>1, <2>1
  <2>2. CASE r # n
    <3>1. r \in left
      BY <2>2
    <3> QED
      BY <3>1
  <2> QED
    BY <2>1, <2>2
<1>3. ASSUME NEW sn \in x..(n - 1)
      PROVE  sn \in left
  <2>1. x \in left
    BY <1>1
  <2> QED
    BY <1>1, <2>1
<1>4. \A sn \in left : sn \in x..(n - 1)
  BY <1>1
<1> QED
  BY <1>1, <1>2, <1>3, <1>4

\* One turn of Input's loop, on the sending half of e.
LEMMA InputSndOK ==
  ASSUME TypeOK, NEW e \in Ends, SndOK(e), RcvOK(Other(e)),
         NEW seg \in Segment, SegOK(e, seg), NEW buf,
         shrink_buf(e, parse_una(e, seg.una)),
         buf = Restricted(snd_buf[e], parse_una(e, seg.una)),
         snd_buf' = [snd_buf EXCEPT ![e] =
                       IF seg.cmd = "ACK" THEN parse_ack(buf, seg.sn) ELSE buf]
  PROVE  /\ snd_una' \in [Ends -> Nat] /\ DOMAIN snd_buf' = Ends
         /\ \A x \in Ends : x # e => snd_una'[x] = snd_una[x] /\ snd_buf'[x] = snd_buf[x]
         /\ snd_una'[e] <= snd_nxt[e] /\ snd_una'[e] <= rcv_nxt[Other(e)]
         /\ snd_nxt[e] <= snd_una'[e] + SndWnd
         /\ DOMAIN snd_buf'[e] = snd_una'[e]..(snd_nxt[e] - 1)
         /\ snd_buf'[e] \in [DOMAIN snd_buf'[e] -> [frag : Fragment, acked : BOOLEAN]]
         /\ \A sn \in DOMAIN snd_buf'[e] :
              /\ snd_buf'[e][sn].frag = sent[e][sn + 1]
              /\ snd_buf'[e][sn].acked => Received(Other(e), sn)
<1> DEFINE o == Other(e)
           left == parse_una(e, seg.una)
<1>1. /\ snd_una[e] \in Nat /\ snd_nxt[e] \in Nat /\ rcv_nxt[o] \in Nat /\ SndWnd \in Nat
      /\ seg.una \in Nat /\ snd_una \in [Ends -> Nat] /\ DOMAIN snd_buf = Ends
      /\ snd_buf[e] \in [DOMAIN snd_buf[e] -> [frag : Fragment, acked : BOOLEAN]]
  BY OtherEnd, KcpConstants DEF TypeOK, Segment
<1>2. /\ snd_una[e] <= snd_nxt[e] /\ snd_nxt[e] <= snd_una[e] + SndWnd
      /\ snd_una[e] <= rcv_nxt[o] /\ rcv_nxt[o] <= snd_nxt[e] /\ seg.una <= rcv_nxt[o]
      /\ DOMAIN snd_buf[e] = snd_una[e]..(snd_nxt[e] - 1)
  <2>1. Other(o) = e
    BY OtherEnd
  <2> HIDE DEF o
  <2>2. RcvOK(o) /\ SndOK(e) /\ SegOK(e, seg) /\ o = Other(e)
    BY DEF o
  <2> QED
    BY <2>1, <2>2, Zenon DEF SndOK, RcvOK, SegOK
<1>3. left = {sn \in snd_una[e]..(snd_nxt[e] - 1) : sn >= seg.una}
  BY <1>2 DEF parse_una
<1>4. PICK una \in left \cup {snd_nxt[e]} :
        /\ \A sn \in left \cup {snd_nxt[e]} : una <= sn
        /\ snd_una' = [snd_una EXCEPT ![e] = una]
  BY DEF shrink_buf
<1> HIDE DEF left, o
<1>5. /\ una \in Nat /\ una <= snd_nxt[e] /\ una <= rcv_nxt[o]
      /\ snd_nxt[e] <= una + SndWnd
      /\ left = una..(snd_nxt[e] - 1)
  BY <1>1, <1>2, <1>3, <1>4, Shrunk
<1>6. /\ snd_una' \in [Ends -> Nat] /\ snd_una'[e] = una
      /\ \A x \in Ends : x # e => snd_una'[x] = snd_una[x]
  BY <1>1, <1>4, <1>5
<1>7. /\ DOMAIN buf = left /\ left \subseteq DOMAIN snd_buf[e]
      /\ buf \in [left -> [frag : Fragment, acked : BOOLEAN]]
      /\ \A sn \in left : buf[sn] = snd_buf[e][sn]
  <2>1. left \subseteq DOMAIN snd_buf[e]
    BY DEF parse_una, left
  <2>2. buf = [sn \in left |-> snd_buf[e][sn]]
    BY DEF Restricted, left
  <2> QED
    BY <1>1, <2>1, <2>2
<1>8. \A sn \in left : /\ buf[sn].frag = sent[e][sn + 1]
                       /\ buf[sn].acked => Received(o, sn)
  BY <1>7, Zenon DEF SndOK, o
<1>9. /\ DOMAIN snd_buf' = Ends
      /\ snd_buf'[e] = (IF seg.cmd = "ACK" THEN parse_ack(buf, seg.sn) ELSE buf)
      /\ \A x \in Ends : x # e => snd_buf'[x] = snd_buf[x]
  BY <1>1
<1> DEFINE b == snd_buf'[e]
<1>10. /\ DOMAIN b = left /\ b \in [left -> [frag : Fragment, acked : BOOLEAN]]
       /\ \A sn \in left : /\ b[sn].frag = sent[e][sn + 1]
                           /\ b[sn].acked => Received(o, sn)
  <2>1. CASE seg.cmd = "ACK" /\ seg.sn \in DOMAIN buf
    <3>1. b = [buf EXCEPT ![seg.sn] = [buf[seg.sn] EXCEPT !.acked = TRUE]]
      BY <1>9, <2>1 DEF parse_ack
    <3>2. Received(o, seg.sn)
      BY <2>1 DEF SegOK, o
    <3>3. buf[seg.sn] \in [frag : Fragment, acked : BOOLEAN]
      BY <1>7, <2>1
    <3>4. /\ [buf[seg.sn] EXCEPT !.acked = TRUE] \in [frag : Fragment, acked : BOOLEAN]
          /\ [buf[seg.sn] EXCEPT !.acked = TRUE].frag = buf[seg.sn].frag
      BY <3>3
    <3> HIDE DEF b
    <3>5. DOMAIN b = left /\ b \in [left -> [frag : Fragment, acked : BOOLEAN]]
      BY <1>7, <3>1, <3>4
    <3>6. ASSUME NEW sn \in left
          PROVE  b[sn].frag = sent[e][sn + 1] /\ (b[sn].acked => Received(o, sn))
      <4>1. CASE sn = seg.sn
        <5>1. b[sn] = [buf[seg.sn] EXCEPT !.acked = TRUE]
          BY <1>7, <2>1, <3>1, <4>1
        <5>2. b[sn].frag = buf[sn].frag
          BY <3>4, <4>1, <5>1, Zenon
        <5> QED
          BY <1>8, <3>2, <4>1, <5>2, Zenon
      <4>2. CASE sn # seg.sn
        <5>1. b[sn] = buf[sn]
          BY <1>7, <3>1, <4>2
        <5> QED
          BY <1>8, <5>1, Zenon
      <4> QED
        BY <4>1, <4>2
    <3> QED
      BY <3>5, <3>6
  <2>2. CASE ~(seg.cmd = "ACK" /\ seg.sn \in DOMAIN buf)
    <3>1. b = buf
      BY <1>9, <2>2, Zenon DEF parse_ack
    <3> HIDE DEF b
    <3> QED
      BY <1>7, <1>8, <3>1, Zenon
  <2> QED
    BY <2>1, <2>2
<1> QED
  BY <1>5, <1>6, <1>9, <1>10, Zenon DEF o

\* The same on the receiving half: a segment that is kept extends rcv_buf by a
\* fragment of the peer's stream.
LEMMA ParseDataOK ==
  ASSUME IInv, NEW e \in Ends, NEW seg \in Segment, seg.cmd = "PUSH", SegOK(e, seg),
         parse_data(e, seg), UNCHANGED userVars
  PROVE  /\ RcvHalf(e)
         /\ InWindow(e, seg.sn) => StillReceived(e, seg.sn)
<1>0. /\ TypeOK /\ RcvOK(e) /\ ReadOK(e) /\ UserOK(e) /\ Other(e) \in Ends
  BY OtherEnd DEF IInv
<1>a. seg.sn \in Nat /\ seg.frag \in Fragment /\ rcv_nxt[e] \in Nat
  BY <1>0 DEF Segment, TypeOK
<1>b. UNCHANGED <<payload, sent, read, delivered>>
  BY DEF userVars
<1>1. CASE InWindow(e, seg.sn) /\ seg.sn >= rcv_nxt[e]
  <2> DEFINE known == rcv_buf[e]
             buf == [sn \in DOMAIN known \cup {seg.sn} |->
                       IF sn \in DOMAIN known THEN known[sn] ELSE seg.frag]
             q == rcv_queue[e]
             k == Len(read[e])
  <2>1. Assemble(e, buf, q)
    BY <1>1 DEF parse_data
  <2>2. /\ DOMAIN known \subseteq Nat /\ known \in [DOMAIN known -> Fragment]
        /\ q \in Seq(Fragment) /\ k \in Nat /\ read[e] \in Seq(Fragment)
    BY <1>0, LenProperties DEF TypeOK
  <2>3. /\ DOMAIN buf = DOMAIN known \cup {seg.sn}
        /\ \A sn \in DOMAIN buf : buf[sn] = IF sn \in DOMAIN known THEN known[sn] ELSE seg.frag
        /\ buf \in [DOMAIN buf -> Fragment]
    BY <1>a, <2>2
  <2>4. /\ seg.sn < snd_nxt[Other(e)] /\ seg.frag = sent[Other(e)][seg.sn + 1]
        /\ rcv_nxt[e] <= seg.sn
    BY <1>1, <1>a DEF SegOK
  <2>5. \A sn \in DOMAIN known : /\ rcv_nxt[e] <= sn /\ sn < snd_nxt[Other(e)]
                                 /\ known[sn] = sent[Other(e)][sn + 1]
    BY <1>0 DEF RcvOK
  <2>6. /\ rcv_nxt[e] <= snd_nxt[Other(e)] /\ k + Len(q) = rcv_nxt[e]
        /\ \A i \in DOMAIN q : q[i] = sent[Other(e)][k + i]
    BY <1>0, Zenon DEF RcvOK, ReadOK
  <2>7. DOMAIN q = 1..Len(q) /\ DOMAIN read[e] = 1..Len(read[e])
    BY <2>2, LenProperties
  <2> HIDE DEF buf
  <2>8. FromPeer(e, buf, q, k)
    <3>1. DOMAIN buf \subseteq Nat /\ DOMAIN rcv_buf[e] \subseteq DOMAIN buf
      BY <1>a, <2>2, <2>3
    <3>2. \A sn \in DOMAIN buf : /\ rcv_nxt[e] <= sn /\ sn < snd_nxt[Other(e)]
                                 /\ buf[sn] = sent[Other(e)][sn + 1]
      BY <2>3, <2>4, <2>5, Zenon
    <3> QED
      BY <2>3, <2>6, <2>7, <3>1, <3>2, Zenon DEF FromPeer
  <2>9. Assembled(e, buf, k)
    BY <1>0, <2>1, <2>2, <2>8, AssembleOK, Zenon
  <2>10. UserOK(e)'
    BY <1>0, <1>b, UserOKFrame
  <2>11. rcv_queue'[e] \in Seq(Fragment)
    BY <2>9 DEF Assembled
  <2>12. DOMAIN rcv_queue'[e] = 1..Len(rcv_queue'[e])
    BY <2>11, LenProperties
  <2>13. \A sn \in Nat : Received(e, sn) => StillReceived(e, sn)
    BY <2>9, Zenon DEF Assembled, StillReceived
  <2>14. StillReceived(e, seg.sn)
    BY <1>a, <2>3, <2>9, Zenon DEF Assembled, StillReceived
  <2>15. /\ read' \in [Ends -> Seq(Fragment)] /\ payload' \in [Ends -> Seq(Seq(Fragment))]
         /\ read' = read /\ payload' = payload /\ delivered' = delivered /\ sent' = sent
    BY <1>0, <1>b DEF TypeOK
  <2>16. /\ \A i \in DOMAIN read'[e] : read'[e][i] = sent[Other(e)][i]
         /\ Len(read'[e]) > 0 => read'[e][Len(read'[e])].frg = 0
         /\ Len(read'[e]) + Len(rcv_queue'[e]) = rcv_nxt'[e]
         /\ \A i \in DOMAIN rcv_queue'[e] :
              rcv_queue'[e][i] = sent[Other(e)][Len(read'[e]) + i]
    BY <1>0, <2>9, <2>12, <2>15, Zenon DEF Assembled, ReadOK
  <2> QED
    BY <2>9, <2>10, <2>13, <2>14, <2>15, <2>16, Zenon DEF RcvHalf, Assembled
<1>2. CASE ~(InWindow(e, seg.sn) /\ seg.sn >= rcv_nxt[e])
  <2>1. UNCHANGED rcvVars
    BY <1>2 DEF parse_data
  <2>2. RcvHalf(e)
    BY <2>1, NoRecvRcvHalf
  <2>3. InWindow(e, seg.sn) => StillReceived(e, seg.sn)
    BY <1>2, <1>a, <2>1 DEF StillReceived, rcvVars
  <2> QED
    BY <2>2, <2>3
<1> QED
  BY <1>1, <1>2

LEMMA InputSegmentStep ==
  ASSUME IInv, NEW e \in Ends, InputSegment(e)
  PROVE  IInv'
<1>0. /\ TypeOK /\ SndOK(e) /\ RcvOK(e) /\ RcvOK(Other(e)) /\ InputOK(e) /\ Other(e) \in Ends
  BY OtherEnd DEF IInv
<1> DEFINE segs == input[e].segs
           seg == Head(segs)
           left == parse_una(e, seg.una)
           buf == Restricted(snd_buf[e], left)
<1>1. /\ segs \in Seq(Segment) /\ segs # <<>>
  BY <1>0 DEF InputSegment, TypeOK
<1>2. /\ seg \in Segment /\ SegOK(e, seg) /\ Tail(segs) \in Seq(Segment)
      /\ \A i \in DOMAIN Tail(segs) : \E j \in DOMAIN segs : Tail(segs)[i] = segs[j]
  <2> HIDE DEF segs
  <2>1. /\ Len(segs) \in Nat \ {0} /\ DOMAIN segs = 1..Len(segs) /\ seg = segs[1]
        /\ seg \in Segment /\ Tail(segs) \in Seq(Segment) /\ Len(Tail(segs)) = Len(segs) - 1
        /\ DOMAIN Tail(segs) = 1..Len(Tail(segs))
        /\ \A i \in 1..Len(Tail(segs)) : Tail(segs)[i] = segs[i + 1]
    BY <1>1, HeadTailProperties, EmptySeq, LenProperties
  <2>2. SegOK(e, seg)
    BY <1>0, <2>1 DEF InputOK, segs
  <2>3. \A i \in DOMAIN Tail(segs) : i + 1 \in DOMAIN segs /\ Tail(segs)[i] = segs[i + 1]
    BY <2>1
  <2> QED
    BY <2>1, <2>2, <2>3, Zenon
<1>3. /\ rmt_wnd' = [rmt_wnd EXCEPT ![e] = seg.wnd]
      /\ shrink_buf(e, left)
      /\ snd_buf' = [snd_buf EXCEPT ![e] =
                       IF seg.cmd = "ACK" THEN parse_ack(buf, seg.sn) ELSE buf]
      /\ IF seg.cmd = "PUSH"
         THEN ack_push(e, seg.sn) /\ parse_data(e, seg)
         ELSE UNCHANGED <<acklist, rcvVars>>
      /\ UNCHANGED <<snd_queue, snd_nxt, probe_wait, userVars, net>>
  BY DEF InputSegment
<1>4. \E slid \in BOOLEAN :
        input' = [input EXCEPT ![e] = [busy |-> TRUE, segs |-> Tail(segs), slid |-> slid]]
  <2>1. input[e].slid \in BOOLEAN
    BY <1>0 DEF TypeOK
  <2> DEFINE slid == input[e].slid \/ left # DOMAIN snd_buf[e]
  <2>2. slid \in BOOLEAN
    OBVIOUS
  <2>3. input' = [input EXCEPT ![e] = [busy |-> TRUE, segs |-> Tail(segs), slid |-> slid]]
    BY DEF InputSegment
  <2> HIDE DEF slid
  <2> QED
    BY <2>2, <2>3
<1>5. probe' \in [Ends -> SUBSET {"SEND", "TELL"}]
  BY <1>0 DEF InputSegment, TypeOK
<1>6. /\ snd_una' \in [Ends -> Nat] /\ DOMAIN snd_buf' = Ends
      /\ \A x \in Ends : x # e => snd_una'[x] = snd_una[x] /\ snd_buf'[x] = snd_buf[x]
      /\ snd_una'[e] <= snd_nxt[e] /\ snd_una'[e] <= rcv_nxt[Other(e)]
      /\ snd_nxt[e] <= snd_una'[e] + SndWnd
      /\ DOMAIN snd_buf'[e] = snd_una'[e]..(snd_nxt[e] - 1)
      /\ snd_buf'[e] \in [DOMAIN snd_buf'[e] -> [frag : Fragment, acked : BOOLEAN]]
      /\ \A sn \in DOMAIN snd_buf'[e] :
           /\ snd_buf'[e][sn].frag = sent[e][sn + 1]
           /\ snd_buf'[e][sn].acked => Received(Other(e), sn)
  <2> HIDE DEF seg
  <2> QED
    BY <1>0, <1>2, <1>3, InputSndOK
<1>7. RcvHalf(e)
  <2>1. CASE seg.cmd = "PUSH"
    BY <1>2, <1>3, <2>1, ParseDataOK
  <2>2. CASE seg.cmd # "PUSH"
    BY <1>3, <2>2, NoRecvRcvHalf
  <2> QED
    BY <2>1, <2>2
<1>8. /\ acklist' \in [Ends -> Seq(Nat)]
      /\ \A x \in Ends : x # e => acklist'[x] = acklist[x]
      /\ \A i \in DOMAIN acklist'[e] :
           Received(e, acklist'[e][i]) \/ StillReceived(e, acklist'[e][i])
  <2>0. acklist \in [Ends -> Seq(Nat)] /\ acklist[e] \in Seq(Nat)
    BY <1>0 DEF TypeOK
  <2>1. CASE seg.cmd = "PUSH" /\ InWindow(e, seg.sn)
    <3>1. acklist' = [acklist EXCEPT ![e] = Append(acklist[e], seg.sn)]
      BY <1>3, <2>1 DEF ack_push
    <3>2. seg.sn \in Nat
      BY <1>2, <2>1 DEF Segment
    <3>3. StillReceived(e, seg.sn)
      BY <1>2, <1>3, <2>1, ParseDataOK
    <3> HIDE DEF seg
    <3>4. /\ Append(acklist[e], seg.sn) \in Seq(Nat)
          /\ DOMAIN Append(acklist[e], seg.sn) = 1..(Len(acklist[e]) + 1)
          /\ \A i \in 1..Len(acklist[e]) : Append(acklist[e], seg.sn)[i] = acklist[e][i]
          /\ Append(acklist[e], seg.sn)[Len(acklist[e]) + 1] = seg.sn
          /\ DOMAIN acklist[e] = 1..Len(acklist[e]) /\ Len(acklist[e]) \in Nat
      BY <2>0, <3>2, AppendProperties, LenProperties
    <3>5. acklist' \in [Ends -> Seq(Nat)] /\ acklist'[e] = Append(acklist[e], seg.sn)
          /\ \A x \in Ends : x # e => acklist'[x] = acklist[x]
      BY <2>0, <3>1, <3>4
    <3>6. \A i \in 1..(Len(acklist[e]) + 1) : i \in 1..Len(acklist[e]) \/ i = Len(acklist[e]) + 1
      BY <3>4
    <3>7. \A i \in DOMAIN acklist[e] : Received(e, acklist[e][i])
      BY <1>0 DEF RcvOK
    <3>8. \A i \in DOMAIN acklist'[e] :
            Received(e, acklist'[e][i]) \/ StillReceived(e, acklist'[e][i])
      BY <3>3, <3>4, <3>5, <3>6, <3>7, Zenon
    <3> QED
      BY <3>5, <3>8
  <2>2. CASE ~(seg.cmd = "PUSH" /\ InWindow(e, seg.sn))
    <3>1. acklist' = acklist
      BY <1>3, <2>2 DEF ack_push
    <3> QED
      BY <1>0, <2>0, <3>1, Zenon DEF RcvOK
  <2> QED
    BY <2>1, <2>2
<1>9. /\ input' \in [Ends -> [busy : BOOLEAN, segs : Seq(Segment), slid : BOOLEAN]]
      /\ \A x \in Ends : \A i \in DOMAIN input'[x].segs :
           \E j \in DOMAIN input[x].segs : input'[x].segs[i] = input[x].segs[j]
  <2>0. input \in [Ends -> [busy : BOOLEAN, segs : Seq(Segment), slid : BOOLEAN]]
    BY <1>0 DEF TypeOK
  <2>1. PICK slid \in BOOLEAN :
          input' = [input EXCEPT ![e] = [busy |-> TRUE, segs |-> Tail(segs), slid |-> slid]]
    BY <1>4
  <2>2. Tail(segs) \in Seq(Segment)
    BY <1>2
  <2>3. /\ input' \in [Ends -> [busy : BOOLEAN, segs : Seq(Segment), slid : BOOLEAN]]
        /\ input'[e].segs = Tail(segs)
        /\ \A x \in Ends : x # e => input'[x] = input[x]
    <3> HIDE DEF segs
    <3> QED
      BY <2>0, <2>1, <2>2
  <2>4. \A i \in DOMAIN Tail(segs) :
          \E j \in DOMAIN input[e].segs : Tail(segs)[i] = input[e].segs[j]
    BY <1>2
  <2>5. ASSUME NEW x \in Ends, NEW i \in DOMAIN input'[x].segs
        PROVE  \E j \in DOMAIN input[x].segs : input'[x].segs[i] = input[x].segs[j]
    <3>1. CASE x = e
      BY <2>3, <2>4, <3>1, Zenon
    <3>2. CASE x # e
      BY <2>3, <3>2, Zenon
    <3> QED
      BY <3>1, <3>2
  <2> QED
    BY <2>3, <2>5
<1>10. /\ UNCHANGED <<snd_queue, snd_nxt, probe_wait, net>>
  BY <1>3
<1>11. rmt_wnd' \in [Ends -> 0..RcvWnd]
  <2>1. seg.wnd \in 0..RcvWnd
    BY <1>2 DEF Segment
  <2>2. rmt_wnd \in [Ends -> 0..RcvWnd] /\ rmt_wnd' = [rmt_wnd EXCEPT ![e] = seg.wnd]
    BY <1>0, <1>3, Zenon DEF TypeOK
  <2> HIDE DEF seg
  <2> QED
    BY <2>1, <2>2
<1>12. SndHalf(e)
  <2>1. snd_nxt[e] \in Nat
    BY <1>0 DEF TypeOK
  <2>2. snd_nxt[e] <= snd_nxt[e]
    BY <2>1
  <2>3. /\ snd_queue' \in [Ends -> Seq(Fragment)] /\ snd_nxt' \in [Ends -> Nat]
        /\ probe_wait' \in [Ends -> BOOLEAN]
    BY <1>0, <1>10 DEF TypeOK
  <2> QED
    BY <1>0, <1>6, <1>8, <1>10, <1>11, <2>2, <2>3, Zenon DEF SndHalf, SndOK
<1> QED
  BY <1>5, <1>7, <1>9, <1>12, HalvesStep

-----------------------------------------------------------------------------
(* The theorems.                                                           *)

\* Two connected sessions that have sent nothing yet satisfy the invariant.
LEMMA Initially == Init => IInv
<1> SUFFICES ASSUME Init PROVE IInv
  OBVIOUS
<1>1. TypeOK
  BY KcpConstants, EmptySeq DEF Init, TypeOK, NoSegs, Idle
<1>2. ASSUME NEW e \in Ends
      PROVE  StreamOK(sent[e]) /\ SndOK(e) /\ RcvOK(e) /\ ReadOK(e) /\ InputOK(e) /\ UserOK(e)
  <2>1. /\ Other(e) \in Ends
        /\ sent[e] = <<>> /\ snd_queue[e] = <<>> /\ rcv_queue[e] = <<>> /\ read[e] = <<>>
        /\ acklist[e] = <<>> /\ payload[e] = <<>> /\ delivered[e] = <<>> /\ input[e] = Idle
        /\ snd_una[e] = 0 /\ snd_nxt[e] = 0 /\ rcv_nxt[e] = 0
        /\ DOMAIN snd_buf[e] = {} /\ DOMAIN rcv_buf[e] = {}
    BY OtherEnd DEF Init, NoSegs
  <2>2. rcv_nxt[Other(e)] = 0 /\ snd_nxt[Other(e)] = 0
    BY <2>1 DEF Init
  <2>3. DOMAIN << >> = {} /\ Len(<< >>) = 0
    OBVIOUS
  <2>4. StreamOK(sent[e])
    BY <2>1, <2>3 DEF StreamOK
  <2>5. SndOK(e)
    BY <2>1, <2>2, <2>3, KcpConstants DEF SndOK
  <2>6. RcvOK(e)
    BY <2>1, <2>2, <2>3 DEF RcvOK
  <2>7. ReadOK(e)
    BY <2>1, <2>3 DEF ReadOK
  <2>8. InputOK(e)
    BY <2>1, <2>3 DEF InputOK, Idle
  <2>9. UserOK(e)
    <3>1. Got(e) = <<>>
      BY <2>1 DEF Got
    <3> QED
      BY <2>3, <3>1 DEF UserOK
  <2> QED
    BY <2>4, <2>5, <2>6, <2>7, <2>8, <2>9
<1>3. NetOK
  BY DEF Init, NetOK
<1> QED
  BY <1>1, <1>2, <1>3 DEF IInv

LEMMA Stutter == IInv /\ UNCHANGED vars => IInv'
<1> SUFFICES ASSUME IInv, UNCHANGED vars PROVE IInv'
  OBVIOUS
<1>0. UNCHANGED <<snd_queue, snd_buf, snd_una, snd_nxt, rmt_wnd, probe_wait, probe,
                  rcv_queue, rcv_buf, rcv_nxt, acklist, payload, sent, read, delivered,
                  input, net>>
  BY DEF vars, sndVars, rcvVars, userVars
<1>1. PICK e : e \in Ends
  BY DEF Ends
<1>2. SndHalf(e)
  BY <1>0, <1>1, NoFlushSndHalf DEF NoFlush, sndVars
<1>3. RcvHalf(e)
  BY <1>0, <1>1, NoRecvRcvHalf DEF rcvVars, userVars
<1>4. /\ probe' \in [Ends -> SUBSET {"SEND", "TELL"}]
      /\ input' \in [Ends -> [busy : BOOLEAN, segs : Seq(Segment), slid : BOOLEAN]]
  BY <1>0 DEF IInv, TypeOK
<1> QED
  BY <1>0, <1>1, <1>2, <1>3, <1>4, HalvesStep

LEMMA Inductive == IInv /\ [Next]_vars => IInv'
<1> SUFFICES ASSUME IInv, [Next]_vars PROVE IInv'
  OBVIOUS
<1>1. CASE UNCHANGED vars
  BY <1>1, Stutter
<1>2. ASSUME NEW e \in Ends, NEW count \in 1..MaxFrags, SendPayload(e, count)
      PROVE  IInv'
  <2>1. count \in Nat
    BY KcpConstants
  <2> QED
    BY <1>2, <2>1, SendPayloadStep
<1>3. ASSUME NEW e \in Ends, NEW d \in net, NEW again \in {Duplication, FALSE},
             onSegmentData(e, d, again)
      PROVE  IInv'
  <2>1. again \in BOOLEAN
    BY KcpConstants
  <2> QED
    BY <1>3, <2>1, OnSegmentDataStep
<1>4. ASSUME NEW e \in Ends, InputSegment(e) PROVE IInv'
  BY <1>4, InputSegmentStep
<1>5. ASSUME NEW e \in Ends, InputReturn(e) PROVE IInv'
  BY <1>5, InputReturnStep
<1>6. ASSUME NEW e \in Ends, UpdateFlush(e) \/ UpdateOnly(e) PROVE IInv'
  BY <1>6, UpdateStep
<1>7. ASSUME NEW e \in Ends, Payload(e) PROVE IInv'
  BY <1>7, PayloadStep
<1> QED
  BY <1>1, <1>2, <1>3, <1>4, <1>5, <1>6, <1>7 DEF Next

\* IInv holds in every reachable state of two sessions.
THEOREM Invariance == Spec => []IInv
<1>1. Init => IInv
  BY Initially
<1>2. IInv /\ [Next]_vars => IInv'
  BY Inductive
<1> QED
  BY <1>1, <1>2, PTL DEF Spec

\* The variables of both control blocks keep their types: in particular the
\* window that wnd_unused advertises never leaves 0..RcvWnd.
THEOREM TypeCorrect == Spec => []TypeOK
<1>1. IInv => TypeOK
  BY DEF IInv
<1> QED
  BY <1>1, Invariance, PTL

LEMMA ReadIsPrefix ==
  ASSUME NEW s \in Seq(Fragment), NEW r \in Seq(Fragment), NEW q \in Seq(Fragment),
         ReadSoFar(s, r, q)
  PROVE  /\ Len(r) + Len(q) <= Len(s)
         /\ r \o q = SubSeq(s, 1, Len(r) + Len(q))
<1>1. Len(r) \in Nat /\ Len(q) \in Nat /\ Len(s) \in Nat
  BY LenProperties
<1>2. /\ Len(r) + Len(q) <= Len(s)
      /\ \A i \in 1..Len(r) : r[i] = s[i]
      /\ \A i \in 1..Len(q) : q[i] = s[Len(r) + i]
  BY DEF ReadSoFar
<1> DEFINE n == Len(r) + Len(q)
           p == SubSeq(s, 1, n)
<1>3. /\ r \o q \in Seq(Fragment) /\ Len(r \o q) = n
      /\ \A i \in 1..n : (r \o q)[i] = IF i <= Len(r) THEN r[i] ELSE q[i - Len(r)]
  BY ConcatProperties
<1>4. n \in Nat /\ n <= Len(s)
  BY <1>1, <1>2
<1> HIDE DEF n
<1>5. /\ p \in Seq(Fragment) /\ Len(p) = n /\ \A i \in 1..n : p[i] = s[i]
  <2>1. \A i \in 1..n : s[i] \in Fragment
    BY <1>1, <1>4, ElementOfSeq
  <2>2. /\ p \in Seq(Fragment) /\ Len(p) = (IF 1 <= n THEN n - 1 + 1 ELSE 0)
        /\ \A i \in 1..(n - 1 + 1) : p[i] = s[1 + i - 1]
    BY <1>1, <1>4, <2>1, SubSeqProperties
  <2> HIDE DEF p
  <2>3. Len(p) = n
    BY <1>4, <2>2
  <2>4. \A i \in 1..n : i \in 1..(n - 1 + 1) /\ 1 + i - 1 = i
    BY <1>4
  <2> QED
    BY <2>2, <2>3, <2>4, Zenon
<1>6. ASSUME NEW i \in 1..n
      PROVE  (r \o q)[i] = s[i]
  <2>1. CASE i <= Len(r)
    BY <1>1, <1>2, <1>3, <2>1
  <2>2. CASE ~(i <= Len(r))
    <3>1. i - Len(r) \in 1..Len(q) /\ Len(r) + (i - Len(r)) = i
      BY <1>1, <2>2 DEF n
    <3>2. (r \o q)[i] = q[i - Len(r)]
      BY <1>3, <2>2, Zenon
    <3>3. q[i - Len(r)] = s[Len(r) + (i - Len(r))]
      BY <1>2, <3>1
    <3> QED
      BY <3>1, <3>2, <3>3, Zenon
  <2> QED
    BY <2>1, <2>2
<1> HIDE DEF p
<1>7. r \o q = p
  <2>1. Len(r \o q) = Len(p) /\ \A i \in 1..Len(r \o q) : (r \o q)[i] = p[i]
    BY <1>3, <1>5, <1>6, Zenon
  <2> QED
    BY <1>3, <1>5, <2>1, SeqEqual, Zenon
<1> QED
  BY <1>2, <1>7, Zenon DEF p, n

LEMMA PartsOfConcat ==
  ASSUME NEW x \in Seq(Seq(Fragment)), NEW y \in Seq(Seq(Fragment))
  PROVE  /\ \A j \in DOMAIN x : j \in DOMAIN (x \o y) /\ (x \o y)[j] = x[j]
         /\ \A j \in DOMAIN y : /\ Len(x) + j \in DOMAIN (x \o y)
                                /\ (x \o y)[Len(x) + j] = y[j]
<1> DEFINE M == Seq(Fragment)
<1> HIDE DEF M
<1>0. x \in Seq(M) /\ y \in Seq(M)
  BY DEF M
<1>1. /\ x \o y \in Seq(M) /\ Len(x \o y) = Len(x) + Len(y)
      /\ \A i \in 1..(Len(x) + Len(y)) : (x \o y)[i] = IF i <= Len(x) THEN x[i] ELSE y[i - Len(x)]
      /\ Len(x) \in Nat /\ Len(y) \in Nat /\ DOMAIN x = 1..Len(x) /\ DOMAIN y = 1..Len(y)
  BY <1>0, ConcatProperties, LenProperties
<1>2. DOMAIN (x \o y) = 1..Len(x \o y)
  BY <1>1, LenProperties
<1>3. DOMAIN (x \o y) = 1..(Len(x) + Len(y))
  BY <1>1, <1>2, Zenon
<1>4. ASSUME NEW j \in DOMAIN x
      PROVE  j \in DOMAIN (x \o y) /\ (x \o y)[j] = x[j]
  <2>1. j \in 1..(Len(x) + Len(y)) /\ j <= Len(x)
    BY <1>1
  <2> QED
    BY <1>1, <1>3, <2>1, Zenon
<1>5. ASSUME NEW j \in DOMAIN y
      PROVE  Len(x) + j \in DOMAIN (x \o y) /\ (x \o y)[Len(x) + j] = y[j]
  <2>1. Len(x) + j \in 1..(Len(x) + Len(y)) /\ ~(Len(x) + j <= Len(x)) /\ (Len(x) + j) - Len(x) = j
    BY <1>1
  <2>2. (x \o y)[Len(x) + j] = y[(Len(x) + j) - Len(x)]
    BY <1>1, <2>1, Zenon
  <2> QED
    BY <1>3, <2>1, <2>2, Zenon
<1> QED
  BY <1>4, <1>5

\* Nothing is forgotten or marked before the receiver holds it.
THEOREM AckedIsReceivedHolds == Spec => []AckedIsReceived
<1>1. IInv => AckedIsReceived
  <2> SUFFICES ASSUME IInv, NEW e \in Ends
               PROVE  /\ \A sn \in 0..(snd_nxt[e] - 1) :
                           sn \notin DOMAIN snd_buf[e] => Received(Other(e), sn)
                      /\ \A sn \in DOMAIN snd_buf[e] :
                           snd_buf[e][sn].acked => Received(Other(e), sn)
    BY DEF AckedIsReceived
  <2>1. TypeOK /\ SndOK(e) /\ Other(e) \in Ends
    BY OtherEnd DEF IInv
  <2>2. /\ snd_una[e] \in Nat /\ snd_nxt[e] \in Nat /\ rcv_nxt[Other(e)] \in Nat
        /\ snd_una[e] <= rcv_nxt[Other(e)]
        /\ DOMAIN snd_buf[e] = snd_una[e]..(snd_nxt[e] - 1)
    BY <2>1 DEF TypeOK, SndOK
  <2>3. \A sn \in 0..(snd_nxt[e] - 1) :
          sn \notin DOMAIN snd_buf[e] => sn < rcv_nxt[Other(e)]
    BY <2>2
  <2> QED
    BY <2>1, <2>3, Zenon DEF SndOK, Received
<1> QED
  BY <1>1, Invariance, PTL

\* Input never discards a segment for lying beyond its window: the sender's
\* window is no larger than the receiver's, whatever became of rmt_wnd.
THEOREM NoneBeyondWindowHolds == Spec => []NoneBeyondWindow
<1>1. IInv => NoneBeyondWindow
  <2> SUFFICES ASSUME IInv, NEW d \in net, NEW i \in DOMAIN d.segs, d.segs[i].cmd = "PUSH"
               PROVE  InWindow(d.to, d.segs[i].sn)
    BY DEF NoneBeyondWindow
  <2>1. TypeOK /\ NetOK /\ d \in Datagram
    BY DEF IInv, TypeOK
  <2>2. d.to \in Ends /\ d.segs \in Seq(Segment)
    BY <2>1 DEF Datagram
  <2> DEFINE e == d.to
             o == Other(d.to)
             seg == d.segs[i]
  <2>3. seg \in Segment
    BY <2>2, LenProperties, ElementOfSeq
  <2>4. seg.sn \in Nat /\ seg.sn < snd_nxt[o]
    BY <2>1, <2>3 DEF NetOK, SegOK, Segment
  <2>5. o \in Ends /\ Other(o) = e
    BY <2>2, OtherEnd
  <2>6. snd_nxt[o] <= snd_una[o] + SndWnd /\ snd_una[o] <= rcv_nxt[e]
    BY <2>5 DEF IInv, SndOK
  <2>7. /\ snd_nxt[o] \in Nat /\ snd_una[o] \in Nat /\ rcv_nxt[e] \in Nat
        /\ SndWnd \in Nat /\ RcvWnd \in Nat /\ SndWnd <= RcvWnd
    BY <2>1, <2>2, <2>5, KcpConstants DEF TypeOK
  <2> HIDE DEF e, o, seg
  <2>8. seg.sn < rcv_nxt[e] + RcvWnd
    BY <2>4, <2>6, <2>7
  <2> QED
    BY <2>8 DEF InWindow, e, seg
<1> QED
  BY <1>1, Invariance, PTL

\* What was read and what waits in rcv_queue is a prefix of what was sent.
THEOREM InOrderHolds == Spec => []InOrder
<1>1. IInv => InOrder
  <2> SUFFICES ASSUME IInv, NEW e \in Ends
               PROVE  /\ rcv_nxt[e] <= Len(sent[Other(e)])
                      /\ read[e] \o rcv_queue[e] = Prefix(sent[Other(e)], rcv_nxt[e])
    BY DEF InOrder
  <2> DEFINE s == sent[Other(e)]
  <2>1. /\ TypeOK /\ ReadOK(e) /\ RcvOK(e) /\ SndOK(Other(e)) /\ Other(e) \in Ends
        /\ ReadSoFar(s, read[e], rcv_queue[e])
    BY OtherEnd, ReadSoFarOK DEF IInv
  <2>2. /\ s \in Seq(Fragment) /\ read[e] \in Seq(Fragment) /\ rcv_queue[e] \in Seq(Fragment)
        /\ rcv_nxt[e] \in Nat
    BY <2>1 DEF TypeOK
  <2>3. Len(read[e]) + Len(rcv_queue[e]) = rcv_nxt[e]
    BY <2>1 DEF ReadOK
  <2> HIDE DEF s
  <2>4. /\ Len(read[e]) + Len(rcv_queue[e]) <= Len(s)
        /\ read[e] \o rcv_queue[e] = SubSeq(s, 1, Len(read[e]) + Len(rcv_queue[e]))
    BY <2>1, <2>2, ReadIsPrefix
  <2> QED
    BY <2>3, <2>4, Zenon DEF Prefix, s
<1> QED
  BY <1>1, Invariance, PTL

\* What waits for Payload and what it has returned are messages as sent.
THEOREM WholeMessagesHolds == Spec => []WholeMessages
<1>1. IInv => WholeMessages
  <2> SUFFICES ASSUME IInv, NEW e \in Ends, NEW q \in {payload[e], delivered[e]},
                      NEW i \in DOMAIN q
               PROVE  q[i] = Split(q[i][1].msg, Len(q[i]))
    BY DEF WholeMessages
  <2>1. UserOK(e) /\ payload[e] \in Seq(Seq(Fragment)) /\ delivered[e] \in Seq(Seq(Fragment))
    BY DEF IInv, TypeOK
  <2>2. \E j \in DOMAIN Got(e) : Got(e)[j] = q[i]
    <3>1. \A x, y \in Seq(Seq(Fragment)) :
            /\ \A j \in DOMAIN x : j \in DOMAIN (x \o y) /\ (x \o y)[j] = x[j]
            /\ \A j \in DOMAIN y : Len(x) + j \in DOMAIN (x \o y) /\ (x \o y)[Len(x) + j] = y[j]
      BY PartsOfConcat
    <3>2. CASE q = delivered[e]
      BY <2>1, <3>1, <3>2, Zenon DEF Got
    <3>3. CASE q = payload[e]
      BY <2>1, <3>1, <3>3, Zenon DEF Got
    <3> QED
      BY <3>2, <3>3
  <2> QED
    BY <2>1, <2>2, Zenon DEF UserOK
<1> QED
  BY <1>1, Invariance, PTL

\* Messages reach the consumer in the order they were sent, none twice.
THEOREM DeliveredInOrderHolds == Spec => []DeliveredInOrder
<1>1. IInv => DeliveredInOrder
  BY Zenon DEF IInv, UserOK, Got, DeliveredInOrder
<1> QED
  BY <1>1, Invariance, PTL


-----------------------------------------------------------------------------
(* The advertised window, on a path that keeps the order.                  *)

\* Assemble never fills rcv_queue beyond its capacity.
LEMMA AssembleFits ==
  ASSUME TypeOK, NEW e \in Ends, NEW buf, NEW queue \in Seq(Fragment),
         DOMAIN buf \subseteq Nat, buf \in [DOMAIN buf -> Fragment],
         Assemble(e, buf, queue), Len(queue) <= RcvWnd
  PROVE  /\ Len(rcv_queue'[e]) <= RcvWnd
         /\ \A x \in Ends : x # e => rcv_queue'[x] = rcv_queue[x]
<1>1. PICK n, q, b : Moved(e, buf, queue, n, q, b)
  BY AssembleEffect
<1>2. /\ n \in Nat /\ Len(q) = Len(queue) + n /\ (n > 0 => Len(queue) + n <= RcvWnd)
      /\ rcv_queue' = [rcv_queue EXCEPT ![e] = q]
  BY <1>1 DEF Moved
<1>3. /\ rcv_queue'[e] = q
      /\ \A x \in Ends : x # e => rcv_queue'[x] = rcv_queue[x]
  BY <1>2 DEF TypeOK
<1>4. Len(queue) \in Nat /\ RcvWnd \in Nat
  BY LenProperties, KcpConstants
<1>5. Len(q) <= RcvWnd
  <2>1. CASE n > 0
    BY <1>2, <2>1
  <2>2. CASE n = 0
    BY <1>2, <1>4, <2>2
  <2> QED
    BY <1>2, <2>1, <2>2
<1> QED
  BY <1>3, <1>5

\* Nor does Input, whatever segment it meets.
LEMMA ParseFits ==
  ASSUME IInv, NEW e \in Ends, Len(rcv_queue[e]) <= RcvWnd,
         NEW seg \in Segment, seg.cmd = "PUSH", parse_data(e, seg)
  PROVE  /\ Len(rcv_queue'[e]) <= RcvWnd
         /\ \A x \in Ends : x # e => rcv_queue'[x] = rcv_queue[x]
<1>1. CASE InWindow(e, seg.sn) /\ seg.sn >= rcv_nxt[e]
  <2> DEFINE buf == [sn \in DOMAIN rcv_buf[e] \cup {seg.sn} |->
                       IF sn \in DOMAIN rcv_buf[e] THEN rcv_buf[e][sn] ELSE seg.frag]
  <2>1. Assemble(e, buf, rcv_queue[e])
    BY <1>1 DEF parse_data
  <2>2. /\ TypeOK /\ DOMAIN rcv_buf[e] \subseteq Nat /\ rcv_queue[e] \in Seq(Fragment)
        /\ rcv_buf[e] \in [DOMAIN rcv_buf[e] -> Fragment]
        /\ seg.sn \in Nat /\ seg.frag \in Fragment
    BY DEF IInv, TypeOK, Segment
  <2>3. DOMAIN buf \subseteq Nat /\ buf \in [DOMAIN buf -> Fragment]
    BY <2>2
  <2> HIDE DEF buf
  <2> QED
    BY <2>1, <2>2, <2>3, AssembleFits
<1>2. CASE ~(InWindow(e, seg.sn) /\ seg.sn >= rcv_nxt[e])
  BY <1>2 DEF parse_data, rcvVars
<1> QED
  BY <1>1, <1>2

\* A delivery takes from rcv_queue and adds to what was read.
LEMMA DeliverFits ==
  ASSUME IInv, NEW e \in Ends, Len(rcv_queue[e]) <= RcvWnd, NEW before, Deliver(e, before)
  PROVE  /\ Len(rcv_queue'[e]) <= RcvWnd
         /\ \A x \in Ends : x # e => rcv_queue'[x] = rcv_queue[x]
         /\ \A x \in Ends : Len(read[x]) <= Len(read'[x])
         /\ input' = input
<1>0. /\ TypeOK /\ rcv_queue[e] \in Seq(Fragment) /\ read \in [Ends -> Seq(Fragment)]
      /\ DOMAIN rcv_buf[e] \subseteq Nat /\ rcv_buf[e] \in [DOMAIN rcv_buf[e] -> Fragment]
  BY DEF IInv, TypeOK
<1>a. /\ Len(rcv_queue[e]) \in Nat /\ DOMAIN rcv_queue[e] = 1..Len(rcv_queue[e])
      /\ \A i \in 1..Len(rcv_queue[e]) : rcv_queue[e][i] \in Fragment
      /\ \A x \in Ends : Len(read[x]) \in Nat
  BY <1>0, LenProperties, ElementOfSeq
<1>1. CASE Readable(e)
  <2> DEFINE q == rcv_queue[e]
  <2>1. PICK n \in FirstMessage(q) :
          /\ Assemble(e, rcv_buf[e], SubSeq(q, n + 1, Len(q)))
          /\ read' = [read EXCEPT ![e] = @ \o SubSeq(q, 1, n)]
    BY <1>1 DEF Deliver, Recv
  <2>2. n \in 1..Len(q)
    BY <1>a DEF FirstMessage
  <2> HIDE DEF q
  <2>3. q = rcv_queue[e]
    BY DEF q
  <2> DEFINE t == SubSeq(q, n + 1, Len(q))
             m == SubSeq(q, 1, n)
  <2>4. \A i \in (n + 1)..Len(q) : q[i] \in Fragment
    BY <1>a, <2>2, <2>3
  <2>5. \A i \in 1..n : q[i] \in Fragment
    BY <1>a, <2>2, <2>3
  <2>a. n + 1 \in Int /\ Len(q) \in Int /\ 1 \in Int /\ n \in Int /\ Len(q) \in Nat
    BY <1>a, <2>2, <2>3
  <2>6. /\ t \in Seq(Fragment)
        /\ Len(t) = IF n + 1 <= Len(q) THEN Len(q) - (n + 1) + 1 ELSE 0
    BY <2>4, <2>a, SubSeqProperties
  <2>7. m \in Seq(Fragment)
    BY <2>5, <2>a, SubSeqProperties
  <2> HIDE DEF t, m
  <2>8. Len(t) <= RcvWnd
    BY <1>a, <2>2, <2>3, <2>6, KcpConstants
  <2>9. Assemble(e, rcv_buf[e], t) /\ read' = [read EXCEPT ![e] = @ \o m]
    BY <2>1 DEF t, m
  <2>10. Len(read[e]) <= Len(read[e] \o m)
    BY <1>0, <1>a, <2>7, ConcatProperties, LenProperties
  <2>11. \A x \in Ends : Len(read[x]) <= Len(read'[x])
    <3> SUFFICES ASSUME NEW x \in Ends
                 PROVE  Len(read[x]) <= Len(read'[x])
      OBVIOUS
    <3>1. CASE x = e
      BY <1>0, <2>9, <2>10, <3>1
    <3>2. CASE x # e
      BY <1>0, <1>a, <2>9, <3>2
    <3> QED
      BY <3>1, <3>2
  <2>12. input' = input
    BY <1>1 DEF Deliver
  <2> QED
    BY <1>0, <2>6, <2>8, <2>9, <2>11, <2>12, AssembleFits
<1>2. CASE ~Readable(e)
  <2>1. UNCHANGED <<rcv_queue, read, input>>
    BY <1>2 DEF Deliver, rcvVars, userVars
  <2> QED
    BY <1>a, <2>1
<1> QED
  BY <1>1, <1>2

LEMMA Room ==
  ASSUME NEW l \in Nat, NEW q \in Nat, NEW w \in Nat, q <= w
  PROVE  l + q + (IF q < w THEN w - q ELSE 0) <= l + w
<1>1. CASE q < w
  BY <1>1
<1>2. CASE q = w
  BY <1>2
<1> QED
  BY <1>1, <1>2

\* What a flush of f writes is no older than anything the other end has seen
\* or has yet to see, and promises what f has room for.
LEMMA EmittedIsFresh ==
  ASSUME IInv, NEW f \in Ends, Len(rcv_queue[f]) <= RcvWnd,
         NEW seg, Emitted(f, seg)
  PROVE  /\ Fresh(Other(f), seg)
         /\ \A j \in DOMAIN input[Other(f)].segs : input[Other(f)].segs[j].una <= seg.una
<1> DEFINE e == Other(f)
<1>1. e \in Ends /\ Other(e) = f
  BY OtherEnd
<1> HIDE DEF e
<1>2. seg.una = rcv_nxt[f] /\ seg.wnd = wnd_unused(f)
  BY DEF Emitted
<1>3. snd_una[e] <= rcv_nxt[f]
  BY <1>1 DEF IInv, SndOK
<1>4. \A j \in DOMAIN input[e].segs : input[e].segs[j].una <= rcv_nxt[f]
  BY <1>1 DEF IInv, InputOK, SegOK
<1>5. /\ Len(read[f]) + Len(rcv_queue[f]) = rcv_nxt[f]
      /\ Len(read[f]) \in Nat /\ Len(rcv_queue[f]) \in Nat /\ RcvWnd \in Nat
  <2>1. read[f] \in Seq(Fragment) /\ rcv_queue[f] \in Seq(Fragment) /\ ReadOK(f)
    BY DEF IInv, TypeOK
  <2> QED
    BY <2>1, LenProperties, KcpConstants DEF ReadOK
<1>6. rcv_nxt[f] + wnd_unused(f) <= Len(read[f]) + RcvWnd
  BY <1>5, Room DEF wnd_unused
<1>7. Fresh(e, seg)
  BY <1>1, <1>2, <1>3, <1>6 DEF Fresh
<1> QED
  BY <1>2, <1>4, <1>7 DEF e

\* The steps that hand nothing to Input: f may flush, and what was read grows.
LEMMA WindowKept ==
  ASSUME IInv, WInv, NEW f \in Ends, TypeOK',
         snd_una' = snd_una, rmt_wnd' = rmt_wnd,
         \A x \in Ends : Len(read[x]) <= Len(read'[x]),
         \A x \in Ends : Len(rcv_queue'[x]) <= RcvWnd,
         \A x \in Ends : input'[x].segs = input[x].segs,
         \A d \in net' : \/ d \in net
                         \/ /\ d.to = Other(f)
                            /\ \A i \in DOMAIN d.segs : Emitted(f, d.segs[i])
  PROVE  WInv'
<1> SUFFICES ASSUME NEW e \in Ends
             PROVE  WindowOK(e)'
  BY DEF WInv
<1>1. Other(e) \in Ends /\ WindowOK(e) /\ Len(rcv_queue[f]) <= RcvWnd /\ TypeOK
  BY OtherEnd DEF WInv, WindowOK, IInv
<1>2. /\ Len(read[Other(e)]) \in Nat /\ Len(read'[Other(e)]) \in Nat /\ RcvWnd \in Nat
      /\ Len(read[Other(e)]) <= Len(read'[Other(e)])
      /\ snd_una[e] \in Nat /\ rmt_wnd[e] \in Nat
  <2>1. read[Other(e)] \in Seq(Fragment) /\ read'[Other(e)] \in Seq(Fragment)
    BY <1>1 DEF TypeOK
  <2>2. RcvWnd \in Nat /\ snd_una[e] \in Nat /\ rmt_wnd[e] \in Nat
    BY <1>1, KcpConstants DEF TypeOK
  <2> QED
    BY <1>1, <2>1, <2>2, LenProperties
<1>3. ASSUME NEW seg \in Segment, Fresh(e, seg)
      PROVE  /\ snd_una'[e] <= seg.una
             /\ seg.una + seg.wnd <= Len(read'[Other(e)]) + RcvWnd
  <2>1. seg.una \in Nat /\ seg.wnd \in Nat
    BY <1>2 DEF Segment
  <2> QED
    BY <1>2, <1>3, <2>1 DEF Fresh
<1>4. snd_una'[e] + rmt_wnd'[e] <= Len(read'[Other(e)]) + RcvWnd
  BY <1>1, <1>2 DEF WindowOK
<1>5. ASSUME NEW i \in DOMAIN input'[e].segs
      PROVE  Fresh(e, input[e].segs[i])'
  <2>1. input'[e].segs = input[e].segs /\ input[e].segs \in Seq(Segment)
    BY <1>1 DEF TypeOK
  <2>2. input[e].segs[i] \in Segment
    BY <2>1, LenProperties, ElementOfSeq
  <2>3. Fresh(e, input[e].segs[i])
    BY <1>1, <2>1 DEF WindowOK
  <2> QED
    BY <1>3, <2>1, <2>2, <2>3 DEF Fresh
<1>6. OneFlush(input[e].segs)'
  BY <1>1 DEF WindowOK, OneFlush
<1>7. ASSUME NEW d \in net', d.to = e
      PROVE  /\ OneFlush(d.segs)
             /\ \A i \in DOMAIN d.segs :
                  /\ Fresh(e, d.segs[i])
                  /\ \A j \in DOMAIN input[e].segs : input[e].segs[j].una <= d.segs[i].una
  <2>1. CASE d \in net
    <3>1. d \in InFlight(e, net)
      BY <1>7, <2>1 DEF InFlight
    <3> QED
      BY <1>1, <3>1 DEF WindowOK
  <2>2. CASE d.to = Other(f) /\ \A i \in DOMAIN d.segs : Emitted(f, d.segs[i])
    <3>1. OneFlush(d.segs)
      BY <2>2 DEF OneFlush, Emitted
    <3> QED
      BY <1>1, <1>7, <2>2, <3>1, EmittedIsFresh
  <2> QED
    BY <2>1, <2>2
<1>8. ASSUME NEW d \in InFlight(e, net)'
      PROVE  /\ OneFlush(d.segs)
             /\ \A i \in DOMAIN d.segs :
                  /\ Fresh(e, d.segs[i])'
                  /\ \A j \in DOMAIN input'[e].segs : input'[e].segs[j].una <= d.segs[i].una
  <2>1. d \in net' /\ d.to = e
    BY DEF InFlight
  <2>2. d.segs \in Seq(Segment)
    BY <2>1 DEF TypeOK, Datagram
  <2>3. \A i \in DOMAIN d.segs : d.segs[i] \in Segment
    BY <2>2, LenProperties, ElementOfSeq
  <2>4. \A i \in DOMAIN d.segs : Fresh(e, d.segs[i])'
    BY <1>3, <1>7, <2>1, <2>3 DEF Fresh
  <2>5. input'[e].segs = input[e].segs
    OBVIOUS
  <2> QED
    BY <1>7, <2>1, <2>4, <2>5
<1>9. Len(rcv_queue'[e]) <= RcvWnd
  OBVIOUS
<1> QED
  BY <1>4, <1>5, <1>6, <1>8, <1>9 DEF WindowOK

\* A flush, and then perhaps a delivery.
LEMMA FlushKeepsWindow ==
  ASSUME IInv, WInv, TypeOK', NEW e \in Ends, AnyFlush(e) \/ NoFlush,
         \A x \in Ends : Len(read[x]) <= Len(read'[x]),
         \A x \in Ends : Len(rcv_queue'[x]) <= RcvWnd,
         \A x \in Ends : input'[x].segs = input[x].segs
  PROVE  WInv'
<1>1. TypeOK /\ SndOK(e) /\ RcvOK(e)
  BY DEF IInv
<1>2. CASE AnyFlush(e)
  <2>1. PICK due \in SUBSET Unacked(e), asking \in BOOLEAN : Flush(e, due, asking, FALSE)
    BY <1>2 DEF AnyFlush
  <2>2. /\ snd_una' = snd_una /\ rmt_wnd' = rmt_wnd
        /\ \A d \in net' : \/ d \in net
                           \/ /\ d \in Datagram /\ d.to = Other(e)
                              /\ \A i \in DOMAIN d.segs : Emitted(e, d.segs[i])
    BY <1>1, <2>1, FlushEffect
  <2> QED
    BY <2>2, WindowKept
<1>3. CASE NoFlush
  <2>1. snd_una' = snd_una /\ rmt_wnd' = rmt_wnd /\ net' = net
    BY <1>3 DEF NoFlush, sndVars
  <2> QED
    BY <2>1, WindowKept
<1> QED
  BY <1>2, <1>3

LEMMA UpdateKeepsWindow ==
  ASSUME IInv, WInv, TypeOK', NEW e \in Ends, UpdateFlush(e) \/ UpdateOnly(e)
  PROVE  WInv'
<1>1. PICK before : Deliver(e, before)
  BY DEF UpdateFlush, UpdateOnly
<1>2. \A x \in Ends : Len(rcv_queue[x]) <= RcvWnd
  BY DEF WInv, WindowOK
<1>3. /\ Len(rcv_queue'[e]) <= RcvWnd
      /\ \A x \in Ends : x # e => rcv_queue'[x] = rcv_queue[x]
      /\ \A x \in Ends : Len(read[x]) <= Len(read'[x])
      /\ input' = input
  BY <1>1, <1>2, DeliverFits
<1>4. /\ \A x \in Ends : Len(rcv_queue'[x]) <= RcvWnd
      /\ \A x \in Ends : input'[x].segs = input[x].segs
  BY <1>2, <1>3
<1>5. AnyFlush(e) \/ NoFlush
  BY DEF UpdateFlush, UpdateOnly
<1> QED
  BY <1>3, <1>4, <1>5, FlushKeepsWindow

\* The steps that leave the receiving half and Input alone.
LEMMA SameReader ==
  ASSUME IInv, WInv, UNCHANGED <<rcv_queue, read>>
  PROVE  /\ \A x \in Ends : Len(read[x]) <= Len(read'[x])
         /\ \A x \in Ends : Len(rcv_queue'[x]) <= RcvWnd
<1>1. \A x \in Ends : Len(read[x]) \in Nat
  <2>1. \A x \in Ends : read[x] \in Seq(Fragment)
    BY DEF IInv, TypeOK
  <2> QED
    BY <2>1, LenProperties
<1>2. \A x \in Ends : Len(rcv_queue[x]) <= RcvWnd
  BY DEF WInv, WindowOK
<1> QED
  BY <1>1, <1>2

LEMMA InputReturnKeepsWindow ==
  ASSUME IInv, WInv, TypeOK', NEW e \in Ends, InputReturn(e)
  PROVE  WInv'
<1>1. UNCHANGED <<rcv_queue, read>>
  BY DEF InputReturn, rcvVars, userVars
<1>2. \A x \in Ends : input'[x].segs = input[x].segs
  <2>1. /\ input \in [Ends -> [busy : BOOLEAN, segs : Seq(Segment), slid : BOOLEAN]]
        /\ input' = [input EXCEPT ![e] = Idle] /\ input[e].segs = <<>> /\ Idle.segs = <<>>
    BY DEF IInv, TypeOK, InputReturn, Idle
  <2> HIDE DEF Idle
  <2> QED
    BY <2>1
<1>3. AnyFlush(e) \/ NoFlush
  BY DEF InputReturn
<1> QED
  BY <1>1, <1>2, <1>3, SameReader, FlushKeepsWindow

\* Input is handed a datagram: the oldest on its way to e.
LEMMA OnSegmentDataKeepsWindow ==
  ASSUME IInv, WInv, OldestFirst, NEW e \in Ends, NEW d \in net, NEW again,
         onSegmentData(e, d, again)
  PROVE  WInv'
<1>1. /\ d.to = e /\ ~input[e].busy /\ net' \subseteq net
      /\ input' = [input EXCEPT ![e] = [busy |-> TRUE, segs |-> d.segs, slid |-> FALSE]]
      /\ UNCHANGED <<snd_una, rmt_wnd, rcv_queue, read>>
  BY DEF onSegmentData, Unlocked, sndVars, rcvVars, userVars
<1>2. DOMAIN input = Ends
  BY DEF IInv, TypeOK
<1>3. /\ input'[e] = [busy |-> TRUE, segs |-> d.segs, slid |-> FALSE]
      /\ \A x \in Ends : x # e => input'[x] = input[x]
  BY <1>1, <1>2
<1>4. d \in InFlight(e, net)
  BY <1>1 DEF InFlight
<1>5. ASSUME NEW c \in InFlight(e, net), NEW i \in DOMAIN d.segs, NEW j \in DOMAIN c.segs
      PROVE  d.segs[i].una <= c.segs[j].una
  BY <1>1, <1>3, <1>4 DEF OldestFirst
<1>6. ASSUME NEW x \in Ends
      PROVE  WindowOK(x)'
  <2>1. WindowOK(x)
    BY DEF WInv
  <2>2. InFlight(x, net)' \subseteq InFlight(x, net)
    BY <1>1 DEF InFlight
  <2>3. CASE x # e
    <3>1. input'[x] = input[x]
      BY <1>3, <2>3
    <3> QED
      BY <1>1, <2>1, <2>2, <3>1 DEF WindowOK, Fresh
  <2>4. CASE x = e
    <3>1. input'[x].segs = d.segs
      BY <1>3, <2>4
    <3>2. OneFlush(d.segs) /\ \A i \in DOMAIN d.segs : Fresh(x, d.segs[i])
      BY <1>4, <2>1, <2>4 DEF WindowOK
    <3>3. \A i \in DOMAIN input'[x].segs : Fresh(x, input[x].segs[i])'
      BY <1>1, <3>1, <3>2 DEF Fresh
    <3>4. OneFlush(input[x].segs)'
      BY <3>1, <3>2 DEF OneFlush
    <3>5. ASSUME NEW c \in InFlight(x, net)'
          PROVE  /\ OneFlush(c.segs)
                 /\ \A i \in DOMAIN c.segs :
                      /\ Fresh(x, c.segs[i])'
                      /\ \A j \in DOMAIN input'[x].segs : input'[x].segs[j].una <= c.segs[i].una
      <4>1. c \in InFlight(x, net)
        BY <2>2
      <4>2. OneFlush(c.segs) /\ \A i \in DOMAIN c.segs : Fresh(x, c.segs[i])
        BY <2>1, <4>1 DEF WindowOK
      <4>3. \A i \in DOMAIN c.segs : Fresh(x, c.segs[i])'
        BY <1>1, <4>2 DEF Fresh
      <4> QED
        BY <1>5, <2>4, <3>1, <4>1, <4>2, <4>3
    <3> QED
      BY <1>1, <2>1, <3>3, <3>4, <3>5 DEF WindowOK
  <2> QED
    BY <2>3, <2>4
<1> QED
  BY <1>6 DEF WInv

\* One turn of Input's loop: the window of the segment replaces the old one,
\* and what is left to handle is no older.
LEMMA InputSegmentKeepsWindow ==
  ASSUME IInv, WInv, NEW e \in Ends, InputSegment(e)
  PROVE  WInv'
<1> DEFINE segs == input[e].segs
           seg == Head(segs)
           left == parse_una(e, seg.una)
           o == Other(e)
<1>0. /\ TypeOK /\ SndOK(e) /\ RcvOK(o) /\ InputOK(e) /\ o \in Ends /\ Other(o) = e
      /\ WindowOK(e)
  BY OtherEnd DEF IInv, WInv
<1>1. segs \in Seq(Segment) /\ segs # <<>>
  BY <1>0 DEF InputSegment, TypeOK
<1>2. /\ 1 \in DOMAIN segs /\ seg = segs[1] /\ seg \in Segment
      /\ \A i \in DOMAIN Tail(segs) : i + 1 \in DOMAIN segs /\ Tail(segs)[i] = segs[i + 1]
  <2> HIDE DEF segs
  <2>1. /\ Len(segs) \in Nat \ {0} /\ DOMAIN segs = 1..Len(segs) /\ seg = segs[1]
        /\ seg \in Segment /\ Tail(segs) \in Seq(Segment) /\ Len(Tail(segs)) = Len(segs) - 1
        /\ DOMAIN Tail(segs) = 1..Len(Tail(segs))
        /\ \A i \in 1..Len(Tail(segs)) : Tail(segs)[i] = segs[i + 1]
    BY <1>1, HeadTailProperties, EmptySeq, LenProperties
  <2> QED
    BY <2>1
<1>3. /\ rmt_wnd' = [rmt_wnd EXCEPT ![e] = seg.wnd]
      /\ shrink_buf(e, left)
      /\ IF seg.cmd = "PUSH"
         THEN ack_push(e, seg.sn) /\ parse_data(e, seg)
         ELSE UNCHANGED <<acklist, rcvVars>>
      /\ read' = read /\ net' = net
  BY DEF InputSegment, userVars
<1>4. \E slid :
        input' = [input EXCEPT ![e] = [busy |-> TRUE, segs |-> Tail(segs), slid |-> slid]]
  BY DEF InputSegment
<1>5. /\ input'[e].segs = Tail(segs)
      /\ \A x \in Ends : x # e => input'[x] = input[x]
  <2>1. DOMAIN input = Ends
    BY <1>0 DEF TypeOK
  <2> HIDE DEF segs
  <2> QED
    BY <1>4, <2>1
<1>6. /\ Fresh(e, seg) /\ SegOK(e, seg)
      /\ \A i \in DOMAIN segs : segs[i].una = seg.una /\ Fresh(e, segs[i])
  <2> HIDE DEF seg
  <2> QED
    BY <1>0, <1>2 DEF WindowOK, OneFlush, InputOK
<1>7. /\ snd_una[e] \in Nat /\ snd_nxt[e] \in Nat /\ seg.una \in Nat
      /\ rmt_wnd \in [Ends -> 0..RcvWnd] /\ snd_una \in [Ends -> Nat]
  <2> HIDE DEF seg
  <2> QED
    BY <1>0, <1>2 DEF TypeOK, Segment
<1>8. snd_una[e] <= seg.una /\ seg.una <= snd_nxt[e]
  <2>1. snd_una[e] <= seg.una
    BY <1>6 DEF Fresh
  <2>2. seg.una <= rcv_nxt[o]
    BY <1>6 DEF SegOK
  <2>3. rcv_nxt[o] <= snd_nxt[e] /\ rcv_nxt[o] \in Nat
    BY <1>0 DEF RcvOK, TypeOK
  <2> HIDE DEF seg, o
  <2> QED
    BY <1>7, <2>1, <2>2, <2>3
<1>9. snd_una' = [snd_una EXCEPT ![e] = seg.una]
  <2>1. PICK una \in left \cup {snd_nxt[e]} :
          /\ \A sn \in left \cup {snd_nxt[e]} : una <= sn
          /\ snd_una' = [snd_una EXCEPT ![e] = una]
    BY <1>3 DEF shrink_buf
  <2>2. left = {sn \in snd_una[e]..(snd_nxt[e] - 1) : sn >= seg.una}
    BY <1>0 DEF SndOK, parse_una
  <2> DEFINE u == seg.una
             n == snd_nxt[e]
             a == snd_una[e]
  <2>3. a \in Nat /\ n \in Nat /\ u \in Nat /\ a <= u /\ u <= n
    BY <1>7, <1>8
  <2>4. left = {sn \in a..(n - 1) : sn >= u}
    BY <2>2
  <2>5. una \in left \cup {n} /\ \A sn \in left \cup {n} : una <= sn
    BY <2>1
  <2>6. una = u
    <3> HIDE DEF left, u, n, a
    <3>1. CASE u = n
      BY <2>3, <2>4, <2>5, <3>1
    <3>2. CASE u < n
      <4>1. u \in left
        BY <2>3, <2>4, <3>2
      <4>2. una <= u
        BY <2>5, <4>1
      <4>3. una # n
        BY <2>3, <3>2, <4>2
      <4> QED
        BY <2>3, <2>4, <2>5, <4>2, <4>3
    <3> QED
      BY <2>3, <3>1, <3>2
  <2> QED
    BY <2>1, <2>6
<1>10. /\ snd_una'[e] = seg.una /\ rmt_wnd'[e] = seg.wnd
       /\ \A x \in Ends : x # e => snd_una'[x] = snd_una[x] /\ rmt_wnd'[x] = rmt_wnd[x]
  <2> HIDE DEF seg
  <2> QED
    BY <1>3, <1>7, <1>9
<1>11. \A x \in Ends : Len(rcv_queue'[x]) <= RcvWnd
  <2>1. \A x \in Ends : Len(rcv_queue[x]) <= RcvWnd
    BY DEF WInv, WindowOK
  <2>2. CASE seg.cmd = "PUSH"
    <3>1. parse_data(e, seg)
      BY <1>3, <2>2
    <3>2. /\ Len(rcv_queue'[e]) <= RcvWnd
          /\ \A x \in Ends : x # e => rcv_queue'[x] = rcv_queue[x]
      <4> HIDE DEF seg
      <4> QED
        BY <1>2, <2>1, <2>2, <3>1, ParseFits
    <3> QED
      BY <2>1, <3>2
  <2>3. CASE seg.cmd # "PUSH"
    BY <1>3, <2>1, <2>3 DEF rcvVars
  <2> QED
    BY <2>2, <2>3
<1>12. ASSUME NEW x \in Ends, x # e
       PROVE  WindowOK(x)'
  <2>1. /\ WindowOK(x) /\ input'[x] = input[x] /\ snd_una'[x] = snd_una[x]
        /\ rmt_wnd'[x] = rmt_wnd[x] /\ read' = read /\ net' = net
        /\ Len(rcv_queue'[x]) <= RcvWnd
    BY <1>3, <1>5, <1>10, <1>11, <1>12 DEF WInv
  <2> QED
    BY <2>1 DEF WindowOK, Fresh
<1>13. WindowOK(e)'
  <2>1. Len(read'[o]) = Len(read[o])
    BY <1>3
  <2>2. snd_una'[e] + rmt_wnd'[e] <= Len(read'[o]) + RcvWnd
    BY <1>6, <1>10, <2>1 DEF Fresh
  <2>3. ASSUME NEW i \in DOMAIN input'[e].segs
        PROVE  input'[e].segs[i].una = seg.una /\ Fresh(e, input[e].segs[i])'
    <3>1. i + 1 \in DOMAIN segs /\ input'[e].segs[i] = segs[i + 1]
      BY <1>2, <1>5, <2>3
    <3>2. segs[i + 1].una = seg.una /\ Fresh(e, segs[i + 1])
      BY <1>6, <3>1
    <3>3. seg.una <= seg.una
      BY <1>7
    <3> HIDE DEF segs, seg
    <3>4. Fresh(e, input[e].segs[i])'
      BY <1>10, <2>1, <3>1, <3>2, <3>3 DEF Fresh, o
    <3> QED
      BY <3>1, <3>2, <3>4
  <2>4. OneFlush(input[e].segs)'
    <3> HIDE DEF seg
    <3> QED
      BY <2>3 DEF OneFlush
  <2>5. ASSUME NEW d \in InFlight(e, net)'
        PROVE  /\ OneFlush(d.segs)
               /\ \A i \in DOMAIN d.segs :
                    /\ Fresh(e, d.segs[i])'
                    /\ \A j \in DOMAIN input'[e].segs : input'[e].segs[j].una <= d.segs[i].una
    <3>1. d \in InFlight(e, net)
      BY <1>3 DEF InFlight
    <3>2. /\ OneFlush(d.segs)
          /\ \A i \in DOMAIN d.segs : /\ Fresh(e, d.segs[i])
                                      /\ segs[1].una <= d.segs[i].una
      BY <1>0, <1>2, <3>1 DEF WindowOK
    <3>3. \A i \in DOMAIN d.segs : seg.una <= d.segs[i].una
      BY <1>2, <3>2
    <3> HIDE DEF segs, seg
    <3>4. \A i \in DOMAIN d.segs : Fresh(e, d.segs[i])'
      BY <1>10, <2>1, <3>2, <3>3 DEF Fresh, o
    <3>5. \A j \in DOMAIN input'[e].segs : input'[e].segs[j].una = seg.una
      BY <2>3
    <3> QED
      BY <3>2, <3>3, <3>4, <3>5
  <2>6. \A i \in DOMAIN input'[e].segs : Fresh(e, input[e].segs[i])'
    BY <2>3
  <2>7. Len(rcv_queue'[e]) <= RcvWnd
    BY <1>11
  <2> HIDE DEF segs, seg
  <2> QED
    BY <2>2, <2>4, <2>5, <2>6, <2>7 DEF WindowOK, o
<1> QED
  BY <1>12, <1>13 DEF WInv

\* The other steps neither flush nor read.
LEMMA OthersKeepWindow ==
  ASSUME IInv, WInv, TypeOK',
         UNCHANGED <<snd_una, rmt_wnd, rcv_queue, read, input, net>>
  PROVE  WInv'
<1>1. PICK f : f \in Ends
  BY DEF Ends
<1>2. /\ \A x \in Ends : Len(read[x]) <= Len(read'[x])
      /\ \A x \in Ends : Len(rcv_queue'[x]) <= RcvWnd
  BY SameReader
<1>3. \A x \in Ends : input'[x].segs = input[x].segs
  OBVIOUS
<1>4. snd_una' = snd_una /\ rmt_wnd' = rmt_wnd /\ net' = net
  OBVIOUS
<1> QED
  BY <1>1, <1>2, <1>3, <1>4, WindowKept

LEMMA WindowInductive ==
  ASSUME IInv, IInv', WInv, [Next]_vars, OldestFirst
  PROVE  WInv'
<1>0. TypeOK'
  BY DEF IInv
<1>1. CASE UNCHANGED vars
  BY <1>0, <1>1, OthersKeepWindow DEF vars, sndVars, rcvVars, userVars
<1>2. ASSUME NEW e \in Ends, NEW count \in 1..MaxFrags, SendPayload(e, count)
      PROVE  WInv'
  BY <1>0, <1>2, OthersKeepWindow DEF SendPayload, rcvVars
<1>3. ASSUME NEW e \in Ends, NEW d \in net, NEW again, onSegmentData(e, d, again)
      PROVE  WInv'
  BY <1>3, OnSegmentDataKeepsWindow
<1>4. ASSUME NEW e \in Ends, InputSegment(e) PROVE WInv'
  BY <1>4, InputSegmentKeepsWindow
<1>5. ASSUME NEW e \in Ends, InputReturn(e) PROVE WInv'
  BY <1>0, <1>5, InputReturnKeepsWindow
<1>6. ASSUME NEW e \in Ends, UpdateFlush(e) \/ UpdateOnly(e) PROVE WInv'
  BY <1>0, <1>6, UpdateKeepsWindow
<1>7. ASSUME NEW e \in Ends, Payload(e) PROVE WInv'
  BY <1>0, <1>7, OthersKeepWindow DEF Payload, sndVars, rcvVars
<1> QED
  BY <1>1, <1>2, <1>3, <1>4, <1>5, <1>6, <1>7 DEF Next

LEMMA WindowInitially == Init => WInv
<1> SUFFICES ASSUME Init, NEW e \in Ends
             PROVE  WindowOK(e)
  BY DEF WInv
<1>1. Other(e) \in Ends
  BY OtherEnd
<1>2. /\ rcv_queue[e] = <<>> /\ snd_una[e] = 0 /\ rmt_wnd[e] = InitRmtWnd
      /\ read[Other(e)] = <<>> /\ input[e] = Idle /\ net = {}
  BY <1>1 DEF Init
<1>3. Len(<< >>) = 0 /\ DOMAIN << >> = {} /\ Idle.segs = <<>>
  BY DEF Idle
<1> HIDE DEF Idle
<1>4. Len(rcv_queue[e]) <= RcvWnd /\ snd_una[e] + rmt_wnd[e] <= Len(read[Other(e)]) + RcvWnd
  BY <1>2, <1>3, KcpConstants
<1>5. DOMAIN input[e].segs = {} /\ InFlight(e, net) = {}
  BY <1>2, <1>3 DEF InFlight
<1> QED
  BY <1>4, <1>5 DEF WindowOK, OneFlush

\* On a path that never delivers a datagram after one that was sent later,
\* whatever it loses or delivers twice, the window a sender works with (una
\* and wnd of Input) is one its peer still has room for.
THEOREM LatestOnOrderedPath == Spec /\ [][OldestFirst]_vars => []WindowIsLatest
<1>1. Init => WInv
  BY WindowInitially
<1>2. IInv /\ IInv' /\ WInv /\ [Next]_vars /\ [OldestFirst]_vars => WInv'
  <2> SUFFICES ASSUME IInv, IInv', WInv, [Next]_vars, [OldestFirst]_vars
               PROVE  WInv'
    OBVIOUS
  <2>1. CASE OldestFirst
    BY <2>1, WindowInductive
  <2>2. CASE UNCHANGED vars
    <3>1. TypeOK'
      BY DEF IInv
    <3> QED
      BY <2>2, <3>1, OthersKeepWindow DEF vars, sndVars, rcvVars, userVars
  <2> QED
    BY <2>1, <2>2
<1>3. WInv => WindowIsLatest
  BY DEF WInv, WindowOK, WindowIsLatest
<1> QED
  BY <1>1, <1>2, <1>3, Invariance, PTL DEF Spec
=============================================================================
