--------------------------- MODULE KcpPipe_proofs ---------------------------
(***************************************************************************)
(* Kcp implements MessagePipe: every step of two sessions is a step of the *)
(* pipes their users see, or leaves them as they are.                      *)
(***************************************************************************)
EXTENDS Kcp_proofs

LEMMA PipeInit == Init => Pipe!Init
BY DEF Init, Pipe!Init

LEMMA SendIsSend ==
  ASSUME NEW e \in Ends, NEW count \in 1..MaxFrags, SendPayload(e, count)
  PROVE  Pipe!Next
<1>1. Pipe!Send(e, count)
  BY DEF SendPayload, Pipe!Send, LastMsg, Pipe!LastMsg, Split, Pipe!Split
<1> QED
  BY <1>1 DEF Pipe!Next

LEMMA PayloadIsTake ==
  ASSUME NEW e \in Ends, Payload(e)
  PROVE  Pipe!Next
<1>1. Pipe!Take(e)
  BY DEF Payload, Pipe!Take
<1> QED
  BY <1>1 DEF Pipe!Next

\* A sequence that repeats a part of another is a slice of it.
LEMMA SliceFrom ==
  ASSUME NEW s \in Seq(Fragment), NEW m \in Seq(Fragment), NEW k \in Nat, NEW n \in Nat,
         k + n <= Len(s), Len(m) = n, \A i \in 1..n : m[i] = s[k + i]
  PROVE  m = SubSeq(s, k + 1, k + n)
<1> DEFINE p == SubSeq(s, k + 1, k + n)
<1>1. Len(s) \in Nat
  BY LenProperties
<1>2. \A i \in (k + 1)..(k + n) : s[i] \in Fragment
  BY <1>1, ElementOfSeq
<1>3. /\ p \in Seq(Fragment)
      /\ Len(p) = (IF k + 1 <= k + n THEN k + n - (k + 1) + 1 ELSE 0)
      /\ \A i \in 1..(k + n - (k + 1) + 1) : p[i] = s[k + 1 + i - 1]
  BY <1>2, SubSeqProperties
<1> HIDE DEF p
<1>4. Len(p) = n
  BY <1>3
<1>5. ASSUME NEW i \in 1..n
      PROVE  p[i] = s[k + i]
  <2>1. i \in 1..(k + n - (k + 1) + 1) /\ k + 1 + i - 1 = k + i
    OBVIOUS
  <2> QED
    BY <1>3, <2>1
<1>6. Len(m) = Len(p) /\ \A i \in 1..Len(m) : m[i] = p[i]
  BY <1>4, <1>5, Zenon
<1>7. m = p
  BY <1>3, <1>6, SeqEqual
<1> QED
  BY <1>7 DEF p

LEMMA IsSlice ==
  ASSUME NEW s \in Seq(Fragment), NEW u \in Seq(Fragment), NEW n \in 0..Len(s),
         Len(u) = n, \A i \in 1..n : u[i] = s[0 + i]
  PROVE  u = SubSeq(s, 1, n)
<1>1. Len(s) \in Nat
  BY LenProperties
<1>2. n \in Nat /\ 0 + n <= Len(s) /\ 0 + 1 = 1 /\ 0 + n = n
  BY <1>1
<1>3. u = SubSeq(s, 0 + 1, 0 + n)
  BY <1>2, SliceFrom
<1> QED
  BY <1>2, <1>3, Zenon

\* The first n fragments of q, which r was read before, are the next message
\* of the stream s.
NextInStream(s, r, q, n) ==
  LET to == Len(r) + n
  IN  /\ to \in (Len(r) + 1)..Len(s) /\ s[to].frg = 0
      /\ \A i \in (Len(r) + 1)..(to - 1) : s[i].frg # 0
      /\ r \o SubSeq(q, 1, n) = SubSeq(s, 1, to)
      /\ SubSeq(q, 1, n) = SubSeq(s, Len(r) + 1, to)

LEMMA MessageIsNext ==
  ASSUME NEW s \in Seq(Fragment), StreamOK(s), NEW q \in Seq(Fragment),
         NEW r \in Seq(Fragment), ReadSoFar(s, r, q), q # <<>>, Complete(q),
         NEW n \in Nat, n \in FirstMessage(q)
  PROVE  NextInStream(s, r, q, n)
<1>0. /\ n \in 1..Len(q) /\ q[n].frg = 0
      /\ SubSeq(q, 1, n) \in Seq(Fragment) /\ Len(SubSeq(q, 1, n)) = n
      /\ \A i \in 1..n : SubSeq(q, 1, n)[i] = q[i]
  <2>1. /\ Len(r) \in Nat /\ Len(r) + Len(q) <= Len(s)
        /\ \A i \in 1..Len(q) : q[i] = s[Len(r) + i]
    BY LenProperties DEF ReadSoFar
  <2> QED
    BY <2>1, FirstOfStream
<1> DEFINE m == SubSeq(q, 1, n)
           u == r \o m
           k == Len(r)
           to == Len(r) + n
<1>1. k \in Nat /\ Len(q) \in Nat /\ Len(s) \in Nat /\ DOMAIN q = 1..Len(q)
  BY LenProperties
<1>2. /\ k + Len(q) <= Len(s)
      /\ \A i \in 1..k : r[i] = s[i]
      /\ \A i \in 1..Len(q) : q[i] = s[k + i]
  BY DEF ReadSoFar
<1>3. /\ n \in 1..Len(q) /\ q[n].frg = 0
      /\ m \in Seq(Fragment) /\ Len(m) = n /\ \A i \in 1..n : m[i] = q[i]
  BY <1>0, Zenon
<1>4. \A i \in 1..(n - 1) : q[i].frg # 0
  BY DEF FirstMessage
<1> HIDE DEF m
<1>a. n \in 1..Len(q) /\ \A i \in 1..n : m[i] = q[i]
  BY <1>3
<1>5. to \in (k + 1)..Len(s) /\ to \in Nat
  BY <1>1, <1>2, <1>a
<1>6. s[to].frg = 0
  <2>1. q[n] = s[k + n]
    BY <1>2, <1>a
  <2> QED
    BY <1>3, <2>1, Zenon
<1>7. ASSUME NEW i \in (k + 1)..(to - 1)
      PROVE  s[i].frg # 0
  <2>1. i - k \in 1..(n - 1) /\ i - k \in 1..Len(q) /\ k + (i - k) = i
    BY <1>1, <1>a
  <2>2. q[i - k] = s[k + (i - k)]
    BY <1>2, <2>1
  <2> QED
    BY <1>4, <2>1, <2>2, Zenon
<1>8. /\ u \in Seq(Fragment) /\ Len(u) = k + n
      /\ \A i \in 1..(k + n) : u[i] = IF i <= k THEN r[i] ELSE m[i - k]
  <2>1. /\ u \in Seq(Fragment) /\ Len(u) = k + Len(m)
        /\ \A i \in 1..(k + Len(m)) : u[i] = IF i <= k THEN r[i] ELSE m[i - k]
    BY <1>3, ConcatProperties
  <2> QED
    BY <1>3, <2>1, Zenon
<1> HIDE DEF u
<1>9. ASSUME NEW i \in 1..to
      PROVE  u[i] = s[i]
  <2>1. CASE i <= k
    BY <1>1, <1>2, <1>8, <2>1
  <2>2. CASE ~(i <= k)
    <3>1. i - k \in 1..n /\ i - k \in 1..Len(q) /\ k + (i - k) = i
      BY <1>1, <1>a, <2>2
    <3>2. u[i] = m[i - k] /\ m[i - k] = q[i - k]
      BY <1>8, <1>a, <2>2, <3>1, Zenon
    <3>3. q[i - k] = s[k + (i - k)]
      BY <1>2, <3>1
    <3> QED
      BY <3>1, <3>2, <3>3, Zenon
  <2> QED
    BY <2>1, <2>2
<1>10. u = SubSeq(s, 1, to)
  <2>1. to \in 0..Len(s)
    BY <1>1, <1>5
  <2>2. Len(u) = to /\ \A i \in 1..to : u[i] = s[0 + i]
    BY <1>8, <1>9
  <2> HIDE DEF to
  <2> QED
    BY <1>8, <2>1, <2>2, IsSlice
<1>11. m = SubSeq(s, k + 1, to)
  <2>1. \A i \in 1..n : m[i] = s[k + i]
    BY <1>1, <1>2, <1>a
  <2> HIDE DEF k
  <2>2. k \in 0..Len(s) /\ k + n <= Len(s) /\ Len(m) = n
    BY <1>1, <1>2, <1>3
  <2>3. m = SubSeq(s, k + 1, k + n)
    BY <1>1, <1>3, <2>1, <2>2, SliceFrom
  <2> QED
    BY <2>3 DEF k
<1> QED
  BY <1>5, <1>6, <1>7, <1>10, <1>11, Zenon DEF NextInStream, u, m

\* Recv takes the message that is next in the peer's stream.
LEMMA RecvIsFetch ==
  ASSUME IInv, NEW e \in Ends, NEW before, Readable(e), Recv(e, before),
         UNCHANGED <<sent, delivered>>
  PROVE  Pipe!Next
<1> DEFINE o == Other(e)
           q == rcv_queue[e]
           r == read[e]
           s == sent[o]
<1>1. /\ o \in Ends /\ q \in Seq(Fragment) /\ r \in Seq(Fragment) /\ s \in Seq(Fragment)
      /\ StreamOK(s)
  BY OtherEnd DEF IInv, TypeOK
<1>2. PICK n \in FirstMessage(q) :
        /\ read' = [read EXCEPT ![e] = @ \o SubSeq(q, 1, n)]
        /\ payload' = IF Len(payload[e]) < PayloadCap
                      THEN [payload EXCEPT ![e] = Append(@, SubSeq(q, 1, n))] ELSE payload
  BY DEF Recv
<1>3. n \in Nat
  BY <1>1, LenProperties DEF FirstMessage
<1>4. ReadSoFar(s, r, q) /\ q # <<>> /\ Complete(q)
  BY ReadSoFarOK DEF Readable, Complete
<1>5. NextInStream(s, r, q, n)
  <2> HIDE DEF s, r, q, o
  <2> QED
    BY <1>1, <1>2, <1>3, <1>4, MessageIsNext, Zenon
<1> DEFINE to == Len(r) + n
<1>6. /\ to \in (Len(r) + 1)..Len(s) /\ s[to].frg = 0
      /\ \A i \in (Len(r) + 1)..(to - 1) : s[i].frg # 0
      /\ r \o SubSeq(q, 1, n) = SubSeq(s, 1, to)
      /\ SubSeq(q, 1, n) = SubSeq(s, Len(r) + 1, to)
  BY <1>5, Zenon DEF NextInStream
<1> HIDE DEF to
<1>7. /\ read' = [read EXCEPT ![e] = SubSeq(s, 1, to)]
      /\ payload' = IF Len(payload[e]) < PayloadCap
                    THEN [payload EXCEPT ![e] = Append(@, SubSeq(s, Len(r) + 1, to))]
                    ELSE payload
  BY <1>2, <1>6, Zenon
<1>8. Pipe!Fetch(e)
  BY <1>6, <1>7, Zenon DEF Pipe!Fetch
<1> QED
  BY <1>8 DEF Pipe!Next

\* All other steps leave alone what the users see.
LEMMA OthersStutter ==
  ASSUME NEW e \in Ends
  PROVE  /\ \A d \in net, again \in BOOLEAN : onSegmentData(e, d, again) => UNCHANGED Pipe!vars
         /\ InputSegment(e) => UNCHANGED Pipe!vars
         /\ InputReturn(e) => UNCHANGED Pipe!vars
         /\ ~Readable(e) /\ (UpdateFlush(e) \/ UpdateOnly(e)) => UNCHANGED Pipe!vars
<1>1. \A d \in net, again \in BOOLEAN : onSegmentData(e, d, again) => UNCHANGED userVars
  BY DEF onSegmentData
<1>2. InputSegment(e) => UNCHANGED userVars
  BY DEF InputSegment
<1>3. InputReturn(e) => UNCHANGED userVars
  BY DEF InputReturn
<1>4. ~Readable(e) /\ (UpdateFlush(e) \/ UpdateOnly(e)) => UNCHANGED userVars
  BY DEF UpdateFlush, UpdateOnly, Deliver
<1>5. UNCHANGED userVars => UNCHANGED Pipe!vars
  BY DEF userVars, Pipe!vars
<1> QED
  BY <1>1, <1>2, <1>3, <1>4, <1>5

\* Every step of the sessions is a step of the pipes, or none.
LEMMA StepIsPipeStep == IInv /\ [Next]_vars => [Pipe!Next]_(Pipe!vars)
<1> SUFFICES ASSUME IInv, [Next]_vars PROVE Pipe!Next \/ UNCHANGED Pipe!vars
  OBVIOUS
<1>1. CASE UNCHANGED vars
  BY <1>1 DEF vars, userVars, Pipe!vars
<1>2. ASSUME NEW e \in Ends, NEW count \in 1..MaxFrags, SendPayload(e, count)
      PROVE  Pipe!Next
  BY <1>2, SendIsSend
<1>3. ASSUME NEW e \in Ends, NEW d \in net, NEW again \in {Duplication, FALSE},
             onSegmentData(e, d, again)
      PROVE  UNCHANGED Pipe!vars
  <2>1. again \in BOOLEAN
    BY KcpConstants
  <2> QED
    BY <1>3, <2>1, OthersStutter
<1>4. ASSUME NEW e \in Ends, InputSegment(e) \/ InputReturn(e) PROVE UNCHANGED Pipe!vars
  BY <1>4, OthersStutter
<1>5. ASSUME NEW e \in Ends, UpdateFlush(e) \/ UpdateOnly(e)
      PROVE  Pipe!Next \/ UNCHANGED Pipe!vars
  <2>1. CASE ~Readable(e)
    BY <1>5, <2>1, OthersStutter
  <2>2. CASE Readable(e)
    <3>1. \E before : Recv(e, before) /\ UNCHANGED <<sent, delivered>>
      BY <1>5, <2>2 DEF UpdateFlush, UpdateOnly, Deliver
    <3> QED
      BY <2>2, <3>1, RecvIsFetch
  <2> QED
    BY <2>1, <2>2
<1>6. ASSUME NEW e \in Ends, Payload(e) PROVE Pipe!Next
  BY <1>6, PayloadIsTake
<1> QED
  BY <1>1, <1>2, <1>3, <1>4, <1>5, <1>6 DEF Next

\* Two sessions joined by KCP are a pair of reliable message pipes: what
\* SendPayload, update and Payload do is what Send, Fetch and Take do.
THEOREM Refinement == Spec => PipeSpec
<1>1. Init => Pipe!Init
  BY PipeInit
<1>2. IInv /\ [Next]_vars => [Pipe!Next]_(Pipe!vars)
  BY StepIsPipeStep
<1> QED
  BY <1>1, <1>2, Invariance, PTL DEF Spec, PipeSpec, Pipe!Spec

=============================================================================
