--------------------------- MODULE KcpTimers_proofs ---------------------------
(***************************************************************************)
(* The properties of KcpTimers for all values of its constants.            *)
(*                                                                         *)
(* Serial is what the code relies on: as long as two times are less than   *)
(* 2^31 ms apart, the signed difference of their 32 bits is their          *)
(* difference.  Bounded shows that the times that are compared never are   *)
(* further apart, and with it that the timers do what they promise.        *)
(***************************************************************************)
EXTENDS KcpTimers, FiniteSetTheorems, TLAPS

\* The times of the block, and the round trips that may yet be measured.
Times ==
  /\ born <= looked /\ looked <= now /\ now <= born + Lifetime
  /\ born <= closed /\ closed <= now
  /\ \A f \in flight : f.at \in born..now /\ now - f.at <= MaxAge
  /\ updated => looked < ts_flush /\ ts_flush <= looked + Interval
  /\ ~updated => looked = born

\* The next flush comes before a timer has been overdue for an interval.
Flushed(t) == updated => ts_flush < t + Interval

\* Every segment's timer, and why it may be skipped.
Segments ==
  /\ snd_una <= snd_nxt
  /\ \A sn \in DOMAIN snd_buf :
       /\ snd_buf[sn].at \in born..now
       /\ snd_buf[sn].rto \in 1..(Lifetime + MaxRto)
       /\ ~snd_buf[sn].acked => Flushed(snd_buf[sn].at + snd_buf[sn].rto)
       /\ snd_buf[sn].fastack > 0 =>
            \E later \in heard : later.sn > sn /\ later.at >= snd_buf[sn].at

\* The probe's timer.
Probing ==
  /\ probe_wait <= ProbeLimit
  /\ probe_wait # 0 =>
       /\ ts_probe \in born..(now + ProbeLimit)
       /\ Flushed(ts_probe)
  /\ probe_wait = 0 /\ rmt_wnd = 0 /\ updated => ts_flush <= closed + Interval

IInv == TypeOK /\ RtoInRange /\ Times /\ Segments /\ Probing

-----------------------------------------------------------------------------
(* Arithmetic.                                                             *)

\* A quotient and a remainder are the only ones.
LEMMA Remainder ==
  ASSUME NEW M \in Nat \ {0}, NEW q \in Int, NEW r \in Int, NEW p \in Int, NEW s \in Int,
         M * q + r = M * p + s, 0 <= r, r < M, 0 <= s, s < M
  PROVE  r = s
<1>1. CASE q = p
  BY <1>1, SMT
<1>2. CASE q > p
  <2>1. M * (q - p) >= M
    BY <1>2, SMTT(30)
  <2>2. M * (q - p) = M * q - M * p
    BY SMT
  <2> QED
    BY <2>1, <2>2, SMT
<1>3. CASE q < p
  <2>1. M * (p - q) >= M
    BY <1>3, SMTT(30)
  <2>2. M * (p - q) = M * p - M * q
    BY SMT
  <2> QED
    BY <2>1, <2>2, SMT
<1> QED
  BY <1>1, <1>2, <1>3, SMT

\* What % returns.
LEMMA Modulo ==
  ASSUME NEW M \in Nat \ {0}, NEW q \in Int, NEW r \in Int, 0 <= r, r < M
  PROVE  (M * q + r) % M = r
  BY SMTT(30)

LEMMA Division ==
  ASSUME NEW a \in Nat, NEW M \in Nat \ {0}
  PROVE  /\ a = M * (a \div M) + (a % M)
         /\ a % M \in 0..(M - 1) /\ a \div M \in Int
  BY SMT

LEMMA Between ==
  ASSUME NEW a \in Nat, NEW b \in Nat, NEW c \in Nat, NEW x \in a..(c - 1)
  PROVE  x \in a..(b - 1) \/ x \in b..(c - 1)
  BY SMT

LEMMA HalfRangePositive == HalfRange \in Nat \ {0} /\ 2 * HalfRange \in Nat \ {0}
  BY TimersConstants, SMT

\* The signed difference of two cut times is their difference, as long as
\* that fits (_itimediff).
LEMMA Serial ==
  ASSUME NEW a \in Nat, NEW b \in Nat, -HalfRange <= a - b, a - b < HalfRange
  PROVE  itimediff(a, b) = a - b
<1> DEFINE M == 2 * HalfRange
           r1 == a % M
           r2 == b % M
           q == (a \div M) - (b \div M)
           d == (r1 - r2) % M
<1>1. M \in Nat \ {0} /\ HalfRange \in Nat
  BY HalfRangePositive
<1>2. /\ a = M * (a \div M) + r1 /\ r1 \in 0..(M - 1) /\ a \div M \in Int
      /\ b = M * (b \div M) + r2 /\ r2 \in 0..(M - 1) /\ b \div M \in Int
  <2>1. \A t \in Nat : t = M * (t \div M) + (t % M) /\ t % M \in 0..(M - 1) /\ t \div M \in Int
    <3> HIDE DEF M
    <3> QED
      BY <1>1, Division
  <2> QED
    BY <2>1
<1>3. a - b = M * q + (r1 - r2) /\ q \in Int
  <2> HIDE DEF M, r1, r2, q
  <2>1. M * ((a \div M) - (b \div M)) = M * (a \div M) - M * (b \div M)
    BY <1>1, <1>2, SMT
  <2>2. q = (a \div M) - (b \div M)
    BY DEF q
  <2> QED
    BY <2>1, <2>2, <1>1, <1>2, SMT
<1> HIDE DEF d, q, r1, r2, M
<1>4. \E p \in Int : a - b = M * p + d /\ d \in 0..(M - 1)
  <2>1. CASE r1 >= r2
    <3>1. (M * 0 + (r1 - r2)) % M = r1 - r2
      BY <2>1, <1>1, <1>2, Modulo, SMT
    <3>2. d = r1 - r2
      BY <3>1, <1>1, <1>2, SMT DEF d
    <3>3. a - b = M * q + d /\ d \in 0..(M - 1)
      BY <3>2, <1>2, <1>3, <1>1, <2>1, SMT
    <3> QED
      BY <3>3, <1>3
  <2>2. CASE r1 < r2
    <3>1. (M * (-1) + (r1 - r2 + M)) % M = r1 - r2 + M
      BY <2>2, <1>1, <1>2, Modulo, SMT
    <3>2. d = r1 - r2 + M
      BY <3>1, <1>1, <1>2, SMT DEF d
    <3>3. M * (q - 1) = M * q - M
      BY <1>1, <1>3, SMT
    <3>4. a - b = M * (q - 1) + d /\ d \in 0..(M - 1) /\ q - 1 \in Int
      BY <3>2, <3>3, <1>2, <1>3, <1>1, <2>2, SMT
    <3> QED
      BY <3>4
  <2> QED
    BY <2>1, <2>2, <1>2, SMT
<1>5. PICK p \in Int : a - b = M * p + d /\ d \in 0..(M - 1)
  BY <1>4
<1>6. itimediff(a, b) = IF d < HalfRange THEN d ELSE d - M
  BY DEF itimediff, Cut, d, M, r1, r2
<1>7. CASE d < HalfRange
  <2>1. M * 0 + (a - b + HalfRange) = M * p + (d + HalfRange) /\ M = 2 * HalfRange
    BY <1>5, <1>1, SMT DEF M
  <2>2. a - b + HalfRange = d + HalfRange
    BY <2>1, <1>7, <1>5, <1>1, Remainder, SMT
  <2> QED
    BY <2>2, <1>6, <1>7, <1>5, <1>1, SMT
<1>8. CASE ~(d < HalfRange)
  <2>1. M * (p + 1) = M * p + M
    BY <1>1, <1>5, SMT
  <2>2. M * 0 + (a - b + HalfRange) = M * (p + 1) + (d - M + HalfRange) /\ M = 2 * HalfRange
    BY <2>1, <1>5, <1>1, SMT DEF M
  <2>3. a - b + HalfRange = d - M + HalfRange
    BY <2>2, <1>8, <1>5, <1>1, Remainder, SMT
  <2> QED
    BY <2>3, <1>6, <1>8, <1>5, <1>1, SMT
<1> QED
  BY <1>7, <1>8

-----------------------------------------------------------------------------
(* flush.                                                                  *)

\* What flush may find in snd_buf once una has been taken into account.
Buffers(una) ==
  {buf \in [una..(snd_nxt - 1) -> Timers] :
     \A sn \in una..(snd_nxt - 1) :
       buf[sn].at \in born..now /\ buf[sn].rto \in 1..(Lifetime + MaxRto)}

\* What flush leaves of a segment that was there.
Kept(seg, after) ==
  \/ after = seg /\ (seg.acked \/ now < seg.at + seg.rto)
  \/ /\ ~seg.acked /\ (seg.fastack > 0 \/ now >= seg.at + seg.rto)
     /\ after \in Timers
     /\ after.at = now /\ after.rto \in 1..(Lifetime + MaxRto)
     /\ after.fastack = 0 /\ ~after.acked

\* A segment that has just been moved to snd_buf.
Fresh(after) ==
  /\ after \in Timers /\ after.at = now /\ after.rto \in 1..(Lifetime + MaxRto)
  /\ after.fastack = 0 /\ ~after.acked

\* The probe's timer after a flush.
Armed(wnd) ==
  IF wnd # 0 THEN probe_wait' = 0 /\ ts_probe' = 0
  ELSE probe_wait' \in 1..ProbeLimit /\ ts_probe' \in (now + 1)..(now + ProbeLimit)

LEMMA Bounds ==
  /\ Interval \in Nat \ {0} /\ MinRto \in Nat \ {0} /\ MaxRto \in Nat /\ MinRto <= MaxRto
  /\ DefRto \in MinRto..MaxRto
  /\ ProbeInit \in Nat \ {0} /\ ProbeLimit \in Nat /\ ProbeInit <= ProbeLimit
  /\ Lifetime \in Nat /\ MaxAge \in Nat /\ HalfRange \in Nat
  /\ Lifetime + MaxRto + ProbeLimit + Interval < HalfRange
  BY TimersConstants, SMT

LEMMA NewSegsType ==
  ASSUME TypeOK, NEW una \in Nat, NEW wnd \in Nat
  PROVE  NewSegs(una, wnd) \in 0..snd_queue
  BY TimersConstants, SMT DEF TypeOK, NewSegs, imin

\* The timeout of a segment is recognised when it has passed, and no sooner.
LEMMA ExpiredMeans ==
  ASSUME TypeOK, Times, NEW seg \in Timers,
         seg.at \in born..now, seg.rto \in 1..(Lifetime + MaxRto)
  PROVE  Expired(seg) <=> now >= seg.at + seg.rto
<1>1. /\ now \in Nat /\ seg.at + seg.rto \in Nat
      /\ -HalfRange <= now - (seg.at + seg.rto) /\ now - (seg.at + seg.rto) < HalfRange
  BY Bounds, SMT DEF TypeOK, Times, Timers
<1>2. itimediff(now, seg.at + seg.rto) = now - (seg.at + seg.rto)
  BY <1>1, Serial
<1> QED
  BY <1>1, <1>2, SMT DEF Expired, TypeOK, Timers

LEMMA ProbeStep ==
  ASSUME TypeOK, Times, Probing, NEW wnd \in Nat, Probe(wnd)
  PROVE  Armed(wnd)
<1>1. CASE wnd # 0
  BY <1>1 DEF Probe, Armed
<1>2. CASE wnd = 0 /\ probe_wait = 0
  BY <1>2, Bounds, SMT DEF Probe, Armed, TypeOK
<1>3. CASE wnd = 0 /\ probe_wait # 0
  <2>1. itimediff(now, ts_probe) = now - ts_probe
    <3>1. /\ now \in Nat /\ ts_probe \in Nat
          /\ -HalfRange <= now - ts_probe /\ now - ts_probe < HalfRange
      BY <1>3, Bounds, SMT DEF TypeOK, Times, Probing
    <3> QED
      BY <3>1, Serial
  <2>2. CASE now < ts_probe
    BY <1>3, <2>1, <2>2, Bounds, SMT DEF Probe, Armed, TypeOK, Probing
  <2>3. CASE now >= ts_probe
    <3> DEFINE wait == imax(probe_wait, ProbeInit)
    <3>1. /\ probe_wait' = imin(wait + wait \div 2, ProbeLimit)
          /\ ts_probe' = now + probe_wait'
      BY <1>3, <2>1, <2>3, SMT DEF Probe, TypeOK
    <3>2. wait \in Nat \ {0}
      BY Bounds, SMT DEF TypeOK, imax
    <3> HIDE DEF wait
    <3>3. wait + wait \div 2 \in Nat \ {0}
      BY <3>2, SMT
    <3>4. probe_wait' \in 1..ProbeLimit
      BY <3>1, <3>3, Bounds, SMT DEF imin
    <3> QED
      BY <3>1, <3>4, <1>3, Bounds, SMT DEF Armed, TypeOK
  <2> QED
    BY <2>2, <2>3, SMT DEF TypeOK, Probing
<1> QED
  BY <1>1, <1>2, <1>3

LEMMA FlushStep ==
  ASSUME TypeOK, Times, Probing,
         NEW una \in Nat, una <= snd_nxt, NEW wnd \in Nat, NEW rto \in MinRto..MaxRto,
         NEW buf \in Buffers(una), Flush(buf, una, wnd, rto)
  PROVE  /\ snd_queue' \in Nat /\ snd_nxt' \in Nat /\ snd_nxt <= snd_nxt'
         /\ snd_buf' \in [una..(snd_nxt' - 1) -> Timers]
         /\ \A sn \in una..(snd_nxt - 1) : Kept(buf[sn], snd_buf'[sn])
         /\ \A sn \in snd_nxt..(snd_nxt' - 1) : Fresh(snd_buf'[sn])
         /\ Armed(wnd)
         /\ state' \in {"alive", "dead"}
         /\ \A f \in flight' : f \in flight \/ (f \in Transmission /\ f.at = now)
<1> DEFINE fresh == NewSegs(una, wnd)
           new == New(una, wnd)
           old == una..(snd_nxt - 1)
           going == new \cup {sn \in DOMAIN buf : Overdue(buf[sn], fresh)}
<1>1. fresh \in 0..snd_queue
  BY NewSegsType
<1>2. /\ snd_queue \in Nat /\ snd_nxt \in Nat /\ now \in Nat
      /\ snd_queue' = snd_queue - fresh /\ snd_nxt' = snd_nxt + fresh
  BY DEF TypeOK, Flush
<1>3. new = snd_nxt..(snd_nxt' - 1) /\ DOMAIN buf = old
  <2>1. new = snd_nxt..(snd_nxt + fresh - 1)
    BY DEF New
  <2>2. DOMAIN buf = old
    BY DEF Buffers
  <2>3. snd_nxt' = snd_nxt + fresh /\ snd_nxt \in Nat /\ fresh \in Int
    BY <1>1, <1>2
  <2> HIDE DEF fresh, new, old
  <2> QED
    BY <2>1, <2>2, <2>3, SMT
<1>4. snd_buf' = [sn \in DOMAIN buf \cup new |->
           IF sn \in new
           THEN [at |-> now, rto |-> rto, xmit |-> 1, fastack |-> 0, acked |-> FALSE]
           ELSE Looked(buf[sn], fresh, rto)]
  BY DEF Flush
<1>5. flight' = flight \cup {[sn |-> sn, at |-> now] : sn \in going}
  BY DEF Flush
<1>6. state' \in {"alive", "dead"}
  BY DEF Flush, TypeOK
<1>7. Armed(wnd)
  BY ProbeStep DEF Flush
<1>8. rto \in 1..(Lifetime + MaxRto) /\ rto \in Nat
  BY Bounds, SMT
<1> HIDE DEF fresh, new, going
<1>9. snd_queue' \in Nat /\ snd_nxt' \in Nat /\ snd_nxt <= snd_nxt'
  BY <1>1, <1>2, SMT
<1>10. old \cup new = una..(snd_nxt' - 1) /\ old \cap new = {}
  BY <1>3, <1>9, <1>2, SMT
<1>11. ASSUME NEW sn \in new
       PROVE  Fresh(snd_buf'[sn])
  <2>1. snd_buf'[sn] = [at |-> now, rto |-> rto, xmit |-> 1, fastack |-> 0, acked |-> FALSE]
    BY <1>4, <1>3
  <2> QED
    BY <2>1, <1>2, <1>8 DEF Fresh, Timers
<1>12. ASSUME NEW sn \in old
       PROVE  Kept(buf[sn], snd_buf'[sn]) /\ snd_buf'[sn] \in Timers
  <2>1. snd_buf'[sn] = Looked(buf[sn], fresh, rto)
    BY <1>3, <1>4, <1>10
  <2>2. /\ buf[sn] \in Timers
        /\ buf[sn].at \in born..now /\ buf[sn].rto \in 1..(Lifetime + MaxRto)
    BY DEF Buffers
  <2> DEFINE seg == buf[sn]
  <2> HIDE DEF seg
  <2>3. /\ seg \in Timers
        /\ seg.at \in born..now /\ seg.rto \in 1..(Lifetime + MaxRto)
    BY <2>2 DEF seg
  <2>4. Expired(seg) <=> now >= seg.at + seg.rto
    BY <2>3, ExpiredMeans
  <2>5. seg.fastack >= FastResend => seg.fastack > 0
    BY <2>3, TimersConstants, SMT DEF Timers
  <2>6. ~seg.acked /\ now < seg.at + seg.rto /\ seg.fastack = 0 => ~Overdue(seg, fresh)
    BY <2>4, <2>5, <2>3, Bounds, SMT DEF Overdue, Skipped, Timers, TypeOK, Times
  <2>7. CASE ~Overdue(seg, fresh)
    <3>1. seg.acked \/ now < seg.at + seg.rto
      BY <2>7, <2>4, <2>3, Bounds, SMT DEF Overdue, TypeOK, Timers, Times
    <3> QED
      BY <2>7, <2>1, <2>3, <3>1 DEF Looked, Kept, seg
  <2>8. CASE Overdue(seg, fresh)
    <3>1. ~seg.acked /\ (Skipped(seg, fresh) \/ Expired(seg))
      BY <2>8 DEF Overdue
    <3>2. seg.fastack > 0 \/ now >= seg.at + seg.rto
      BY <3>1, <2>4, <2>5 DEF Skipped
    <3> DEFINE longer == IF Skipped(seg, fresh) THEN rto ELSE seg.rto + rto \div 2
    <3>3. snd_buf'[sn] = [at |-> now, xmit |-> seg.xmit + 1, fastack |-> 0,
                          acked |-> FALSE, rto |-> longer]
      BY <2>8, <2>1 DEF Looked, seg
    <3>4. longer \in 1..(Lifetime + MaxRto)
      <4>1. CASE Skipped(seg, fresh)
        BY <4>1, <1>8
      <4>2. CASE ~Skipped(seg, fresh)
        <5>1. now >= seg.at + seg.rto
          BY <4>2, <3>1, <2>4
        <5>2. seg.rto <= Lifetime
          BY <5>1, <2>3, Bounds, SMT DEF TypeOK, Times
        <5>3. rto \div 2 \in 0..MaxRto
          BY <1>8, Bounds, SMT
        <5>4. longer = seg.rto + rto \div 2
          BY <4>2
        <5> HIDE DEF longer
        <5> QED
          BY <5>2, <5>3, <5>4, <2>3, Bounds, SMT
      <4> QED
        BY <4>1, <4>2
    <3> HIDE DEF longer
    <3>5. seg.xmit + 1 \in Nat /\ longer \in Nat
      BY <2>3, <3>4, Bounds, SMT DEF Timers
    <3>6. snd_buf'[sn] \in Timers
      BY <3>3, <3>5, <1>2 DEF Timers
    <3> QED
      BY <3>1, <3>2, <3>3, <3>4, <3>6 DEF Kept, seg
  <2> QED
    BY <2>7, <2>8
<1>13. snd_buf' \in [una..(snd_nxt' - 1) -> Timers]
  <2>1. \A sn \in old \cup new : snd_buf'[sn] \in Timers
    BY <1>11, <1>12 DEF Fresh
  <2>2. DOMAIN snd_buf' = old \cup new
    BY <1>4, <1>3
  <2>3. snd_buf' = [sn \in old \cup new |-> snd_buf'[sn]]
    BY <2>2, <1>4, <1>3
  <2> QED
    BY <2>1, <2>3, <1>10
<1>14. \A f \in flight' : f \in flight \/ (f \in Transmission /\ f.at = now)
  <2>1. going \subseteq Nat
    BY <1>3, <1>9, <1>2, SMT DEF going
  <2> QED
    BY <2>1, <1>5, <1>2 DEF Transmission
<1> QED
  BY <1>6, <1>7, <1>9, <1>3, <1>11, <1>12, <1>13, <1>14

-----------------------------------------------------------------------------
(* Input.                                                                  *)

\* The estimate stays within what has been measured (update_ack).
LEMMA Estimate ==
  ASSUME RtoInRange, NEW rtt \in 0..MaxAge
  PROVE  srtt(rtt) \in 0..MaxAge /\ rttvar(rtt) \in 0..MaxAge /\ Rto(rtt) \in MinRto..MaxRto
<1>1. /\ rx_srtt \in 0..MaxAge /\ rx_rttvar \in 0..MaxAge /\ MaxAge \in Nat
      /\ rtt \in Nat /\ rtt <= MaxAge
  BY Bounds, SMT DEF RtoInRange
<1>2. srtt(rtt) \in 0..MaxAge
  BY <1>1, SMT DEF srtt
<1>3. abs(rtt - rx_srtt) \in 0..MaxAge
  BY <1>1, SMT DEF abs
<1>4. ASSUME NEW delta \in 0..MaxAge
      PROVE  /\ rx_rttvar + (delta - rx_rttvar) \div 32 \in 0..MaxAge
             /\ rx_rttvar + (delta - rx_rttvar) \div 4 \in 0..MaxAge
  BY <1>1, SMT
<1>5. rtt \div 2 \in 0..MaxAge
  BY <1>1, SMT
<1>6. rttvar(rtt) \in 0..MaxAge
  BY <1>3, <1>4, <1>5 DEF rttvar
<1>7. Rto(rtt) \in MinRto..MaxRto
  <2>1. ASSUME NEW mid \in Int
        PROVE  ibound(MinRto, mid, MaxRto) \in MinRto..MaxRto
    BY Bounds, SMT DEF ibound, imin, imax
  <2>2. srtt(rtt) + imax(Interval, 4 * rttvar(rtt)) \in Int
    BY <1>2, <1>6, Bounds, SMT DEF imax
  <2> QED
    BY <2>1, <2>2 DEF Rto
<1> QED
  BY <1>2, <1>6, <1>7

\* What a datagram's acknowledgements do to a segment that una leaves.
LEMMA AckedStep ==
  ASSUME IInv, NEW sn \in DOMAIN snd_buf, NEW una \in Nat,
         NEW n \in Nat, NEW acks \in [1..n -> flight]
  PROVE  LET seg == snd_buf[sn]
             after == Acked(sn, seg, una, acks)
         IN  /\ after \in Timers
             /\ after.at = seg.at /\ after.rto = seg.rto /\ after.xmit = seg.xmit
             /\ seg.acked => after.acked
             /\ after.fastack > 0 =>
                  \E later \in heard \cup {acks[i] : i \in DOMAIN acks} :
                    later.sn > sn /\ later.at >= seg.at
<1> DEFINE seg == snd_buf[sn]
           after == Acked(sn, seg, una, acks)
           passed == Passed(sn, seg, una, acks)
<1>1. /\ seg \in Timers /\ seg.at \in born..now
      /\ seg.fastack > 0 => \E later \in heard : later.sn > sn /\ later.at >= seg.at
  BY DEF IInv, TypeOK, Segments
<1>2. /\ born \in Nat /\ now \in Nat /\ now <= born + Lifetime
      /\ \A f \in flight : f \in Transmission /\ f.at \in born..now
  BY DEF IInv, TypeOK, Times
<1>3. passed \subseteq 1..n
  BY DEF Passed
<1>4. IsFiniteSet(passed) /\ Cardinality(passed) \in Nat
  <2>1. IsFiniteSet(1..n)
    BY FS_Interval
  <2>2. IsFiniteSet(passed)
    BY <2>1, <1>3, FS_Subset, Zenon
  <2> QED
    BY <2>2, FS_CardinalityType
<1>5. Cardinality(passed) = 0 <=> passed = {}
  BY <1>4, FS_EmptySet
<1>6. ASSUME NEW i \in passed
      PROVE  acks[i].sn > sn /\ acks[i].at >= seg.at
  <2>1. i \in 1..n /\ acks[i] \in flight
    BY <1>3
  <2>2. acks[i].sn > sn /\ itimediff(seg.at, acks[i].at) <= 0
    BY DEF Passed
  <2>3. /\ seg.at \in Nat /\ acks[i].at \in Nat
        /\ -HalfRange <= seg.at - acks[i].at /\ seg.at - acks[i].at < HalfRange
    <3> DEFINE at == acks[i].at
               first == seg.at
    <3>1. first \in born..now /\ at \in born..now
      BY <2>1, <1>1, <1>2
    <3> HIDE DEF at, first
    <3>2. /\ first \in Nat /\ at \in Nat
          /\ -HalfRange <= first - at /\ first - at < HalfRange
      BY <3>1, <1>2, Bounds, SMT
    <3> QED
      BY <3>2 DEF at, first
  <2>4. itimediff(seg.at, acks[i].at) = seg.at - acks[i].at
    BY <2>3, Serial
  <2> QED
    BY <2>2, <2>3, <2>4, SMT
<1> HIDE DEF seg, passed
<1>7. after = [seg EXCEPT !.acked = @ \/ \E i \in DOMAIN acks : acks[i].sn = sn,
                          !.fastack = @ + Cardinality(passed)]
  BY DEF Acked, passed
<1> HIDE DEF after
<1>8. seg.fastack + Cardinality(passed) \in Nat /\ seg.fastack \in Nat
  BY <1>1, <1>4, SMT DEF Timers
<1>9. (seg.acked \/ \E i \in DOMAIN acks : acks[i].sn = sn) \in BOOLEAN
  OBVIOUS
<1>10. /\ after.at = seg.at /\ after.rto = seg.rto /\ after.xmit = seg.xmit
       /\ after.acked = (seg.acked \/ \E i \in DOMAIN acks : acks[i].sn = sn)
       /\ after.fastack = seg.fastack + Cardinality(passed)
  BY <1>7, <1>1 DEF Timers
<1>11. after \in Timers
  BY <1>7, <1>1, <1>8, <1>9, Zenon DEF Timers
<1>12. after.fastack > 0 =>
         \E later \in heard \cup {acks[i] : i \in DOMAIN acks} :
           later.sn > sn /\ later.at >= seg.at
  <2>1. CASE seg.fastack > 0
    BY <2>1, <1>1
  <2>2. CASE passed # {}
    <3>1. PICK i \in passed : TRUE
      BY <2>2
    <3>2. i \in DOMAIN acks
      BY <3>1, <1>3
    <3> QED
      BY <3>1, <3>2, <1>6
  <2> QED
    BY <2>1, <2>2, <1>5, <1>8, <1>10, <1>4, SMT
<1> QED
  BY <1>10, <1>11, <1>12 DEF seg, after

-----------------------------------------------------------------------------
(* The inductive invariant.                                                *)

LEMMA Initial == Init => IInv
<1> SUFFICES ASSUME Init PROVE IInv
  OBVIOUS
<1> USE Bounds DEF Init
<1>1. born \in Nat /\ snd_buf = [sn \in {} |-> sn] /\ InitRmtWnd \in Nat
  BY TimersConstants
<1>2. TypeOK
  <2>1. snd_buf \in [0..(0 - 1) -> Timers]
    BY <1>1, SMT
  <2>2. snd_una = 0 /\ snd_nxt = 0 /\ snd_buf \in [snd_una..(snd_nxt - 1) -> Timers]
    BY <2>1
  <2>3. /\ now \in Nat /\ ts_flush \in Nat /\ rx_srtt \in Nat /\ rx_rttvar \in Nat
        /\ rx_rto \in Nat /\ rmt_wnd \in Nat /\ probe_wait \in Nat /\ ts_probe \in Nat
        /\ looked \in Nat /\ closed \in Nat /\ inputs \in Nat /\ snd_queue \in Nat
    BY <1>1, SMT
  <2>4. updated \in BOOLEAN /\ state \in {"alive", "dead"} /\ flight = {} /\ heard = {}
    OBVIOUS
  <2> QED
    BY <1>1, <2>2, <2>3, <2>4, Zenon DEF TypeOK
<1>3. RtoInRange
  BY SMT DEF RtoInRange
<1>4. Times
  BY <1>1, SMT DEF Times
<1>5. Segments
  BY <1>1 DEF Segments
<1>6. Probing
  BY SMT DEF Probing
<1> QED
  BY <1>2, <1>3, <1>4, <1>5, <1>6 DEF IInv

LEMMA TickStep == IInv /\ Tick => IInv'
<1> SUFFICES ASSUME IInv, Tick PROVE IInv'
  OBVIOUS
<1> USE DEF IInv
<1>1. /\ now' = now + 1 /\ now \in Nat /\ now' <= born + Lifetime /\ flight' \subseteq flight
      /\ \A f \in flight' : now' - f.at <= MaxAge
      /\ UNCHANGED <<updated, ts_flush, rttVars, snd_queue, snd_nxt, snd_buf, probe_wait,
                     ts_probe, state, snd_una, rmt_wnd, born, looked, closed, inputs, heard>>
  BY Bounds, SMT DEF Tick, TypeOK, Times
<1>2. TypeOK'
  BY <1>1 DEF TypeOK, rttVars
<1>3. RtoInRange'
  BY <1>1 DEF RtoInRange, rttVars
<1>4. Times'
  <2>1. \A f \in flight' : f.at \in born..now
    BY <1>1 DEF Times
  <2>2. born \in Nat /\ looked \in Nat /\ closed \in Nat
    BY DEF TypeOK
  <2> QED
    BY <2>1, <2>2, <1>1, SMT DEF Times, TypeOK
<1>5. Segments'
  <2>1. born..now \subseteq born'..now'
    BY <1>1, SMT DEF TypeOK
  <2> QED
    BY <2>1, <1>1 DEF Segments, Flushed
<1>6. Probing'
  <2>1. born..(now + ProbeLimit) \subseteq born'..(now' + ProbeLimit)
    BY <1>1, Bounds, SMT DEF TypeOK
  <2> QED
    BY <2>1, <1>1 DEF Probing, Flushed
<1> QED
  BY <1>2, <1>3, <1>4, <1>5, <1>6

LEMMA SendStep == IInv /\ Send => IInv'
<1> SUFFICES ASSUME IInv, Send PROVE IInv'
  OBVIOUS
<1> USE DEF IInv
<1>1. /\ snd_queue' = snd_queue + 1
      /\ UNCHANGED <<now, updated, ts_flush, rttVars, snd_nxt, snd_buf, probe_wait,
                     ts_probe, state, flight, snd_una, rmt_wnd, born, looked, closed,
                     inputs, heard>>
  BY DEF Send
<1>2. TypeOK'
  BY <1>1, SMT DEF TypeOK, rttVars
<1>3. RtoInRange' /\ Times' /\ Segments' /\ Probing'
  BY <1>1 DEF RtoInRange, Times, Segments, Probing, Flushed, rttVars
<1> QED
  BY <1>2, <1>3

\* Update flushes and sets ts_flush to a time not further than an interval
\* away, or it is not yet due.
LEMMA UpdateCases ==
  ASSUME IInv, Update
  PROVE  /\ updated' = TRUE /\ looked' = now
         /\ UNCHANGED <<now, rttVars, snd_una, rmt_wnd, born, closed, inputs, heard>>
         /\ \/ /\ Flush(snd_buf, snd_una, rmt_wnd, rx_rto)
               /\ ts_flush' \in (now + 1)..(now + Interval)
            \/ /\ updated /\ now < ts_flush /\ ts_flush' = ts_flush
               /\ UNCHANGED sndVars
<1> USE DEF IInv
<1> DEFINE flushed == IF updated THEN ts_flush ELSE now
           slap == itimediff(now, flushed)
           due == IF slap >= Slap \/ slap < -Slap THEN now ELSE flushed
           next == due + Interval
<1>1. /\ updated' = TRUE /\ looked' = now
      /\ UNCHANGED <<now, rttVars, snd_una, rmt_wnd, born, closed, inputs, heard>>
  BY DEF Update
<1>2. /\ now \in Nat /\ ts_flush \in Nat /\ born <= looked /\ looked <= now
      /\ born \in Nat /\ looked \in Nat /\ now <= born + Lifetime
      /\ updated => looked < ts_flush /\ ts_flush <= looked + Interval
  BY DEF TypeOK, Times
<1>3. Slap \in Nat /\ Interval < Slap
  BY TimersConstants
<1>4. IF itimediff(now, due) >= 0
      THEN /\ ts_flush' = IF itimediff(now, next) >= 0 THEN now + Interval ELSE next
           /\ Flush(snd_buf, snd_una, rmt_wnd, rx_rto)
      ELSE ts_flush' = due /\ UNCHANGED sndVars
  BY DEF Update
<1>5. flushed \in Nat /\ now - flushed <= Lifetime /\ flushed <= now + Interval
  BY <1>2, Bounds, SMT
<1> HIDE DEF flushed
<1>6. slap = now - flushed
  BY <1>5, <1>2, Bounds, Serial, SMT
<1>7. due \in Nat /\ now - due <= Lifetime /\ due <= now + Interval /\ (due = now \/ due = flushed)
  BY <1>5, <1>2, Bounds, SMT
<1> HIDE DEF due
<1>8. itimediff(now, due) = now - due
  BY <1>7, <1>2, Bounds, Serial, SMT
<1>10. CASE due <= now
  <2>0. next \in Nat /\ itimediff(now, next) = now - next /\ next = due + Interval
    <3>1. next \in Nat /\ -HalfRange <= now - next /\ now - next < HalfRange /\ next = due + Interval
      BY <1>10, <1>7, <1>2, Bounds, SMT
    <3> HIDE DEF next
    <3> QED
      BY <3>1, <1>2, Serial
  <2> HIDE DEF next
  <2>1. /\ ts_flush' = IF now - next >= 0 THEN now + Interval ELSE next
        /\ Flush(snd_buf, snd_una, rmt_wnd, rx_rto)
    BY <1>10, <1>4, <1>8, <2>0, <1>7, <1>2, SMT
  <2>2. ts_flush' \in (now + 1)..(now + Interval)
    BY <2>1, <1>10, <2>0, <1>7, <1>2, Bounds, SMT
  <2> QED
    BY <1>1, <2>1, <2>2
<1>11. CASE due > now
  <2>1. ts_flush' = due /\ UNCHANGED sndVars
    BY <1>11, <1>4, <1>8, <1>7, <1>2, SMT
  <2>2. due = flushed
    BY <1>11, <1>7, <1>2, SMT
  <2>3. updated /\ due = ts_flush
    BY <1>11, <2>2, <1>2, SMT DEF flushed
  <2> QED
    BY <1>1, <1>11, <2>1, <2>3
<1>12. due <= now \/ due > now
  BY <1>7, <1>2, SMT
<1> QED
  BY <1>10, <1>11, <1>12

LEMMA UpdateStep == IInv /\ Update => IInv'
<1> SUFFICES ASSUME IInv, Update PROVE IInv'
  OBVIOUS
<1>1. /\ updated' = TRUE /\ looked' = now /\ now' = now
      /\ UNCHANGED <<rttVars, snd_una, rmt_wnd, born, closed, inputs, heard>>
  BY UpdateCases
<1>2. TypeOK /\ RtoInRange /\ Times /\ Segments /\ Probing
  BY DEF IInv
<1>3. RtoInRange'
  BY <1>1, <1>2 DEF RtoInRange, rttVars
<1>4. /\ now \in Nat /\ ts_flush \in Nat /\ born \in Nat /\ looked \in Nat /\ closed \in Nat
      /\ born <= looked /\ looked <= now /\ now <= born + Lifetime
      /\ born <= closed /\ closed <= now
  BY <1>2 DEF TypeOK, Times
<1>5. CASE /\ Flush(snd_buf, snd_una, rmt_wnd, rx_rto)
           /\ ts_flush' \in (now + 1)..(now + Interval)
  <2>1. /\ snd_una \in Nat /\ snd_una <= snd_nxt /\ rmt_wnd \in Nat
        /\ rx_rto \in MinRto..MaxRto /\ snd_buf \in Buffers(snd_una)
    BY <1>2 DEF TypeOK, RtoInRange, Segments, Buffers
  <2>2. /\ snd_queue' \in Nat /\ snd_nxt' \in Nat /\ snd_nxt <= snd_nxt'
        /\ snd_buf' \in [snd_una..(snd_nxt' - 1) -> Timers]
        /\ \A sn \in snd_una..(snd_nxt - 1) : Kept(snd_buf[sn], snd_buf'[sn])
        /\ \A sn \in snd_nxt..(snd_nxt' - 1) : Fresh(snd_buf'[sn])
        /\ Armed(rmt_wnd)
        /\ state' \in {"alive", "dead"}
        /\ \A f \in flight' : f \in flight \/ (f \in Transmission /\ f.at = now)
    BY <1>2, <1>5, <2>1, FlushStep
  <2>3. probe_wait' \in 0..ProbeLimit /\ ts_probe' \in Nat
    BY <2>2, <1>4, Bounds, SMT DEF Armed
  <2>4. ts_flush' \in Nat /\ now < ts_flush' /\ ts_flush' <= now + Interval
    BY <1>5, <1>4, Bounds, SMT
  <2>5. TypeOK'
    <3>1. flight' \subseteq Transmission
      BY <2>2, <1>2 DEF TypeOK
    <3>2. probe_wait' \in Nat
      BY <2>3, Bounds, SMT
    <3> QED
      BY <1>1, <1>2, <2>2, <2>3, <2>4, <3>1, <3>2 DEF TypeOK, rttVars
  <2>6. Times'
    <3>1. \A f \in flight' : f.at \in born..now /\ now - f.at <= MaxAge
      BY <2>2, <1>2, <1>4, Bounds, SMT DEF Times
    <3> QED
      BY <3>1, <1>1, <1>4, <2>4, SMT DEF Times
  <2>7. Segments'
    <3>1. ASSUME NEW sn \in snd_una..(snd_nxt' - 1)
          PROVE  /\ snd_buf'[sn].at \in born..now
                 /\ snd_buf'[sn].rto \in 1..(Lifetime + MaxRto)
                 /\ ~snd_buf'[sn].acked => ts_flush' < snd_buf'[sn].at + snd_buf'[sn].rto + Interval
                 /\ snd_buf'[sn].fastack > 0 =>
                      \E later \in heard : later.sn > sn /\ later.at >= snd_buf'[sn].at
      <4>1. CASE /\ sn \in snd_una..(snd_nxt - 1) /\ snd_buf'[sn] = snd_buf[sn]
                 /\ snd_buf[sn].acked \/ now < snd_buf[sn].at + snd_buf[sn].rto
        <5>1. /\ snd_buf[sn].at \in born..now /\ snd_buf[sn].rto \in 1..(Lifetime + MaxRto)
              /\ snd_buf[sn].fastack > 0 =>
                   \E later \in heard : later.sn > sn /\ later.at >= snd_buf[sn].at
          BY <4>1, <1>2 DEF Segments, TypeOK
        <5>2. ~snd_buf[sn].acked => ts_flush' < snd_buf[sn].at + snd_buf[sn].rto + Interval
          BY <4>1, <5>1, <2>4, <1>4, Bounds, SMT
        <5> QED
          BY <4>1, <5>1, <5>2
      <4>2. CASE /\ snd_buf'[sn].at = now /\ snd_buf'[sn].rto \in 1..(Lifetime + MaxRto)
                 /\ snd_buf'[sn].fastack = 0
        BY <4>2, <2>4, <1>4, Bounds, SMT
      <4>3. sn \in snd_una..(snd_nxt - 1) \/ sn \in snd_nxt..(snd_nxt' - 1)
        <5>1. snd_una \in Nat /\ snd_nxt \in Nat /\ snd_nxt' \in Nat
          BY <2>2, <1>2 DEF TypeOK
        <5> QED
          BY <5>1, Between
      <4> QED
        BY <4>1, <4>2, <4>3, <2>2 DEF Kept, Fresh
    <3>2. DOMAIN snd_buf' = snd_una..(snd_nxt' - 1)
      BY <2>2
    <3>3. snd_una <= snd_nxt'
      BY <2>1, <2>2, <1>2, SMT DEF TypeOK
    <3> QED
      BY <3>1, <3>2, <3>3, <1>1 DEF Segments, Flushed
  <2>8. Probing'
    <3>1. probe_wait' <= ProbeLimit
      BY <2>3, Bounds, SMT
    <3>2. probe_wait' # 0 => /\ ts_probe' \in born..(now + ProbeLimit)
                             /\ ts_flush' < ts_probe' + Interval
      BY <2>2, <2>4, <1>4, Bounds, SMT DEF Armed
    <3>3. probe_wait' = 0 => rmt_wnd # 0
      BY <2>2, Bounds, SMT DEF Armed
    <3> QED
      BY <3>1, <3>2, <3>3, <1>1 DEF Probing, Flushed
  <2> QED
    BY <1>3, <2>5, <2>6, <2>7, <2>8 DEF IInv
<1>6. CASE updated /\ now < ts_flush /\ ts_flush' = ts_flush /\ UNCHANGED sndVars
  <2>1. TypeOK'
    BY <1>1, <1>2, <1>6 DEF TypeOK, rttVars, sndVars
  <2>2. Times'
    <3>1. ts_flush <= now + Interval
      BY <1>2, <1>4, <1>6, Bounds, SMT DEF Times
    <3>2. flight' = flight /\ \A f \in flight : f.at \in born..now /\ now - f.at <= MaxAge
      BY <1>2, <1>6 DEF Times, sndVars
    <3> QED
      BY <3>1, <3>2, <1>1, <1>4, <1>6 DEF Times
  <2>3. Segments'
    BY <1>1, <1>2, <1>6 DEF Segments, Flushed, sndVars
  <2>4. Probing'
    BY <1>1, <1>2, <1>6 DEF Probing, Flushed, sndVars
  <2> QED
    BY <1>3, <2>1, <2>2, <2>3, <2>4 DEF IInv
<1> QED
  BY <1>5, <1>6, UpdateCases

\* snd_buf when flush is called by Input.
Left(una, acks) ==
  [sn \in {sn \in DOMAIN snd_buf : sn >= una} |-> Acked(sn, snd_buf[sn], una, acks)]

LEMMA InputBuffer ==
  ASSUME IInv, NEW n \in Nat, NEW acks \in [1..n -> flight], NEW una \in snd_una..snd_nxt
  PROVE  LET buf == Left(una, acks)
         IN  /\ buf \in Buffers(una)
             /\ \A sn \in una..(snd_nxt - 1) :
                  /\ sn \in DOMAIN snd_buf
                  /\ buf[sn].at = snd_buf[sn].at /\ buf[sn].rto = snd_buf[sn].rto
                  /\ buf[sn].xmit = snd_buf[sn].xmit
                  /\ buf[sn].at \in born..now /\ buf[sn].rto \in 1..(Lifetime + MaxRto)
                  /\ ~buf[sn].acked => Flushed(buf[sn].at + buf[sn].rto)
                  /\ buf[sn].fastack > 0 =>
                       \E later \in heard \cup {acks[i] : i \in DOMAIN acks} :
                         later.sn > sn /\ later.at >= buf[sn].at
<1> DEFINE buf == Left(una, acks)
           left == {sn \in DOMAIN snd_buf : sn >= una}
           known == heard \cup {acks[i] : i \in DOMAIN acks}
<1>1. TypeOK /\ Segments
  BY DEF IInv
<1>2. snd_una \in Nat /\ snd_nxt \in Nat /\ una \in Nat /\ snd_una <= una /\ una <= snd_nxt
  <2>1. snd_una \in Nat /\ snd_nxt \in Nat
    BY <1>1 DEF TypeOK
  <2> QED
    BY <2>1, SMT
<1>3. left = una..(snd_nxt - 1) /\ left \subseteq DOMAIN snd_buf
  BY <1>1, <1>2, SMT DEF TypeOK
<1>4. buf = [sn \in left |-> Acked(sn, snd_buf[sn], una, acks)]
  BY DEF Left
<1> HIDE DEF buf, left
<1>5. ASSUME NEW sn \in una..(snd_nxt - 1)
      PROVE  /\ sn \in DOMAIN snd_buf /\ buf[sn] \in Timers
             /\ buf[sn].at = snd_buf[sn].at /\ buf[sn].rto = snd_buf[sn].rto
             /\ buf[sn].xmit = snd_buf[sn].xmit
             /\ buf[sn].at \in born..now /\ buf[sn].rto \in 1..(Lifetime + MaxRto)
             /\ ~buf[sn].acked => Flushed(buf[sn].at + buf[sn].rto)
             /\ buf[sn].fastack > 0 =>
                  \E later \in known : later.sn > sn /\ later.at >= buf[sn].at
  <2>1. sn \in DOMAIN snd_buf /\ buf[sn] = Acked(sn, snd_buf[sn], una, acks)
    BY <1>3, <1>4
  <2>2. LET seg == snd_buf[sn]
            after == Acked(sn, seg, una, acks)
        IN  /\ after \in Timers
            /\ after.at = seg.at /\ after.rto = seg.rto /\ after.xmit = seg.xmit
            /\ seg.acked => after.acked
            /\ after.fastack > 0 =>
                 \E later \in known : later.sn > sn /\ later.at >= seg.at
    BY <2>1, <1>2, AckedStep
  <2>3. /\ snd_buf[sn].at \in born..now /\ snd_buf[sn].rto \in 1..(Lifetime + MaxRto)
        /\ ~snd_buf[sn].acked => Flushed(snd_buf[sn].at + snd_buf[sn].rto)
    BY <2>1, <1>1 DEF Segments
  <2> QED
    BY <2>1, <2>2, <2>3
<1>6. buf \in Buffers(una)
  <2>1. buf \in [una..(snd_nxt - 1) -> Timers]
    BY <1>3, <1>4, <1>5
  <2> QED
    BY <2>1, <1>5 DEF Buffers
<1> QED
  BY <1>5, <1>6 DEF buf

LEMMA InputStep == IInv /\ InputAny => IInv'
<1> SUFFICES ASSUME IInv, InputAny PROVE IInv'
  OBVIOUS
<1>1. PICK n \in 0..MaxAcks : \E acks \in [1..n -> flight], una \in snd_una..snd_nxt, wnd \in Wnds :
        Input(acks, una, wnd)
  BY DEF InputAny
<1>2. PICK acks \in [1..n -> flight], una \in snd_una..snd_nxt, wnd \in Wnds :
        Input(acks, una, wnd)
  BY <1>1
<1>3. TypeOK /\ RtoInRange /\ Times /\ Segments /\ Probing
  BY DEF IInv
<1>4. /\ now \in Nat /\ ts_flush \in Nat /\ born \in Nat /\ looked \in Nat /\ closed \in Nat
      /\ born <= looked /\ looked <= now /\ now <= born + Lifetime
      /\ born <= closed /\ closed <= now /\ inputs \in Nat
      /\ snd_una \in Nat /\ snd_nxt \in Nat /\ snd_una <= snd_nxt /\ updated \in BOOLEAN
  BY <1>3 DEF TypeOK, Times, Segments
<1>5. n \in Nat /\ una \in Nat /\ una <= snd_nxt /\ snd_una <= una /\ wnd \in Nat
  BY <1>4, TimersConstants, SMT
<1> DEFINE buf == Left(una, acks)
           rtt == itimediff(now, acks[Len(acks)].at)
           known == heard \cup {acks[i] : i \in DOMAIN acks}
<1>6. /\ inputs' = inputs + 1 /\ rmt_wnd' = wnd /\ snd_una' = una
      /\ IF acks # <<>> /\ rtt >= 0 THEN update_ack(rtt) ELSE UNCHANGED rttVars
      /\ IF una > snd_una
         THEN Flush(buf, una, wnd, rx_rto')
         ELSE snd_buf' = buf /\ UNCHANGED <<snd_queue, snd_nxt, probe_wait, ts_probe, state, flight>>
      /\ closed' = IF rmt_wnd # 0 /\ wnd = 0 THEN now ELSE closed
      /\ heard' = known
      /\ UNCHANGED <<now, updated, ts_flush, born, looked>>
  BY <1>2 DEF Input, Left
<1>8. RtoInRange' /\ rx_srtt' \in Nat /\ rx_rttvar' \in Nat /\ rx_rto' \in Nat
  <2>1. RtoInRange'
    <3>1. CASE acks # <<>> /\ rtt >= 0
      <4>1. Len(acks) \in 1..n
        BY <3>1, <1>5, SMT
      <4>2. acks[Len(acks)] \in flight
        BY <4>1
      <4>3. /\ acks[Len(acks)].at \in born..now /\ now - acks[Len(acks)].at <= MaxAge
        BY <4>2, <1>3 DEF Times
      <4> DEFINE at == acks[Len(acks)].at
      <4> HIDE DEF at
      <4>4. at \in born..now /\ now - at <= MaxAge
        BY <4>3 DEF at
      <4>5. itimediff(now, at) = now - at
        BY <4>4, <1>4, Bounds, Serial, SMT
      <4>6. rtt \in 0..MaxAge
        BY <4>4, <4>5, <1>4, <3>1, Bounds, SMT DEF at
      <4> HIDE DEF rtt
      <4>7. /\ srtt(rtt) \in 0..MaxAge /\ rttvar(rtt) \in 0..MaxAge
            /\ Rto(rtt) \in MinRto..MaxRto
        BY <4>6, <1>3, Estimate
      <4>8. rx_srtt' = srtt(rtt) /\ rx_rttvar' = rttvar(rtt) /\ rx_rto' = Rto(rtt)
        BY <1>6, <3>1 DEF update_ack
      <4> QED
        BY <4>7, <4>8 DEF RtoInRange
    <3>2. CASE ~(acks # <<>> /\ rtt >= 0)
      BY <3>2, <1>6, <1>3 DEF rttVars, RtoInRange
    <3> QED
      BY <3>1, <3>2
  <2> QED
    BY <2>1, Bounds, SMT DEF RtoInRange
<1> HIDE DEF rtt
<1>9. buf \in Buffers(una)
  BY <1>3, <1>5, InputBuffer DEF IInv
<1>10. buf \in [una..(snd_nxt - 1) -> Timers]
  <2> HIDE DEF buf
  <2> QED
    BY <1>9 DEF Buffers
<1>11. ASSUME NEW sn \in una..(snd_nxt - 1)
       PROVE  /\ buf[sn].at \in born..now /\ buf[sn].rto \in 1..(Lifetime + MaxRto)
              /\ ~buf[sn].acked => Flushed(buf[sn].at + buf[sn].rto)
              /\ buf[sn].fastack > 0 =>
                   \E later \in known : later.sn > sn /\ later.at >= buf[sn].at
  BY <1>3, <1>5, InputBuffer DEF IInv
<1>12. known \subseteq Transmission
  <2>1. \A i \in DOMAIN acks : acks[i] \in flight
    OBVIOUS
  <2> QED
    BY <2>1, <1>3 DEF TypeOK
<1> HIDE DEF buf, known
<1>13. /\ now' = now /\ updated' = updated /\ ts_flush' = ts_flush
       /\ born' = born /\ looked' = looked
       /\ closed' \in Nat /\ born <= closed' /\ closed' <= now
       /\ inputs' \in Nat
  BY <1>6, <1>4, SMT
<1>14. CASE una > snd_una
  <2>1. rx_rto' \in MinRto..MaxRto
    BY <1>8 DEF RtoInRange
  <2>2. Flush(buf, una, wnd, rx_rto')
    BY <1>6, <1>14
  <2>3. /\ snd_queue' \in Nat /\ snd_nxt' \in Nat /\ snd_nxt <= snd_nxt'
        /\ snd_buf' \in [una..(snd_nxt' - 1) -> Timers]
        /\ \A sn \in una..(snd_nxt - 1) : Kept(buf[sn], snd_buf'[sn])
        /\ \A sn \in snd_nxt..(snd_nxt' - 1) : Fresh(snd_buf'[sn])
        /\ Armed(wnd)
        /\ state' \in {"alive", "dead"}
        /\ \A f \in flight' : f \in flight \/ (f \in Transmission /\ f.at = now)
    BY <1>3, <1>5, <1>9, <2>1, <2>2, FlushStep
  <2>4. probe_wait' \in 0..ProbeLimit /\ ts_probe' \in Nat
    BY <2>3, <1>4, Bounds, SMT DEF Armed
  <2>5. updated => ts_flush <= now + Interval
    BY <1>3, <1>4, Bounds, SMT DEF Times
  <2>6. TypeOK'
    <3>1. flight' \subseteq Transmission
      BY <2>3, <1>3 DEF TypeOK
    <3>2. probe_wait' \in Nat
      BY <2>4, Bounds, SMT
    <3> QED
      BY <1>6, <1>8, <1>12, <1>13, <1>4, <1>5, <2>3, <2>4, <3>1, <3>2 DEF TypeOK
  <2>7. Times'
    <3>1. \A f \in flight' : f.at \in born..now /\ now - f.at <= MaxAge
      BY <2>3, <1>3, <1>4, Bounds, SMT DEF Times
    <3> QED
      BY <3>1, <1>3, <1>13, <1>4 DEF Times
  <2>8. Segments'
    <3>1. ASSUME NEW sn \in una..(snd_nxt' - 1)
          PROVE  /\ snd_buf'[sn].at \in born..now
                 /\ snd_buf'[sn].rto \in 1..(Lifetime + MaxRto)
                 /\ ~snd_buf'[sn].acked =>
                      (updated => ts_flush < snd_buf'[sn].at + snd_buf'[sn].rto + Interval)
                 /\ snd_buf'[sn].fastack > 0 =>
                      \E later \in known : later.sn > sn /\ later.at >= snd_buf'[sn].at
      <4>1. CASE sn \in una..(snd_nxt - 1) /\ snd_buf'[sn] = buf[sn]
        BY <4>1, <1>11 DEF Flushed
      <4>2. CASE /\ snd_buf'[sn].at = now /\ snd_buf'[sn].rto \in 1..(Lifetime + MaxRto)
                 /\ snd_buf'[sn].fastack = 0
        <5>1. ASSUME updated
              PROVE  ts_flush < now + snd_buf'[sn].rto + Interval
          <6> DEFINE rto == snd_buf'[sn].rto
          <6>1. rto \in Nat /\ rto >= 1
            BY <4>2, Bounds
          <6>2. ts_flush <= now + Interval
            BY <2>5, <5>1
          <6> HIDE DEF rto
          <6>3. ts_flush < now + rto + Interval
            BY <6>1, <6>2, <1>4, Bounds, SMT
          <6> QED
            BY <6>3 DEF rto
        <5>2. now \in born..now
          BY <1>4, SMT
        <5>3. ~(0 > 0)
          BY SMT
        <5> QED
          BY <4>2, <5>1, <5>2, <5>3
      <4>3. sn \in una..(snd_nxt - 1) \/ sn \in snd_nxt..(snd_nxt' - 1)
        BY <2>3, <1>4, <1>5, Between
      <4> QED
        BY <4>1, <4>2, <4>3, <2>3 DEF Kept, Fresh
    <3>2. DOMAIN snd_buf' = una..(snd_nxt' - 1)
      BY <2>3
    <3>3. una <= snd_nxt'
      BY <2>3, <1>4, <1>5, SMT
    <3> QED
      BY <3>1, <3>2, <3>3, <1>6, <1>13 DEF Segments, Flushed
  <2>9. Probing'
    <3>1. probe_wait' <= ProbeLimit
      BY <2>4, Bounds, SMT
    <3>2. probe_wait' # 0 => /\ ts_probe' \in born..(now + ProbeLimit)
                             /\ updated => ts_flush < ts_probe' + Interval
      BY <2>3, <2>5, <1>4, Bounds, SMT DEF Armed
    <3>3. probe_wait' = 0 => wnd # 0
      BY <2>3, Bounds, SMT DEF Armed
    <3> QED
      BY <3>1, <3>2, <3>3, <1>6, <1>13 DEF Probing, Flushed
  <2> QED
    BY <1>8, <2>6, <2>7, <2>8, <2>9 DEF IInv
<1>15. CASE ~(una > snd_una)
  <2>1. /\ snd_buf' = buf
        /\ UNCHANGED <<snd_queue, snd_nxt, probe_wait, ts_probe, state, flight>>
    BY <1>6, <1>15
  <2>2. TypeOK'
    BY <1>3, <1>6, <1>8, <1>10, <1>12, <1>13, <1>4, <1>5, <2>1 DEF TypeOK
  <2>3. Times'
    BY <2>1, <1>3, <1>13, <1>4 DEF Times
  <2>4. Segments'
    <3>1. DOMAIN buf = una..(snd_nxt - 1)
      BY <1>10
    <3> QED
      BY <3>1, <2>1, <1>5, <1>6, <1>11, <1>13 DEF Segments, Flushed
  <2>5. Probing'
    <3>1. rmt_wnd' = 0 /\ probe_wait = 0 /\ updated => ts_flush <= closed' + Interval
      <4>1. CASE rmt_wnd # 0 /\ wnd = 0
        <5>1. closed' = now
          BY <4>1, <1>6
        <5> QED
          BY <5>1, <1>3, <1>4, Bounds, SMT DEF Times
      <4>2. CASE ~(rmt_wnd # 0 /\ wnd = 0)
        <5>1. closed' = closed
          BY <4>2, <1>6
        <5> QED
          BY <5>1, <4>2, <1>6, <1>3 DEF Probing
      <4> QED
        BY <4>1, <4>2
    <3> QED
      BY <3>1, <2>1, <1>3, <1>13 DEF Probing, Flushed
  <2> QED
    BY <1>8, <2>2, <2>3, <2>4, <2>5 DEF IInv
<1> QED
  BY <1>14, <1>15

-----------------------------------------------------------------------------
(* Theorems.                                                               *)

LEMMA NextStep == IInv /\ [Next]_vars => IInv'
<1> SUFFICES ASSUME IInv, [Next]_vars PROVE IInv'
  OBVIOUS
<1>1. CASE Tick
  BY <1>1, TickStep
<1>2. CASE Send
  BY <1>2, SendStep
<1>3. CASE Update
  BY <1>3, UpdateStep
<1>4. CASE InputAny
  BY <1>4, InputStep
<1>5. CASE UNCHANGED vars
  BY <1>5 DEF vars, sndVars, rttVars, IInv, TypeOK, RtoInRange, Times, Segments, Probing, Flushed
<1> QED
  BY <1>1, <1>2, <1>3, <1>4, <1>5 DEF Next

\* The times that are compared are never 2^31 ms apart, and no timer is ever
\* an interval overdue without a flush.
THEOREM Bounded == Spec => []IInv
<1>1. Init => IInv
  BY Initial
<1>2. IInv /\ [Next]_vars => IInv'
  BY NextStep
<1> QED
  BY <1>1, <1>2, PTL DEF Spec

\* The timers keep their types.
THEOREM TimersTypes == Spec => []TypeOK
<1>1. IInv => TypeOK
  BY DEF IInv
<1> QED
  BY <1>1, Bounded, PTL

\* update_ack keeps the estimate and the timeout within their bounds.
THEOREM RtoBounded == Spec => []RtoInRange
<1>1. IInv => RtoInRange
  BY DEF IInv
<1> QED
  BY <1>1, Bounded, PTL

\* No segment is given up.
THEOREM NoneGivenUp == Spec => []ResentOnTime
<1>1. IInv => ResentOnTime
  <2> SUFFICES ASSUME IInv, NEW sn \in DOMAIN snd_buf, ~snd_buf[sn].acked
               PROVE  looked < snd_buf[sn].at + snd_buf[sn].rto + Interval
    BY DEF ResentOnTime
  <2>1. /\ snd_buf[sn].at \in born..now /\ snd_buf[sn].rto \in 1..(Lifetime + MaxRto)
        /\ updated => ts_flush < snd_buf[sn].at + snd_buf[sn].rto + Interval
    BY DEF IInv, Segments, Flushed
  <2>2. /\ now \in Nat /\ born \in Nat /\ looked \in Nat /\ ts_flush \in Nat
        /\ updated => looked < ts_flush
        /\ ~updated => looked = born
    BY DEF IInv, TypeOK, Times
  <2> QED
    BY <2>1, <2>2, Bounds, SMT
<1> QED
  BY <1>1, Bounded, PTL

\* A closed window is asked about again and again.
THEOREM Probed == Spec => []WindowIsProbed
<1>1. IInv => WindowIsProbed
  <2> SUFFICES ASSUME IInv, rmt_wnd = 0
               PROVE  IF probe_wait = 0 THEN looked < closed + Interval
                      ELSE looked < ts_probe + Interval /\ ts_probe <= now + ProbeLimit
    BY DEF WindowIsProbed
  <2>1. /\ now \in Nat /\ born \in Nat /\ looked \in Nat /\ ts_flush \in Nat /\ closed \in Nat
        /\ born <= closed
        /\ updated => looked < ts_flush
        /\ ~updated => looked = born
    BY DEF IInv, TypeOK, Times
  <2>2. CASE probe_wait = 0
    <3>1. updated => ts_flush <= closed + Interval
      BY <2>2 DEF IInv, Probing
    <3> QED
      BY <2>1, <2>2, <3>1, Bounds, SMT
  <2>3. CASE probe_wait # 0
    <3>1. ts_probe \in born..(now + ProbeLimit) /\ (updated => ts_flush < ts_probe + Interval)
      BY <2>3 DEF IInv, Probing, Flushed
    <3> QED
      BY <2>1, <2>3, <3>1, Bounds, SMT
  <2> QED
    BY <2>2, <2>3
<1> QED
  BY <1>1, Bounded, PTL

\* A step that sends a segment again has a reason to.
HasReason ==
  \A sn \in DOMAIN snd_buf \cap DOMAIN snd_buf' :
    snd_buf'[sn].xmit > snd_buf[sn].xmit =>
      \/ now >= snd_buf[sn].at + snd_buf[sn].rto
      \/ \E later \in heard' : later.sn > sn /\ later.at >= snd_buf[sn].at

LEMMA KeptHasReason ==
  ASSUME NEW seg \in Timers, NEW after, Kept(seg, after), after.xmit > seg.xmit
  PROVE  seg.fastack > 0 \/ now >= seg.at + seg.rto
  BY SMT DEF Kept, Timers

LEMMA UpdateHasReason == IInv /\ Update => HasReason
<1> SUFFICES ASSUME IInv, Update,
                    NEW sn \in DOMAIN snd_buf \cap DOMAIN snd_buf',
                    snd_buf'[sn].xmit > snd_buf[sn].xmit
             PROVE  \/ now >= snd_buf[sn].at + snd_buf[sn].rto
                    \/ \E later \in heard' : later.sn > sn /\ later.at >= snd_buf[sn].at
  BY DEF HasReason
<1>1. TypeOK /\ Times /\ Probing /\ Segments /\ heard' = heard
  BY UpdateCases DEF IInv
<1>2. snd_buf \in [snd_una..(snd_nxt - 1) -> Timers]
  BY <1>1 DEF TypeOK
<1>3. CASE Flush(snd_buf, snd_una, rmt_wnd, rx_rto)
  <2>1. /\ snd_una \in Nat /\ snd_una <= snd_nxt /\ rmt_wnd \in Nat
        /\ rx_rto \in MinRto..MaxRto /\ snd_buf \in Buffers(snd_una)
    BY <1>1 DEF IInv, TypeOK, RtoInRange, Segments, Buffers
  <2>2. Kept(snd_buf[sn], snd_buf'[sn])
    BY <1>1, <1>2, <1>3, <2>1, FlushStep
  <2>3. snd_buf[sn].fastack > 0 \/ now >= snd_buf[sn].at + snd_buf[sn].rto
    BY <2>2, <1>2, KeptHasReason
  <2> QED
    BY <2>3, <1>1 DEF Segments
<1>4. CASE snd_buf' = snd_buf
  <2>1. snd_buf[sn].xmit \in Nat
    BY <1>2 DEF Timers
  <2> QED
    BY <2>1, <1>4, SMT
<1> QED
  BY <1>3, <1>4, UpdateCases DEF sndVars

LEMMA InputHasReason == IInv /\ InputAny => HasReason
<1> SUFFICES ASSUME IInv, InputAny,
                    NEW sn \in DOMAIN snd_buf \cap DOMAIN snd_buf',
                    snd_buf'[sn].xmit > snd_buf[sn].xmit
             PROVE  \/ now >= snd_buf[sn].at + snd_buf[sn].rto
                    \/ \E later \in heard' : later.sn > sn /\ later.at >= snd_buf[sn].at
  BY DEF HasReason
<1>1. PICK n \in 0..MaxAcks : \E acks \in [1..n -> flight], una \in snd_una..snd_nxt, wnd \in Wnds :
        Input(acks, una, wnd)
  BY DEF InputAny
<1>2. PICK acks \in [1..n -> flight], una \in snd_una..snd_nxt, wnd \in Wnds :
        Input(acks, una, wnd)
  BY <1>1
<1>3. TypeOK /\ Times /\ Probing /\ snd_buf \in [snd_una..(snd_nxt - 1) -> Timers]
  BY DEF IInv, TypeOK
<1>4. snd_una \in Nat /\ snd_nxt \in Nat /\ una \in Nat /\ una <= snd_nxt /\ n \in Nat /\ wnd \in Nat
  <2>1. snd_una \in Nat /\ snd_nxt \in Nat
    BY <1>3 DEF TypeOK
  <2> QED
    BY <2>1, TimersConstants, SMT
<1> DEFINE buf == Left(una, acks)
<1>5. /\ IF una > snd_una THEN Flush(buf, una, wnd, rx_rto') ELSE snd_buf' = buf
      /\ heard' = heard \cup {acks[i] : i \in DOMAIN acks}
  BY <1>2 DEF Input, Left
<1>6. rx_rto' \in MinRto..MaxRto
  BY InputStep DEF IInv, RtoInRange
<1>7. buf \in Buffers(una)
  BY <1>4, InputBuffer
<1>8. \A x \in una..(snd_nxt - 1) :
        /\ buf[x].at = snd_buf[x].at /\ buf[x].rto = snd_buf[x].rto
        /\ buf[x].xmit = snd_buf[x].xmit
        /\ buf[x].fastack > 0 => \E later \in heard' : later.sn > x /\ later.at >= buf[x].at
  <2> DEFINE known == heard \cup {acks[i] : i \in DOMAIN acks}
  <2>1. \A x \in una..(snd_nxt - 1) :
          /\ buf[x].at = snd_buf[x].at /\ buf[x].rto = snd_buf[x].rto
          /\ buf[x].xmit = snd_buf[x].xmit
          /\ buf[x].fastack > 0 => \E later \in known : later.sn > x /\ later.at >= buf[x].at
    BY <1>4, InputBuffer
  <2>2. heard' = known
    BY <1>5
  <2> HIDE DEF known, buf
  <2> QED
    BY <2>1, <2>2
<1> HIDE DEF buf
<1>9. buf \in [una..(snd_nxt - 1) -> Timers]
  BY <1>7 DEF Buffers
<1>10. CASE una > snd_una
  <2>1. Flush(buf, una, wnd, rx_rto')
    BY <1>5, <1>10
  <2>2. /\ snd_nxt' \in Nat /\ snd_buf' \in [una..(snd_nxt' - 1) -> Timers]
        /\ \A x \in una..(snd_nxt - 1) : Kept(buf[x], snd_buf'[x])
    BY <1>3, <1>4, <1>6, <1>7, <2>1, FlushStep
  <2>3. sn \in una..(snd_nxt - 1)
    <3>1. sn \in snd_una..(snd_nxt - 1) /\ sn \in una..(snd_nxt' - 1)
      BY <1>3, <2>2
    <3> QED
      BY <3>1, <1>4, <2>2, SMT
  <2>4. buf[sn].fastack > 0 \/ now >= buf[sn].at + buf[sn].rto
    BY <2>2, <2>3, <1>8, <1>9, KeptHasReason
  <2> QED
    BY <2>3, <2>4, <1>8
<1>11. CASE ~(una > snd_una)
  <2>1. snd_buf' = buf
    BY <1>5, <1>11
  <2>2. sn \in una..(snd_nxt - 1)
    BY <2>1, <1>9
  <2>3. snd_buf'[sn].xmit = snd_buf[sn].xmit /\ snd_buf'[sn].xmit \in Nat
    BY <2>1, <2>2, <1>8, <1>9 DEF Timers
  <2> QED
    BY <2>3, SMT
<1> QED
  BY <1>10, <1>11

\* Nothing is sent again too early, however late or often an acknowledgement
\* arrives.
THEOREM NeverTooEarly == Spec => NoneTooEarly
<1>1. IInv /\ [Next]_vars => [HasReason]_vars
  <2> SUFFICES ASSUME IInv, [Next]_vars PROVE [HasReason]_vars
    OBVIOUS
  <2>1. CASE snd_buf' = snd_buf
    <3>1. \A sn \in DOMAIN snd_buf : snd_buf[sn].xmit \in Nat
      BY DEF IInv, TypeOK, Timers
    <3>2. \A sn \in DOMAIN snd_buf : ~(snd_buf[sn].xmit > snd_buf[sn].xmit)
      BY <3>1, SMT
    <3> QED
      BY <2>1, <3>2 DEF HasReason
  <2>2. CASE Update
    BY <2>2, UpdateHasReason
  <2>3. CASE InputAny
    BY <2>3, InputHasReason
  <2>4. Tick \/ Send \/ UNCHANGED vars => snd_buf' = snd_buf
    BY DEF Tick, Send, vars, sndVars
  <2> QED
    BY <2>1, <2>2, <2>3, <2>4 DEF Next
<1> QED
  BY <1>1, Bounded, PTL DEF Spec, NoneTooEarly, HasReason

=============================================================================
