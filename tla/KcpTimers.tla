------------------------------ MODULE KcpTimers ------------------------------
(***************************************************************************)
(* The clock of a KCP control block (control_block.go): how long it waits  *)
(* before it sends a segment again, what it takes for a round trip, when   *)
(* the ticker's Update flushes and when it asks about a closed window.     *)
(* Kcp leaves all of this open; here one block is modelled as a sender,    *)
(* with the network and its peer reduced to the datagrams it may receive.  *)
(*                                                                         *)
(* currentMs() counts the milliseconds since the program started and is    *)
(* cut to 32 bits, as is every time made from it.  The variables hold      *)
(* uncut times; wherever the code compares two of them the model does so   *)
(* through itimediff, on the cut values.  Within one call the clock stands *)
(* still, also where flush reads it a second time before its loop.  Both   *)
(* ends run with nocwnd = 1 and nodelay = 1 (start), so that there is no   *)
(* congestion window and an expired rto grows by half of rx_rto.           *)
(***************************************************************************)
EXTENDS Integers, Sequences, FiniteSets

CONSTANTS
  HalfRange,              \* 2^31, half of what the clock's 32 bits hold
  Interval,               \* interval, between two flushes of Update
  MinRto, DefRto, MaxRto, \* rx_minrto, IKCP_RTO_DEF, IKCP_RTO_MAX
  ProbeInit, ProbeLimit,  \* IKCP_PROBE_INIT, IKCP_PROBE_LIMIT
  Slap,                   \* 10000, when Update gives up on ts_flush
  FastResend,             \* fastresend
  DeadLink,               \* dead_link
  SndWnd,                 \* snd_wnd
  InitRmtWnd,             \* IKCP_WND_RCV, what a new block takes for the peer's window
  Wnds,                   \* the windows the peer may advertise
  Starts,                 \* ages of the program when the block is created
  MaxAge,                 \* age of the oldest transmission that is still acknowledged
  MaxAcks,                \* bound: acknowledgements in a datagram
  MaxInputs,              \* bound: datagrams that arrive
  MaxSegs,                \* bound: segments sent
  Lifetime                \* bound: the block's age

ASSUME TimersConstants ==
  /\ Interval \in Nat \ {0} /\ MinRto \in Nat \ {0}
  /\ DefRto \in MinRto..MaxRto /\ MaxRto \in Nat
  /\ ProbeInit \in Nat \ {0} /\ ProbeLimit \in Nat /\ ProbeInit <= ProbeLimit
  /\ Slap \in Nat /\ Interval < Slap
  /\ FastResend \in Nat \ {0} /\ DeadLink \in Nat /\ SndWnd \in Nat /\ InitRmtWnd \in Nat
  /\ Wnds \subseteq Nat /\ Starts \subseteq Nat
  /\ MaxAge \in Nat /\ MaxAcks \in Nat /\ MaxInputs \in Nat /\ MaxSegs \in Nat /\ Lifetime \in Nat
  \* A block that lives less than 2^31 ms (24 days) is never misled by the cut.
  /\ HalfRange \in Nat
  /\ Lifetime + MaxRto + ProbeLimit + Interval < HalfRange

VARIABLES
  now,                          \* currentMs(), not cut
  updated, ts_flush,            \* Update's own state
  rx_srtt, rx_rttvar, rx_rto,   \* the estimate of the round trip
  snd_queue, snd_una, snd_nxt,  \* snd_queue is the number of segments waiting
  snd_buf,                      \* sn -> the segment's timers
  rmt_wnd, probe_wait, ts_probe,
  state,                        \* dead_link's verdict
  flight,   \* transmissions that may still be acknowledged, any number of times
  born,     \* history: when the block was created
  looked,   \* history: when the ticker last called Update
  closed,   \* history: when rmt_wnd became 0
  inputs,   \* history: the datagrams that have arrived
  heard     \* history: the transmissions that have been acknowledged

rttVars == <<rx_srtt, rx_rttvar, rx_rto>>
sndVars == <<snd_queue, snd_nxt, snd_buf, probe_wait, ts_probe, state, flight>>
vars == <<now, updated, ts_flush, rttVars, sndVars, snd_una, rmt_wnd,
          born, looked, closed, inputs, heard>>

imin(a, b) == IF a <= b THEN a ELSE b
imax(a, b) == IF a >= b THEN a ELSE b
ibound(lower, middle, upper) == imin(imax(lower, middle), upper)
abs(d) == IF d < 0 THEN -d ELSE d

Cut(t) == t % (2 * HalfRange)

\* Mutant: the difference of the cut times, without the wrap-around.
itimediff_Plain(later, earlier) == Cut(later) - Cut(earlier)

\* (int32)(later - earlier)
itimediff(later, earlier) ==
  LET d == (Cut(later) - Cut(earlier)) % (2 * HalfRange)
  IN  IF d < HalfRange THEN d ELSE d - 2 * HalfRange

Timers == [at : Nat,          \* ts, when it was last transmitted
           rto : Nat,         \* resendts is at + rto
           xmit : Nat, fastack : Nat, acked : BOOLEAN]

Transmission == [sn : Nat, at : Nat]

Init ==
  /\ born \in Starts /\ now = born /\ looked = born /\ closed = born
  /\ updated = FALSE /\ ts_flush = Interval
  /\ rx_srtt = 0 /\ rx_rttvar = 0 /\ rx_rto = DefRto
  /\ snd_queue = 0 /\ snd_una = 0 /\ snd_nxt = 0 /\ snd_buf = [sn \in {} |-> sn]
  /\ rmt_wnd = InitRmtWnd /\ probe_wait = 0 /\ ts_probe = 0
  /\ state = "alive" /\ flight = {}
  /\ inputs = 0 /\ heard = {}

-----------------------------------------------------------------------------
(* The environment: time, and the session's own Send.                      *)

Tick ==
  /\ now < born + Lifetime
  /\ now' = now + 1
  /\ flight' = {f \in flight : now' - f.at <= MaxAge}
  /\ UNCHANGED <<updated, ts_flush, rttVars, snd_queue, snd_nxt, snd_buf, probe_wait,
                 ts_probe, state, snd_una, rmt_wnd, born, looked, closed, inputs, heard>>

Send ==
  /\ snd_nxt + snd_queue < MaxSegs
  /\ snd_queue' = snd_queue + 1
  /\ UNCHANGED <<now, updated, ts_flush, rttVars, snd_nxt, snd_buf, probe_wait,
                 ts_probe, state, flight, snd_una, rmt_wnd, born, looked, closed, inputs, heard>>

-----------------------------------------------------------------------------
(* flush: the window probe's timer, the new segments, and those whose      *)
(* acknowledgement is overdue.                                             *)

\* Mutant: the timer is not armed again once the window has been asked for.
Probe_Once(wnd) ==
  /\ probe_wait' = IF wnd # 0 THEN 0 ELSE ProbeInit
  /\ ts_probe' = IF wnd # 0 THEN 0 ELSE IF probe_wait = 0 THEN now + ProbeInit ELSE ts_probe

\* Only the timer; WASK itself, which goes out when it expires, is in Kcp.
Probe(wnd) ==
  IF wnd # 0 THEN probe_wait' = 0 /\ ts_probe' = 0
  ELSE IF probe_wait = 0 THEN probe_wait' = ProbeInit /\ ts_probe' = now + ProbeInit
  ELSE IF itimediff(now, ts_probe) < 0 THEN UNCHANGED <<probe_wait, ts_probe>>
  ELSE LET wait == imax(probe_wait, ProbeInit)
       IN  /\ probe_wait' = imin(wait + wait \div 2, ProbeLimit)
           /\ ts_probe' = now + probe_wait'

\* Mutant: as many as the window allows, whether or not they are there.
NewSegs_PastQueue(una, wnd) ==
  LET limit == una + imin(SndWnd, wnd)
  IN  IF snd_nxt < limit THEN limit - snd_nxt ELSE 0

\* Segments that move from snd_queue to snd_buf.
NewSegs(una, wnd) ==
  LET limit == una + imin(SndWnd, wnd)
  IN  IF snd_nxt < limit THEN imin(snd_queue, limit - snd_nxt) ELSE 0

Skipped(seg, fresh) == seg.fastack >= FastResend \/ (seg.fastack > 0 /\ fresh = 0)

\* Mutant: dead_link is obeyed, a segment sent too often is given up.
Expired_Dead(seg) == itimediff(now, seg.at + seg.rto) >= 0 /\ seg.xmit < DeadLink

Expired(seg) == itimediff(now, seg.at + seg.rto) >= 0

Overdue(seg, fresh) == ~seg.acked /\ (Skipped(seg, fresh) \/ Expired(seg))

\* What the loop over snd_buf leaves of an old segment, fresh new ones aside.
Looked(seg, fresh, rto) ==
  IF ~Overdue(seg, fresh) THEN seg
  ELSE [at |-> now, xmit |-> seg.xmit + 1, fastack |-> 0, acked |-> FALSE,
        rto |-> IF Skipped(seg, fresh) THEN rto ELSE seg.rto + rto \div 2]

New(una, wnd) == snd_nxt .. (snd_nxt + NewSegs(una, wnd) - 1)

\* snd_buf, snd_una, rmt_wnd and rx_rto as they are when flush is called.
Flush(buf, una, wnd, rto) ==
  LET fresh == NewSegs(una, wnd)
      new == New(una, wnd)
      going == new \cup {sn \in DOMAIN buf : Overdue(buf[sn], fresh)}
  IN  /\ Probe(wnd)
      /\ snd_queue' = snd_queue - fresh
      /\ snd_nxt' = snd_nxt + fresh
      /\ snd_buf' = [sn \in DOMAIN buf \cup new |->
           IF sn \in new
           THEN [at |-> now, rto |-> rto, xmit |-> 1, fastack |-> 0, acked |-> FALSE]
           ELSE Looked(buf[sn], fresh, rto)]
      /\ flight' = flight \cup {[sn |-> sn, at |-> now] : sn \in going}
      /\ state' = IF \E sn \in going : snd_buf'[sn].xmit >= DeadLink THEN "dead" ELSE state

\* Update.  ts_flush is far from now only after a pause of the program.
Update ==
  LET flushed == IF updated THEN ts_flush ELSE now
      slap == itimediff(now, flushed)
      due == IF slap >= Slap \/ slap < -Slap THEN now ELSE flushed
      next == due + Interval
  IN  /\ updated' = TRUE
      /\ IF itimediff(now, due) >= 0
         THEN /\ ts_flush' = IF itimediff(now, next) >= 0 THEN now + Interval ELSE next
              /\ Flush(snd_buf, snd_una, rmt_wnd, rx_rto)
         ELSE ts_flush' = due /\ UNCHANGED sndVars
      /\ looked' = now
      /\ UNCHANGED <<now, rttVars, snd_una, rmt_wnd, born, closed, inputs, heard>>

-----------------------------------------------------------------------------
(* Input of a datagram with una, wnd and some acknowledgements.  An una    *)
(* that is older than snd_una removes nothing, so it counts as snd_una.    *)

\* Acknowledgements of later segments that went out no sooner than seg did.
Passed(sn, seg, una, acks) ==
  {i \in DOMAIN acks : /\ acks[i].sn >= una /\ acks[i].sn > sn
                       /\ itimediff(seg.at, acks[i].at) <= 0}

\* parse_ack and parse_fastack, for all the acknowledgements of the datagram.
Acked(sn, seg, una, acks) ==
  [seg EXCEPT !.acked = @ \/ \E i \in DOMAIN acks : acks[i].sn = sn,
              !.fastack = @ + Cardinality(Passed(sn, seg, una, acks))]

srtt(rtt) == IF rx_srtt = 0 THEN rtt ELSE rx_srtt + (rtt - rx_srtt) \div 8

\* Below the range that is expected, the sample has less weight.
rttvar(rtt) ==
  LET delta == abs(rtt - rx_srtt)
      weight == IF rtt < srtt(rtt) - rx_rttvar THEN 32 ELSE 4
  IN  IF rx_srtt = 0 THEN rtt \div 2 ELSE rx_rttvar + (delta - rx_rttvar) \div weight

\* Mutant: the lower bound is left out.
Rto_Unbounded(rtt) == imin(srtt(rtt) + 4 * rttvar(rtt), MaxRto)

Rto(rtt) == ibound(MinRto, srtt(rtt) + imax(Interval, 4 * rttvar(rtt)), MaxRto)

update_ack(rtt) ==
  /\ rx_srtt' = srtt(rtt) /\ rx_rttvar' = rttvar(rtt) /\ rx_rto' = Rto(rtt)

Input(acks, una, wnd) ==
  LET left == {sn \in DOMAIN snd_buf : sn >= una}
      buf == [sn \in left |-> Acked(sn, snd_buf[sn], una, acks)]
      rtt == itimediff(now, acks[Len(acks)].at)
  IN  /\ inputs < MaxInputs /\ inputs' = inputs + 1
      /\ rmt_wnd' = wnd
      /\ snd_una' = una
      /\ IF acks # <<>> /\ rtt >= 0 THEN update_ack(rtt) ELSE UNCHANGED rttVars
      /\ IF una > snd_una
         THEN Flush(buf, una, wnd, rx_rto')
         ELSE snd_buf' = buf /\ UNCHANGED <<snd_queue, snd_nxt, probe_wait, ts_probe, state, flight>>
      /\ closed' = IF rmt_wnd # 0 /\ wnd = 0 THEN now ELSE closed
      /\ heard' = heard \cup {acks[i] : i \in DOMAIN acks}
      /\ UNCHANGED <<now, updated, ts_flush, born, looked>>

\* All but the last acknowledgement are of segments beyond una (the peer's
\* "filter jitters"), and una is at most what has been sent.
InputAny ==
  \E n \in 0..MaxAcks : \E acks \in [1..n -> flight], una \in snd_una..snd_nxt, wnd \in Wnds :
    /\ \A i \in 1..(n - 1) : acks[i].sn >= una
    /\ Input(acks, una, wnd)

Next ==
  \/ Tick
  \/ Send
  \/ Update
  \/ InputAny

Spec == Init /\ [][Next]_vars

-----------------------------------------------------------------------------
(* Properties.                                                             *)

\* The types of the variables.
TypeOK ==
  /\ now \in Nat /\ updated \in BOOLEAN /\ ts_flush \in Nat
  /\ rx_srtt \in Nat /\ rx_rttvar \in Nat /\ rx_rto \in Nat
  /\ snd_queue \in Nat /\ snd_una \in Nat /\ snd_nxt \in Nat
  /\ snd_buf \in [snd_una..(snd_nxt - 1) -> Timers]
  /\ rmt_wnd \in Nat /\ probe_wait \in Nat /\ ts_probe \in Nat
  /\ state \in {"alive", "dead"}
  /\ flight \subseteq Transmission
  /\ born \in Nat /\ looked \in Nat /\ closed \in Nat /\ inputs \in Nat
  /\ heard \subseteq Transmission

\* Whatever round trips are measured, also those of acknowledgements that
\* were delivered late or twice, and across the wrap-around of the clock, the
\* estimate never leaves the range of what was measured and rx_rto stays
\* within its bounds: the int32 arithmetic of update_ack never turns negative.
RtoInRange ==
  /\ rx_srtt \in 0..MaxAge /\ rx_rttvar \in 0..MaxAge
  /\ rx_rto \in MinRto..MaxRto

\* No segment is ever given up: when the ticker last ran, an unacknowledged
\* one was less than a flush interval overdue, however often it had been
\* sent (dead_link sets a state that nobody reads).
ResentOnTime ==
  \A sn \in DOMAIN snd_buf :
    ~snd_buf[sn].acked => looked < snd_buf[sn].at + snd_buf[sn].rto + Interval

\* A closed window does not stay unasked: the probe's timer is armed within
\* an interval of the ticker, and always due within ProbeLimit.
WindowIsProbed ==
  rmt_wnd = 0 =>
    IF probe_wait = 0 THEN looked < closed + Interval
    ELSE looked < ts_probe + Interval /\ ts_probe <= now + ProbeLimit

\* A segment is sent again only if its timeout has really passed, or if a
\* later one that was sent no sooner has been acknowledged.
NoneTooEarly ==
  [][\A sn \in DOMAIN snd_buf \cap DOMAIN snd_buf' :
       snd_buf'[sn].xmit > snd_buf[sn].xmit =>
         \/ now >= snd_buf[sn].at + snd_buf[sn].rto
         \/ \E later \in heard' : later.sn > sn /\ later.at >= snd_buf[sn].at]_vars

=============================================================================
