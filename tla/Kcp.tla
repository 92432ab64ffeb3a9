-------------------------------- MODULE Kcp --------------------------------
(***************************************************************************)
(* The reliable transport of pkg/transport/kcp: two sessions, one at each  *)
(* end of a UDP path, each with a KCP control block                        *)
(* (control_block.go), driven by its three callers (session.go):           *)
(*                                                                         *)
(*   SendPayload      any goroutine that has a message to send;            *)
(*   onSegmentData    the goroutine that reads the UDP socket;             *)
(*   update           the 20 ms ticker of the session manager.             *)
(*                                                                         *)
(* The session's mutex makes each call atomic with respect to the other    *)
(* two; Input is modelled one segment at a time, with the lock held        *)
(* between the steps.  Clocks are abstracted: whether the ticker's call is *)
(* due to flush, which unacknowledged segments are due for retransmission  *)
(* (RTO, fast and early retransmit) and whether the window probe's timer   *)
(* has expired are choices.  Both ends run with nocwnd = 1 and in message  *)
(* mode (stream = 0), as start configures them.                            *)
(***************************************************************************)
EXTENDS Naturals, Sequences, FiniteSets

CONSTANTS
  SndWnd,      \* snd_wnd, segments a sender may have in flight
  RcvWnd,      \* rcv_wnd, capacity of rcv_queue
  InitRmtWnd,  \* rmt_wnd before the first segment of the peer arrives
  MaxFrags,    \* longest message Send accepts, in fragments
  PayloadCap,  \* capacity of the session's payload channel
  MtuSegs,     \* segments that fit in one datagram
  MaxSent,     \* bound: fragments each end sends, a function on the ends
  MaxNet,      \* bound: datagrams in flight towards each end
  MaxAcks,     \* bound: length of acklist
  Duplication  \* whether the network may deliver a datagram again

Ends == {"dialer", "listener"}
Other(e) == IF e = "dialer" THEN "listener" ELSE "dialer"

\* Send's limit of 255 fragments is the receive window start configures
\* (WndSize(255, 255)): a longer message could never be assembled.
ASSUME KcpConstants ==
  /\ RcvWnd \in Nat \ {0} /\ SndWnd \in Nat \ {0} /\ SndWnd <= RcvWnd
  /\ InitRmtWnd \in 0..RcvWnd
  /\ MaxFrags \in 1..RcvWnd
  /\ PayloadCap \in Nat \ {0} /\ MtuSegs \in Nat \ {0}
  /\ MaxSent \in [Ends -> Nat] /\ MaxNet \in [Ends -> Nat] /\ MaxAcks \in Nat \ {0}
  /\ Duplication \in BOOLEAN

\* Sequence numbers are naturals: a session that sends fewer than 2^31
\* segments never meets the wrap-around that _itimediff is there for.
Fragment == [msg : Nat, frg : Nat]   \* msg stands for the bytes of the body

Segment ==
       [cmd : {"PUSH"}, sn : Nat, frag : Fragment, una : Nat, wnd : 0..RcvWnd]
  \cup [cmd : {"ACK"}, sn : Nat, una : Nat, wnd : 0..RcvWnd]
  \cup [cmd : {"WASK", "WINS"}, una : Nat, wnd : 0..RcvWnd]

Datagram == [to : Ends, segs : Seq(Segment)]

VARIABLES
  snd_queue, snd_buf, snd_una, snd_nxt, rmt_wnd,      \* the sending half
  probe, probe_wait,                                  \* window probing
  rcv_queue, rcv_buf, rcv_nxt, acklist,               \* the receiving half
  payload,   \* the session's payload channel, read by Payload
  input,     \* the Input call in progress, which holds the session's lock
  net,       \* datagrams in flight
  sent,      \* history: the fragments Send has accepted
  read,      \* history: the fragments Recv has returned
  delivered  \* history: the messages Payload has returned

sndVars  == <<snd_queue, snd_buf, snd_una, snd_nxt, rmt_wnd, probe_wait>>
rcvVars  == <<rcv_queue, rcv_buf, rcv_nxt>>
userVars == <<payload, sent, read, delivered>>
vars == <<sndVars, probe, rcvVars, acklist, userVars, input, net>>

imin(a, b) == IF a <= b THEN a ELSE b
Restricted(f, S) == [x \in S |-> f[x]]
NoSegs == [sn \in {} |-> sn]            \* an empty snd_buf or rcv_buf

Idle == [busy |-> FALSE, segs |-> <<>>, slid |-> FALSE]
Unlocked(e) == ~input[e].busy

Init ==
  /\ snd_queue = [e \in Ends |-> <<>>] /\ snd_buf = [e \in Ends |-> NoSegs]
  /\ snd_una = [e \in Ends |-> 0] /\ snd_nxt = [e \in Ends |-> 0]
  /\ rmt_wnd = [e \in Ends |-> InitRmtWnd]
  /\ probe = [e \in Ends |-> {}] /\ probe_wait = [e \in Ends |-> FALSE]
  /\ rcv_queue = [e \in Ends |-> <<>>] /\ rcv_buf = [e \in Ends |-> NoSegs]
  /\ rcv_nxt = [e \in Ends |-> 0] /\ acklist = [e \in Ends |-> <<>>]
  /\ payload = [e \in Ends |-> <<>>] /\ delivered = [e \in Ends |-> <<>>]
  /\ input = [e \in Ends |-> Idle]
  /\ net = {}
  /\ sent = [e \in Ends |-> <<>>] /\ read = [e \in Ends |-> <<>>]

-----------------------------------------------------------------------------
(* Send: a message becomes count fragments, numbered down to 0.            *)

LastMsg(s) == IF s = <<>> THEN 0 ELSE s[Len(s)].msg
Split(msg, count) == [i \in 1..count |-> [msg |-> msg, frg |-> count - i]]

SendPayload(e, count) ==
  /\ Unlocked(e)
  /\ Len(sent[e]) + count <= MaxSent[e]
  /\ LET frags == Split(LastMsg(sent[e]) + 1, count)
     IN  /\ sent' = [sent EXCEPT ![e] = @ \o frags]
         /\ snd_queue' = [snd_queue EXCEPT ![e] = @ \o frags]
  /\ UNCHANGED <<snd_buf, snd_una, snd_nxt, rmt_wnd, probe, probe_wait, rcvVars,
                 acklist, payload, read, delivered, input, net>>

-----------------------------------------------------------------------------
(* flush.  The acknowledgements come first, then the window probes, then   *)
(* the new and the retransmitted segments in the order of snd_buf.  Every  *)
(* segment carries una and wnd as they are at the start of the flush.      *)

\* Mutant: the window is advertised one segment too large.
wnd_unused_OffByOne(e) ==
  IF Len(rcv_queue[e]) <= RcvWnd THEN RcvWnd - Len(rcv_queue[e]) + 1 ELSE 0

wnd_unused(e) == IF Len(rcv_queue[e]) < RcvWnd THEN RcvWnd - Len(rcv_queue[e]) ELSE 0

\* Mutant: <= where the code has <, one segment beyond the window.
NewSegs_OffByOne(e) ==
  LET limit == snd_una[e] + imin(SndWnd, rmt_wnd[e])
  IN  IF snd_nxt[e] <= limit THEN imin(Len(snd_queue[e]), limit + 1 - snd_nxt[e]) ELSE 0

\* Segments moved from snd_queue to snd_buf: as far as the window allows.
NewSegs(e) ==
  LET limit == snd_una[e] + imin(SndWnd, rmt_wnd[e])
  IN  IF snd_nxt[e] < limit THEN imin(Len(snd_queue[e]), limit - snd_nxt[e]) ELSE 0

Unacked(e) == {sn \in DOMAIN snd_buf[e] : ~snd_buf[e][sn].acked}

\* Mutant: the last acknowledgement is filtered like the others.
AcksSent_AllFiltered(e) == {i \in DOMAIN acklist[e] : acklist[e][i] >= rcv_nxt[e]}

\* "Filter jitters": an acknowledgement that una already covers is left
\* out, unless it is the last one.
AcksSent(e) == {i \in DOMAIN acklist[e] :
                  acklist[e][i] >= rcv_nxt[e] \/ i = Len(acklist[e])}

\* The members of a finite set of numbers, in ascending order.
Ascending(S) == {f \in [1..Cardinality(S) -> S] :
                   \A i, j \in 1..Cardinality(S) : i < j => f[i] < f[j]}

\* output is called whenever the next segment would not fit.
Datagrams(e, out) ==
  {[to |-> Other(e), segs |-> SubSeq(out, lo, imin(Len(out), lo + MtuSegs - 1))] :
     lo \in {k \in DOMAIN out : (k - 1) % MtuSegs = 0}}

InFlight(e, n) == {d \in n : d.to = e}

\* The network takes some of the datagrams and loses the others; if it is
\* reliable it takes them all.
Transmit(e, dgrams, reliable) ==
  \E kept \in IF reliable THEN {dgrams} ELSE SUBSET dgrams :
    /\ net' = net \cup kept
    /\ Cardinality(InFlight(Other(e), net')) <= MaxNet[Other(e)]

\* Mutant: the probe timer is never armed, the window is never asked for.
MayProbe_Never(e) == FALSE

MayProbe(e) == rmt_wnd[e] = 0 /\ probe_wait[e]

\* The segments that move from snd_queue to snd_buf, and snd_buf with them.
New(e) == snd_nxt[e] .. (snd_nxt[e] + NewSegs(e) - 1)
WithNew(e) ==
  [sn \in DOMAIN snd_buf[e] \cup New(e) |->
     IF sn \in New(e)
     THEN [frag |-> snd_queue[e][sn - snd_nxt[e] + 1], acked |-> FALSE]
     ELSE snd_buf[e][sn]]

AckSeg(e, sn) ==
  [cmd |-> "ACK", sn |-> sn, una |-> rcv_nxt[e], wnd |-> wnd_unused(e)]
AskSeg(e, cmd) == [cmd |-> cmd, una |-> rcv_nxt[e], wnd |-> wnd_unused(e)]
PushSeg(e, sn) ==
  [cmd |-> "PUSH", sn |-> sn, frag |-> WithNew(e)[sn].frag,
   una |-> rcv_nxt[e], wnd |-> wnd_unused(e)]

AckSegs(e, ai) == [i \in DOMAIN ai |-> AckSeg(e, acklist[e][ai[i]])]
AskSegs(e, asks) == (IF "SEND" \in asks THEN <<AskSeg(e, "WASK")>> ELSE <<>>)
                    \o (IF "TELL" \in asks THEN <<AskSeg(e, "WINS")>> ELSE <<>>)
PushSegs(e, ps) == [i \in DOMAIN ps |-> PushSeg(e, ps[i])]

\* What a flush writes: the one sequence in this set.
Output(e, asks, pushes) ==
  {AckSegs(e, ai) \o AskSegs(e, asks) \o PushSegs(e, ps) :
     ai \in Ascending(AcksSent(e)), ps \in Ascending(pushes)}

\* due are the old segments to retransmit, asking tells whether the probe
\* timer has expired.
Flush(e, due, asking, reliable) ==
  /\ \E out \in Output(e, probe[e] \cup (IF asking THEN {"SEND"} ELSE {}), due \cup New(e)) :
       Transmit(e, Datagrams(e, out), reliable)
  /\ snd_buf' = [snd_buf EXCEPT ![e] = WithNew(e)]
  /\ snd_nxt' = [snd_nxt EXCEPT ![e] = @ + NewSegs(e)]
  /\ snd_queue' = [snd_queue EXCEPT ![e] = SubSeq(@, NewSegs(e) + 1, Len(@))]
  /\ probe_wait' = [probe_wait EXCEPT ![e] = rmt_wnd[e] = 0]
  /\ acklist' = [acklist EXCEPT ![e] = <<>>]
  /\ UNCHANGED <<snd_una, rmt_wnd>>

NoFlush == UNCHANGED <<sndVars, acklist, net>>

AnyFlush(e) ==
  \E due \in SUBSET Unacked(e), asking \in BOOLEAN :
    (asking => MayProbe(e)) /\ Flush(e, due, asking, FALSE)

-----------------------------------------------------------------------------
(* Input: the reader goroutine takes the lock, handles the segments of the *)
(* datagram one after the other, flushes if the window slid, and returns.  *)

Pushes(segs) == Cardinality({i \in DOMAIN segs : segs[i].cmd = "PUSH"})

\* A datagram that stays in net arrives a second time.
onSegmentData(e, d, again) ==
  /\ d \in net /\ d.to = e /\ Unlocked(e)
  /\ Len(acklist[e]) + Pushes(d.segs) <= MaxAcks
  /\ input' = [input EXCEPT ![e] = [busy |-> TRUE, segs |-> d.segs, slid |-> FALSE]]
  /\ net' = IF again THEN net ELSE net \ {d}
  /\ UNCHANGED <<sndVars, probe, rcvVars, acklist, userVars>>

\* Mutant: una is taken for the last segment received, not the next expected.
parse_una_OffByOne(e, una) == {sn \in DOMAIN snd_buf[e] : sn > una}

\* What parse_una leaves of snd_buf.
parse_una(e, una) == {sn \in DOMAIN snd_buf[e] : sn >= una}

\* Mutant: sn is taken for a cumulative acknowledgement.
parse_ack_Cumulative(buf, sn) ==
  [x \in DOMAIN buf |-> [buf[x] EXCEPT !.acked = @ \/ x <= sn]]

\* parse_ack only marks a segment, which stays in snd_buf until una passes it.
parse_ack(buf, sn) ==
  IF sn \in DOMAIN buf THEN [buf EXCEPT ![sn] = [@ EXCEPT !.acked = TRUE]] ELSE buf

\* shrink_buf: the first segment left, snd_nxt when there is none.
shrink_buf(e, left) ==
  \E una \in left \cup {snd_nxt[e]} :
    /\ \A sn \in left \cup {snd_nxt[e]} : una <= sn
    /\ snd_una' = [snd_una EXCEPT ![e] = una]

\* Segments that follow one another from nxt in buf, as many as fit behind
\* the segments of queue.
Available(nxt, buf, queue) ==
  {n \in 0..RcvWnd : /\ n > 0 => Len(queue) + n <= RcvWnd
                     /\ \A i \in 0..(n - 1) : nxt + i \in DOMAIN buf}

\* Mutant: the first segments of rcv_buf move, whether or not they are next.
Assemble_Gaps(e, buf, queue) ==
  \E first \in Ascending(DOMAIN buf) :
    LET n == imin(Cardinality(DOMAIN buf), RcvWnd - Len(queue))
    IN  /\ rcv_queue' = [rcv_queue EXCEPT ![e] = queue \o [i \in 1..n |-> buf[first[i]]]]
        /\ rcv_buf' = [rcv_buf EXCEPT ![e] =
                         Restricted(buf, DOMAIN buf \ {first[i] : i \in 1..n})]
        /\ rcv_nxt' = [rcv_nxt EXCEPT ![e] = @ + n]

\* rcv_buf -> rcv_queue: all that are available move, and no more.
Assemble(e, buf, queue) ==
  \E n \in Available(rcv_nxt[e], buf, queue) :
    /\ n + 1 \notin Available(rcv_nxt[e], buf, queue)
    /\ rcv_queue' = [rcv_queue EXCEPT ![e] =
                       queue \o [i \in 1..n |-> buf[rcv_nxt[e] + i - 1]]]
    /\ rcv_buf' = [rcv_buf EXCEPT ![e] =
                     Restricted(buf, {sn \in DOMAIN buf : sn >= rcv_nxt[e] + n})]
    /\ rcv_nxt' = [rcv_nxt EXCEPT ![e] = @ + n]

InWindow(e, sn) == sn < rcv_nxt[e] + RcvWnd

parse_data(e, seg) ==
  IF InWindow(e, seg.sn) /\ seg.sn >= rcv_nxt[e]
  THEN LET known == rcv_buf[e]
           buf == [sn \in DOMAIN known \cup {seg.sn} |->
                     IF sn \in DOMAIN known THEN known[sn] ELSE seg.frag]
       IN  Assemble(e, buf, rcv_queue[e])
  ELSE UNCHANGED rcvVars

ack_push(e, sn) ==
  acklist' = IF InWindow(e, sn) THEN [acklist EXCEPT ![e] = Append(@, sn)] ELSE acklist

\* One turn of Input's loop.
InputSegment(e) ==
  /\ input[e].busy /\ input[e].segs # <<>>
  /\ LET seg == Head(input[e].segs)
         left == parse_una(e, seg.una)
         buf == Restricted(snd_buf[e], left)
     IN  /\ rmt_wnd' = [rmt_wnd EXCEPT ![e] = seg.wnd]
         /\ shrink_buf(e, left)
         /\ snd_buf' = [snd_buf EXCEPT ![e] =
                          IF seg.cmd = "ACK" THEN parse_ack(buf, seg.sn) ELSE buf]
         /\ IF seg.cmd = "PUSH"
            THEN ack_push(e, seg.sn) /\ parse_data(e, seg)
            ELSE UNCHANGED <<acklist, rcvVars>>
         /\ probe' = [probe EXCEPT ![e] = IF seg.cmd = "WASK" THEN @ \cup {"TELL"} ELSE @]
         /\ input' = [input EXCEPT ![e] =
              [busy |-> TRUE, segs |-> Tail(@.segs), slid |-> @.slid \/ left # DOMAIN snd_buf[e]]]
  /\ UNCHANGED <<snd_queue, snd_nxt, probe_wait, userVars, net>>

\* The end of Input: ackNoDelay is FALSE, so only a slid window flushes.
InputReturn(e) ==
  /\ input[e].busy /\ input[e].segs = <<>>
  /\ input' = [input EXCEPT ![e] = Idle]
  /\ IF input[e].slid
     THEN AnyFlush(e) /\ probe' = [probe EXCEPT ![e] = {}]
     ELSE NoFlush /\ UNCHANGED probe
  /\ UNCHANGED <<rcvVars, userVars>>

-----------------------------------------------------------------------------
(* The ticker: ControlBlock.Update, which may flush, then one message at   *)
(* most from rcv_queue to the payload channel.  A message that finds the   *)
(* channel full is dropped, although the peer has its acknowledgement.     *)

\* Mutant: the first fragment is enough.
Readable_FirstFragment(e) == rcv_queue[e] # <<>>

\* PeekSize: the queue starts with a complete message.
Readable(e) ==
  /\ rcv_queue[e] # <<>>
  /\ rcv_queue[e][1].frg = 0 \/ Len(rcv_queue[e]) >= rcv_queue[e][1].frg + 1

\* Recv merges the fragments up to the first that is numbered 0.
FirstMessage(q) == {n \in DOMAIN q : /\ \A i \in 1..(n - 1) : q[i].frg # 0
                                     /\ q[n].frg = 0 \/ n = Len(q)}

\* before is probe as the flush, if there was one, has left it.
Recv(e, before) ==
  \E n \in FirstMessage(rcv_queue[e]) :
    LET q == rcv_queue[e]
        msg == SubSeq(q, 1, n)
    IN  /\ Assemble(e, rcv_buf[e], SubSeq(q, n + 1, Len(q)))
        /\ read' = [read EXCEPT ![e] = @ \o msg]
        /\ payload' = IF Len(payload[e]) < PayloadCap
                      THEN [payload EXCEPT ![e] = Append(@, msg)] ELSE payload
        /\ probe' = [probe EXCEPT ![e] = before \cup
             IF Len(q) >= RcvWnd /\ Len(rcv_queue'[e]) < RcvWnd THEN {"TELL"} ELSE {}]

Deliver(e, before) ==
  IF Readable(e)
  THEN Recv(e, before) /\ UNCHANGED <<sent, delivered, input>>
  ELSE /\ probe' = [probe EXCEPT ![e] = before]
       /\ UNCHANGED <<rcvVars, userVars, input>>

UpdateFlush(e) == Unlocked(e) /\ AnyFlush(e) /\ Deliver(e, {})
UpdateOnly(e) == Unlocked(e) /\ NoFlush /\ Deliver(e, probe[e])

\* Payload: the consumer takes the next message from the channel.
Payload(e) ==
  /\ payload[e] # <<>>
  /\ delivered' = [delivered EXCEPT ![e] = Append(@, Head(payload[e]))]
  /\ payload' = [payload EXCEPT ![e] = Tail(@)]
  /\ UNCHANGED <<sndVars, probe, rcvVars, acklist, sent, read, input, net>>

Next ==
  \E e \in Ends :
    \/ \E count \in 1..MaxFrags : SendPayload(e, count)
    \/ \E d \in net, again \in {Duplication, FALSE} : onSegmentData(e, d, again)
    \/ InputSegment(e)
    \/ InputReturn(e)
    \/ UpdateFlush(e)
    \/ UpdateOnly(e)
    \/ Payload(e)

Spec == Init /\ [][Next]_vars

(***************************************************************************)
(* Fairness.  The ticker never stops and every retransmission timer        *)
(* expires in the end (rto grows, but dead_link only sets a field that is  *)
(* never read), so a flush that retransmits everything and asks for the    *)
(* window comes again and again; the network does not lose it every time   *)
(* and delivers some of what it takes; the lock is fair.  MtuSegs has to   *)
(* be large enough for a flush to make one datagram.                       *)
(***************************************************************************)
UpdateAll(e) ==
  Unlocked(e) /\ Flush(e, Unacked(e), MayProbe(e), TRUE) /\ Deliver(e, {})

Fairness ==
  \A e \in Ends :
    /\ SF_vars(UpdateAll(e))
    /\ SF_vars(\E d \in net : onSegmentData(e, d, FALSE))
    /\ WF_vars(InputSegment(e)) /\ WF_vars(InputReturn(e))
    /\ WF_vars(Payload(e))

FairSpec == Spec /\ Fairness

-----------------------------------------------------------------------------
(* Properties.                                                             *)

Prefix(s, n) == SubSeq(s, 1, n)
Received(e, sn) == sn < rcv_nxt[e] \/ sn \in DOMAIN rcv_buf[e]

\* The types of the variables.
TypeOK ==
  /\ snd_queue \in [Ends -> Seq(Fragment)] /\ rcv_queue \in [Ends -> Seq(Fragment)]
  /\ snd_una \in [Ends -> Nat] /\ snd_nxt \in [Ends -> Nat] /\ rcv_nxt \in [Ends -> Nat]
  /\ rmt_wnd \in [Ends -> 0..RcvWnd]
  /\ probe \in [Ends -> SUBSET {"SEND", "TELL"}] /\ probe_wait \in [Ends -> BOOLEAN]
  /\ acklist \in [Ends -> Seq(Nat)]
  /\ DOMAIN snd_buf = Ends /\ DOMAIN rcv_buf = Ends
  /\ \A e \in Ends :
       /\ DOMAIN snd_buf[e] \subseteq Nat
       /\ snd_buf[e] \in [DOMAIN snd_buf[e] -> [frag : Fragment, acked : BOOLEAN]]
       /\ DOMAIN rcv_buf[e] \subseteq Nat
       /\ rcv_buf[e] \in [DOMAIN rcv_buf[e] -> Fragment]
  /\ sent \in [Ends -> Seq(Fragment)] /\ read \in [Ends -> Seq(Fragment)]
  /\ payload \in [Ends -> Seq(Seq(Fragment))]
  /\ delivered \in [Ends -> Seq(Seq(Fragment))]
  /\ input \in [Ends -> [busy : BOOLEAN, segs : Seq(Segment), slid : BOOLEAN]]
  /\ net \subseteq Datagram

\* What one end has read, followed by what waits in its rcv_queue, is the
\* beginning of what the other end has sent: nothing lost, nothing twice,
\* nothing out of order, whatever the network did.
InOrder ==
  \A e \in Ends :
    /\ rcv_nxt[e] <= Len(sent[Other(e)])
    /\ read[e] \o rcv_queue[e] = Prefix(sent[Other(e)], rcv_nxt[e])

\* The sender never forgets a segment, nor marks it acknowledged, that the
\* receiver does not hold (una, sn and stale or duplicated acknowledgements).
AckedIsReceived ==
  \A e \in Ends :
    /\ \A sn \in 0..(snd_nxt[e] - 1) :
         sn \notin DOMAIN snd_buf[e] => Received(Other(e), sn)
    /\ \A sn \in DOMAIN snd_buf[e] : snd_buf[e][sn].acked => Received(Other(e), sn)

\* Input never has to discard a segment as lying beyond the window, although
\* the sender's idea of rmt_wnd may be out of date.
NoneBeyondWindow ==
  \A d \in net : \A i \in DOMAIN d.segs :
    d.segs[i].cmd = "PUSH" => InWindow(d.to, d.segs[i].sn)

\* A message is readable only when all its fragments are there: what goes to
\* the payload channel is a message as it was sent.
WholeMessages ==
  \A e \in Ends : \A q \in {payload[e], delivered[e]} : \A i \in DOMAIN q :
    q[i] = Split(q[i][1].msg, Len(q[i]))

\* The consumer gets messages in the order they were sent and none twice,
\* even when the channel's overflow has dropped some of them.
DeliveredInOrder ==
  \A e \in Ends :
    LET got == delivered[e] \o payload[e]
    IN  \A i, j \in DOMAIN got : i < j => got[i][1].msg < got[j][1].msg

\* The acknowledgements that "filter jitters" leaves out are never missed:
\* whatever is sent is removed from snd_buf in the end.
EverySentIsReleased ==
  \A e \in Ends : \A n \in 1..MaxSent[e] :
    Len(sent[e]) >= n ~> snd_una[e] >= n

\* rmt_wnd is "only trust[ed from] regular packets. i.e: latest update": the
\* sender's limit never exceeds what the receiver has room for.
WindowIsLatest ==
  \A e \in Ends : snd_una[e] + rmt_wnd[e] <= Len(read[Other(e)]) + RcvWnd

Pipe == INSTANCE MessagePipe WITH
  Ends <- Ends, Other <- Other,
  MaxFrags <- MaxFrags, PayloadCap <- PayloadCap, MaxSent <- MaxSent,
  sent <- sent, read <- read, payload <- payload, delivered <- delivered

\* Two sessions joined by KCP are a pair of message pipes: what
\* SendPayload, update and Payload show their callers is a reliable stream.
PipeSpec == Pipe!Spec

\* Nor is the stream ever stuck: una, wnd and the two probe commands bring
\* every message across, even past a window the sender believes closed and
\* a WINS that was lost.
PipeFairSpec == Pipe!FairSpec

=============================================================================
