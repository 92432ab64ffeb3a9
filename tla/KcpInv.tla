------------------------------- MODULE KcpInv -------------------------------
(***************************************************************************)
(* The inductive invariants behind the safety properties of Kcp: IInv for  *)
(* any path, WInv in addition for one that keeps the order of datagrams.   *)
(* o is always the end opposite to e.                                      *)
(***************************************************************************)
EXTENDS Kcp

\* A stream is a sequence of messages: from any fragment on, the rest of its
\* message follows, and the next message has a greater number.
StreamOK(s) ==
  /\ \A i \in DOMAIN s :
       /\ i + s[i].frg <= Len(s)
       /\ \A j \in 0..s[i].frg : s[i + j] = [msg |-> s[i].msg, frg |-> s[i].frg - j]
  /\ \A i, j \in DOMAIN s : i < j => /\ s[i].msg <= s[j].msg
                                     /\ s[i].frg = 0 => s[i].msg < s[j].msg

\* snd_buf holds the numbers from snd_una to snd_nxt, snd_queue the rest of
\* what was sent, and what snd_buf has given up or marked was received.
SndOK(e) ==
  /\ snd_una[e] <= snd_nxt[e] /\ snd_nxt[e] <= snd_una[e] + SndWnd
  /\ snd_nxt[e] + Len(snd_queue[e]) = Len(sent[e])
  /\ \A i \in DOMAIN snd_queue[e] : snd_queue[e][i] = sent[e][snd_nxt[e] + i]
  /\ DOMAIN snd_buf[e] = snd_una[e]..(snd_nxt[e] - 1)
  /\ \A sn \in DOMAIN snd_buf[e] :
       /\ snd_buf[e][sn].frag = sent[e][sn + 1]
       /\ snd_buf[e][sn].acked => Received(Other(e), sn)
  /\ snd_una[e] <= rcv_nxt[Other(e)]

\* The receiver expects, holds and acknowledges only what was sent.
RcvOK(e) ==
  /\ rcv_nxt[e] <= snd_nxt[Other(e)]
  /\ \A sn \in DOMAIN rcv_buf[e] :
       /\ rcv_nxt[e] <= sn /\ sn < snd_nxt[Other(e)]
       /\ rcv_buf[e][sn] = sent[Other(e)][sn + 1]
  /\ \A i \in DOMAIN acklist[e] : Received(e, acklist[e][i])

\* read and rcv_queue are the stream up to rcv_nxt, read ends with a message.
ReadOK(e) ==
  /\ Len(read[e]) + Len(rcv_queue[e]) = rcv_nxt[e]
  /\ \A i \in DOMAIN read[e] : read[e][i] = sent[Other(e)][i]
  /\ \A i \in DOMAIN rcv_queue[e] : rcv_queue[e][i] = sent[Other(e)][Len(read[e]) + i]
  /\ Len(read[e]) > 0 => read[e][Len(read[e])].frg = 0

\* What a segment on its way to e says of the end that sent it is still true.
SegOK(e, seg) ==
  /\ seg.una <= rcv_nxt[Other(e)]
  /\ seg.cmd = "PUSH" => /\ seg.sn < snd_nxt[Other(e)]
                         /\ seg.frag = sent[Other(e)][seg.sn + 1]
  /\ seg.cmd = "ACK" => Received(Other(e), seg.sn)

NetOK == \A d \in net : \A i \in DOMAIN d.segs : SegOK(d.to, d.segs[i])
InputOK(e) == \A i \in DOMAIN input[e].segs : SegOK(e, input[e].segs[i])

\* What was delivered or waits for delivery are whole messages, in order, and
\* none is later than the last that was read.
Got(e) == delivered[e] \o payload[e]
UserOK(e) ==
  /\ \A i \in DOMAIN Got(e) :
       /\ Got(e)[i] # <<>>
       /\ Got(e)[i] = Split(Got(e)[i][1].msg, Len(Got(e)[i]))
       /\ Len(read[e]) > 0 /\ Got(e)[i][1].msg <= read[e][Len(read[e])].msg
  /\ \A i, j \in DOMAIN Got(e) : i < j => Got(e)[i][1].msg < Got(e)[j][1].msg

IInv ==
  /\ TypeOK
  /\ \A e \in Ends : /\ StreamOK(sent[e]) /\ SndOK(e) /\ RcvOK(e) /\ ReadOK(e)
                     /\ InputOK(e) /\ UserOK(e)
  /\ NetOK

-----------------------------------------------------------------------------
(* The window the peer advertises, on a path that keeps the order.         *)

\* A datagram is handed to Input only when none in flight to the same end
\* was sent before it: una never decreases from one flush of the peer to the
\* next.
OldestFirst ==
  \A e \in Ends : \A d \in InFlight(e, net) :
    ~input[e].busy /\ input'[e] = [busy |-> TRUE, segs |-> d.segs, slid |-> FALSE]
      => \A later \in InFlight(e, net) : \A i \in DOMAIN d.segs, j \in DOMAIN later.segs :
           d.segs[i].una <= later.segs[j].una

\* A segment on its way to e is not older than what e has seen, and promises
\* no more than the end that sent it has room for.
Fresh(e, seg) ==
  /\ snd_una[e] <= seg.una
  /\ seg.una + seg.wnd <= Len(read[Other(e)]) + RcvWnd

\* All the segments of one flush carry the same una.
OneFlush(segs) == \A i, j \in DOMAIN segs : segs[i].una = segs[j].una

WindowOK(e) ==
  /\ Len(rcv_queue[e]) <= RcvWnd
  /\ snd_una[e] + rmt_wnd[e] <= Len(read[Other(e)]) + RcvWnd
  /\ OneFlush(input[e].segs)
  /\ \A i \in DOMAIN input[e].segs : Fresh(e, input[e].segs[i])
  /\ \A d \in InFlight(e, net) :
       /\ OneFlush(d.segs)
       /\ \A i \in DOMAIN d.segs :
            /\ Fresh(e, d.segs[i])
            /\ \A j \in DOMAIN input[e].segs : input[e].segs[j].una <= d.segs[i].una

WInv == \A e \in Ends : WindowOK(e)
=============================================================================
