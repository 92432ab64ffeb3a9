---------------------------- MODULE MessagePipe ----------------------------
(***************************************************************************)
(* What a pair of connected KCP sessions promises to its users, without    *)
(* datagrams, windows or retransmission: each direction is a reliable,     *)
(* ordered stream of whole messages, whose receiving session fetches them  *)
(* one at a time into its payload channel and drops the one that finds the *)
(* channel full.  Kcp implements this specification.                       *)
(***************************************************************************)
EXTENDS Naturals, Sequences

CONSTANTS
  Ends, Other(_),  \* the two ends, and the end opposite to a given one
  MaxFrags,        \* longest message, in fragments
  PayloadCap,      \* capacity of a payload channel
  MaxSent          \* bound: fragments each end sends

VARIABLES
  sent,      \* the fragments of the messages each end has sent, in order
  read,      \* the fragments each end has fetched of what was sent to it
  payload,   \* the messages that wait in its payload channel
  delivered  \* the messages its user has taken

vars == <<sent, read, payload, delivered>>

Init ==
  /\ sent = [e \in Ends |-> <<>>] /\ read = [e \in Ends |-> <<>>]
  /\ payload = [e \in Ends |-> <<>>] /\ delivered = [e \in Ends |-> <<>>]

LastMsg(s) == IF s = <<>> THEN 0 ELSE s[Len(s)].msg
Split(msg, count) == [i \in 1..count |-> [msg |-> msg, frg |-> count - i]]

Send(e, count) ==
  /\ Len(sent[e]) + count <= MaxSent[e]
  /\ sent' = [sent EXCEPT ![e] = @ \o Split(LastMsg(sent[e]) + 1, count)]
  /\ UNCHANGED <<read, payload, delivered>>

\* The next whole message: up to the first fragment numbered 0.
Fetch(e) ==
  LET stream == sent[Other(e)]
      from == Len(read[e])
  IN  \E n \in (from + 1)..Len(stream) :
        /\ stream[n].frg = 0 /\ \A i \in (from + 1)..(n - 1) : stream[i].frg # 0
        /\ read' = [read EXCEPT ![e] = SubSeq(stream, 1, n)]
        /\ payload' = IF Len(payload[e]) < PayloadCap
                      THEN [payload EXCEPT ![e] = Append(@, SubSeq(stream, from + 1, n))]
                      ELSE payload
        /\ UNCHANGED <<sent, delivered>>

Take(e) ==
  /\ payload[e] # <<>>
  /\ delivered' = [delivered EXCEPT ![e] = Append(@, Head(payload[e]))]
  /\ payload' = [payload EXCEPT ![e] = Tail(@)]
  /\ UNCHANGED <<sent, read>>

Next == \E e \in Ends : (\E count \in 1..MaxFrags : Send(e, count)) \/ Fetch(e) \/ Take(e)

Spec == Init /\ [][Next]_vars

\* Every message sent is fetched, every message in the channel is taken.
FairSpec == Spec /\ \A e \in Ends : WF_vars(Fetch(e)) /\ WF_vars(Take(e))

=============================================================================
