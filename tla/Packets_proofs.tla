--------------------------- MODULE Packets_proofs ---------------------------
(***************************************************************************)
(* Proofs about Packets, for lists of any length and over any tables:      *)
(* unions are forwarded whole, and the entries of a list of invocations    *)
(* are translated each on its own.  The first rests on PairsNamed, which   *)
(* Mapper_proofs proves.                                                   *)
(***************************************************************************)
EXTENDS Packets, Mapper_proofs, SequenceTheorems, WellFoundedInduction

\* A body is translated only if both protocols know its name.
LEMMA TranslatedIsKnown ==
  ASSUME NEW from, NEW to, NEW name, NEW kind \in Kinds,
         ConvertPacketByName(from, to, name, kind) = "translated"
  PROVE  name \in MessageDescMap[from] /\ name \in MessageDescMap[to]
<1>1. kind = "plain" \/ kind = "malformed" \/ kind = "injected"
  BY DEF Kinds
<1> QED
  BY <1>1 DEF ConvertPacketByName

\* Only a handler that answers by itself makes a packet "injected".
LEMMA InjectedIsAnswered ==
  ASSUME NEW from, NEW to, NEW name, NEW kind \in Kinds,
         ConvertPacketByName(from, to, name, kind) = "injected"
  PROVE  kind = "injected"
<1>1. kind = "plain" \/ kind = "malformed" \/ kind = "injected"
  BY DEF Kinds
<1> QED
  BY <1>1 DEF ConvertPacketByName

\* There are three outcomes.
LEMMA Outcomes ==
  ASSUME NEW from, NEW to, NEW name, NEW kind \in Kinds
  PROVE  ConvertPacketByName(from, to, name, kind) \in {"translated", "injected", "failed"}
<1>1. kind = "plain" \/ kind = "malformed" \/ kind = "injected"
  BY DEF Kinds
<1> QED
  BY <1>1 DEF ConvertPacketByName

\* A set of positions that is not empty has a first one.
LEMMA FirstOne ==
  ASSUME NEW S, S \subseteq Nat, S # {}
  PROVE  First(S) \in S /\ \A j \in S : First(S) <= j
<1>1. \E i \in S : \A j \in S : i <= j
  <2>1. PICK i \in S : \A j \in S : ~(<<j, i>> \in OpToRel(<, Nat))
    BY NatLessThanWellFounded, WFMin
  <2>2. ASSUME NEW j \in S
        PROVE  i <= j
    <3>1. i \in Nat /\ j \in Nat
      OBVIOUS
    <3>2. ~(<<j, i>> \in {ss \in Nat \X Nat : ss[1] < ss[2]})
      BY <2>1 DEF OpToRel
    <3>3. ~(j < i)
      BY <3>1, <3>2
    <3> QED
      BY <3>1, <3>3
  <2> QED
    BY <2>2
<1> QED
  BY <1>1 DEF First

\* What comes out of a union: the union that came, if a handler answered, or
\* its translation, if no command was refused.
LEMMA TwoWays ==
  ASSUME NEW from, NEW to, NEW cmds \in Unions, NEW out \in Forwarded(from, to, cmds)
  PROVE  \/ out = Came(from, cmds) /\ \E i \in DOMAIN cmds : cmds[i].kind = "injected"
         \/ out = Translated(from, to, cmds) /\ Refused(from, to, cmds) = {}
<1> DEFINE refused == Refused(from, to, cmds)
<1>1. PICK n \in 0..MaxNested : cmds \in [1..n -> [id : Commands, kind : Kinds]]
  BY DEF Unions
<1>2. CASE refused = {}
  BY <1>2 DEF Forwarded, OnUnionCmdNotify, ConvertPacket
<1>3. CASE refused # {}
  <2>1. refused \subseteq 1..n /\ n \in Nat
    BY <1>1, PacketsConstants DEF Refused
  <2>2. First(refused) \in refused
    BY <1>3, <2>1, FirstOne
  <2> DEFINE i == First(refused)
  <2>3. cmds[i].kind \in Kinds /\ i \in DOMAIN cmds
    BY <1>1, <2>1, <2>2
  <2>4. Outcome(from, to, cmds[i]) \in {"injected", "failed"}
    BY <2>2, <2>3, Outcomes DEF Refused, Outcome
  <2>5. OnUnionCmdNotify(from, to, cmds) = Outcome(from, to, cmds[i])
    BY <1>3 DEF OnUnionCmdNotify
  <2>6. CASE Outcome(from, to, cmds[i]) = "failed"
    BY <2>5, <2>6 DEF Forwarded, ConvertPacket
  <2>7. CASE Outcome(from, to, cmds[i]) = "injected"
    <3>1. out = Came(from, cmds)
      BY <2>5, <2>7 DEF Forwarded, ConvertPacket
    <3>2. cmds[i].kind = "injected"
      BY <2>3, <2>7, InjectedIsAnswered DEF Outcome
    <3> QED
      BY <2>3, <3>1, <3>2
  <2> QED
    BY <2>4, <2>6, <2>7
<1> QED
  BY <1>2, <1>3

\* One command of a translated union: its body is known to both sides, and
\* its pair has the name of the body.
LEMMA CommandKept ==
  ASSUME PairsNamed, NEW from \in Protocols, NEW to \in Protocols,
         NEW command \in [id : Commands, kind : Kinds],
         Outcome(from, to, command) = "translated"
  PROVE  LET pair == CommandPairMap[from][to]
             name == NameOf(from, command)
         IN  /\ name \in MessageDescMap[to]
             /\ IF command.id \in DOMAIN pair
                THEN /\ Get(pair, command.id, 0) \in DOMAIN CommandNameMap[to]
                     /\ CommandNameMap[to][Get(pair, command.id, 0)] = name
                ELSE Get(pair, command.id, 0) = 0
<1> DEFINE pair == CommandPairMap[from][to]
           name == NameOf(from, command)
<1>1. name \in MessageDescMap[to]
  BY TranslatedIsKnown DEF Outcome
<1>2. CASE command.id \in DOMAIN pair
  <2>1. /\ command.id \in DOMAIN CommandNameMap[from]
        /\ pair[command.id] \in DOMAIN CommandNameMap[to]
        /\ CommandNameMap[from][command.id] = CommandNameMap[to][pair[command.id]]
    BY <1>2 DEF PairsNamed
  <2> QED
    BY <1>1, <1>2, <2>1 DEF Get, NameOf
<1>3. CASE command.id \notin DOMAIN pair
  BY <1>1, <1>3 DEF Get
<1> QED
  BY <1>2, <1>3

\* A union is forwarded whole or not at all (OnUnionCmdNotify, and what
\* ConvertPacket makes of its error).
THEOREM UnionWholeHolds == Spec => []UnionWhole
<1>1. ASSUME PairsNamed, TypeOK
      PROVE  UnionWhole
  <2> SUFFICES ASSUME NEW p \in Apart, NEW cmds \in Unions, NEW out \in Forwarded(p[1], p[2], cmds),
                      out = Translated(p[1], p[2], cmds), Refused(p[1], p[2], cmds) = {}
               PROVE  /\ DOMAIN out = DOMAIN cmds
                      /\ \A i \in DOMAIN cmds :
                           /\ out[i].lang = p[2] /\ out[i].name \in MessageDescMap[p[2]]
                           /\ cmds[i].id \in DOMAIN CommandNameMap[p[1]]
                           /\ out[i].name = CommandNameMap[p[1]][cmds[i].id]
                           /\ IF cmds[i].id \in DOMAIN CommandPairMap[p[1]][p[2]]
                              THEN out[i].name = CommandNameMap[p[2]][out[i].id]
                              ELSE out[i].id = 0
    BY TwoWays DEF UnionWhole
  <2> DEFINE from == p[1]
             to == p[2]
  <2>1. from \in Protocols /\ to \in Protocols
    BY DEF Apart
  <2>2. PICK n \in 0..MaxNested : cmds \in [1..n -> [id : Commands, kind : Kinds]]
    BY DEF Unions
  <2>3. DOMAIN out = DOMAIN cmds
    BY DEF Translated
  <2>4. ASSUME NEW i \in DOMAIN cmds
        PROVE  /\ out[i].lang = to /\ out[i].name \in MessageDescMap[to]
               /\ cmds[i].id \in DOMAIN CommandNameMap[from]
               /\ out[i].name = CommandNameMap[from][cmds[i].id]
               /\ IF cmds[i].id \in DOMAIN CommandPairMap[from][to]
                  THEN out[i].name = CommandNameMap[to][out[i].id]
                  ELSE out[i].id = 0
    <3>1. cmds[i] \in [id : Commands, kind : Kinds] /\ Outcome(from, to, cmds[i]) = "translated"
      BY <2>2 DEF Refused
    <3> DEFINE name == NameOf(from, cmds[i])
    <3>2. out[i] = Command(Get(CommandPairMap[from][to], cmds[i].id, 0), name, to)
      BY DEF Translated
    <3>3. /\ out[i].id = Get(CommandPairMap[from][to], cmds[i].id, 0)
          /\ out[i].name = name /\ out[i].lang = to
      BY <3>2 DEF Command
    <3>4. name \in MessageDescMap[from]
      <4>1. cmds[i].kind \in Kinds /\ ConvertPacketByName(from, to, name, cmds[i].kind) = "translated"
        BY <3>1 DEF Outcome
      <4> QED
        BY <4>1, TranslatedIsKnown
    <3>5. name # ""
      BY <1>1, <2>1, <3>4, NoEmptyName DEF TypeOK
    <3>6. cmds[i].id \in DOMAIN CommandNameMap[from] /\ name = CommandNameMap[from][cmds[i].id]
      BY <3>5 DEF NameOf, Get
    <3> QED
      BY <1>1, <2>1, <3>1, <3>3, <3>6, CommandKept
  <2> QED
    BY <2>3, <2>4
<1> QED
  BY <1>1, PairsNamedHolds, TypesHold, PTL

-----------------------------------------------------------------------------
(* The loop over a list of invocations.                                    *)

\* Induction, with the set of the numbers it is true of.
LEMMA AllNumbers ==
  ASSUME NEW S, 0 \in S, \A n \in Nat : n \in S => n + 1 \in S
  PROVE  \A n \in Nat : n \in S
<1> DEFINE bad == {n \in Nat : n \notin S}
<1> SUFFICES ASSUME bad # {}
             PROVE  FALSE
  OBVIOUS
<1> DEFINE m == First(bad)
<1>1. m \in bad /\ \A j \in bad : m <= j
  <2>1. bad \subseteq Nat
    OBVIOUS
  <2> HIDE DEF bad
  <2> QED
    BY <2>1, FirstOne
<1> HIDE DEF m
<1>2. m \in Nat /\ m \notin S /\ m # 0
  BY <1>1
<1>3. m - 1 \in Nat /\ (m - 1) + 1 = m /\ ~(m <= m - 1)
  BY <1>2
<1>4. m - 1 \in S
  BY <1>1, <1>3
<1> QED
  BY <1>2, <1>3, <1>4

\* f[n] is what the loop has after n turns.
Loop(f, from, to, in, k) ==
  f = [n \in 0..k |-> IF n = 0 THEN <<>> ELSE Invoke(from, to, f[n - 1], in[n])]

LEMMA LoopRuns ==
  ASSUME NEW from, NEW to, NEW in
  PROVE  \A k \in Nat : \E f : Loop(f, from, to, in, k)
<1> DEFINE S == {k \in Nat : \E f : Loop(f, from, to, in, k)}
<1>1. 0 \in S
  <2> DEFINE f == [n \in 0..0 |-> <<>>]
  <2>1. f = [n \in 0..0 |-> IF n = 0 THEN <<>> ELSE Invoke(from, to, f[n - 1], in[n])]
    OBVIOUS
  <2>2. Loop(f, from, to, in, 0)
    BY <2>1 DEF Loop
  <2> QED
    BY <2>2
<1>2. ASSUME NEW k \in Nat, k \in S
      PROVE  k + 1 \in S
  <2>1. PICK f : Loop(f, from, to, in, k)
    BY <1>2
  <2> DEFINE e == [n \in 0..(k + 1) |-> IF n = k + 1 THEN Invoke(from, to, f[k], in[k + 1]) ELSE f[n]]
             Then(n) == IF n = 0 THEN <<>> ELSE Invoke(from, to, e[n - 1], in[n])
  <2>2. ASSUME NEW n \in 0..(k + 1)
        PROVE  e[n] = Then(n)
    <3>1. CASE n = k + 1
      <4>1. n # 0 /\ n - 1 = k /\ n - 1 # k + 1 /\ n - 1 \in 0..(k + 1)
        BY <3>1
      <4>2. e[n - 1] = f[k] /\ e[n] = Invoke(from, to, f[k], in[k + 1])
        BY <3>1, <4>1
      <4> HIDE DEF e
      <4> QED
        BY <3>1, <4>1, <4>2
    <3>2. CASE n # k + 1
      <4>1. n \in 0..k /\ e[n] = f[n]
        BY <3>2
      <4>2. f[n] = IF n = 0 THEN <<>> ELSE Invoke(from, to, f[n - 1], in[n])
        BY <2>1, <4>1 DEF Loop
      <4>3. n # 0 => n - 1 \in 0..(k + 1) /\ n - 1 # k + 1
        BY <4>1
      <4>4. n # 0 => e[n - 1] = f[n - 1]
        BY <4>3
      <4> HIDE DEF e
      <4> QED
        BY <4>1, <4>2, <4>4
    <3> QED
      BY <3>1, <3>2
  <2>3. e = [n \in 0..(k + 1) |-> e[n]]
    OBVIOUS
  <2> HIDE DEF e
  <2>4. Loop(e, from, to, in, k + 1)
    BY <2>2, <2>3 DEF Loop
  <2> QED
    BY <2>4
<1> HIDE DEF S
<1>3. \A k \in Nat : k \in S
  BY <1>1, <1>2, AllNumbers
<1> QED
  BY <1>3 DEF S

\* OnInvocations is the last turn of the loop.
LEMMA InvocationsLoop ==
  ASSUME NEW from, NEW to, NEW in, Len(in) \in Nat
  PROVE  \E f : Loop(f, from, to, in, Len(in)) /\ OnInvocations(from, to, in) = f[Len(in)]
<1> DEFINE f == CHOOSE f : f = [n \in 0..Len(in) |->
                                  IF n = 0 THEN <<>> ELSE Invoke(from, to, f[n - 1], in[n])]
<1>1. \E e : Loop(e, from, to, in, Len(in))
  BY LoopRuns
<1>2. Loop(f, from, to, in, Len(in))
  BY <1>1 DEF Loop
<1>3. OnInvocations(from, to, in) = f[Len(in)]
  BY DEF OnInvocations
<1> HIDE DEF f
<1> QED
  BY <1>2, <1>3

\* A list of one is one turn.
LEMMA InvocationAlone ==
  ASSUME NEW from, NEW to, NEW entry
  PROVE  OnInvocations(from, to, <<entry>>) = Invoke(from, to, <<>>, entry)
<1> DEFINE in == <<entry>>
<1>1. Len(in) = 1 /\ in[1] = entry
  OBVIOUS
<1> HIDE DEF in
<1>2. PICK f : Loop(f, from, to, in, 1) /\ OnInvocations(from, to, in) = f[1]
  <2>1. Len(in) \in Nat
    BY <1>1
  <2>2. \E f : Loop(f, from, to, in, Len(in)) /\ OnInvocations(from, to, in) = f[Len(in)]
    BY <2>1, InvocationsLoop
  <2> QED
    BY <1>1, <2>2
<1>3. 0 \in 0..1 /\ 1 \in 0..1 /\ 1 - 1 = 0
  OBVIOUS
<1>4. f[0] = <<>>
  BY <1>2, <1>3 DEF Loop
<1>5. f[1] = Invoke(from, to, f[0], in[1])
  BY <1>2, <1>3 DEF Loop
<1> QED
  BY <1>1, <1>2, <1>4, <1>5 DEF in

\* A turn adds to what is there what the entry alone would give.
LEMMA InvokeAdds ==
  ASSUME NEW S, NEW from, NEW to, NEW entry, NEW out \in Seq(S),
         Entry(entry, from) \in S, Entry(entry, to) \in S
  PROVE  /\ Invoke(from, to, <<>>, entry) \in Seq(S)
         /\ Invoke(from, to, out, entry) \in Seq(S)
         /\ Invoke(from, to, out, entry) = out \o Invoke(from, to, <<>>, entry)
<1>1. ASSUME NEW x \in S
      PROVE  /\ Append(<<>>, x) \in Seq(S) /\ Append(out, x) \in Seq(S)
             /\ Append(out, x) = out \o Append(<<>>, x)
  <2>1. Append(<<>>, x) = <<x>> /\ <<x>> \in Seq(S)
    OBVIOUS
  <2>2. Append(out, x) = out \o <<x>> /\ Append(out, x) \in Seq(S)
    BY AppendIsConcat, AppendProperties
  <2> QED
    BY <2>1, <2>2
<1>2. <<>> \in Seq(S) /\ out = out \o <<>>
  BY EmptySeq, ConcatEmptySeq
<1>3. Entry(entry, from) \in S /\ Entry(entry, to) \in S
  OBVIOUS
<1>4. \/ \A q : Invoke(from, to, q, entry) = q
      \/ \A q : Invoke(from, to, q, entry) = Append(q, Entry(entry, from))
      \/ \A q : Invoke(from, to, q, entry) = Append(q, Entry(entry, to))
  BY DEF Invoke
<1>5. CASE \A q : Invoke(from, to, q, entry) = q
  BY <1>2, <1>5
<1>6. CASE \A q : Invoke(from, to, q, entry) = Append(q, Entry(entry, from))
  BY <1>1, <1>3, <1>6
<1>7. CASE \A q : Invoke(from, to, q, entry) = Append(q, Entry(entry, to))
  BY <1>1, <1>3, <1>7
<1> QED
  BY <1>4, <1>5, <1>6, <1>7

\* One after the other: what FlattenSeq does.
Flat(f, s) == f = [i \in 1..Len(s) |-> IF i = 1 THEN s[i] ELSE f[i - 1] \o s[i]]

\* A turn appends what its entry alone would give.
LEMMA LoopIsFlat ==
  ASSUME NEW from, NEW to, NEW N \in Nat, NEW in, NEW f, Loop(f, from, to, in, N),
         NEW s, s = [i \in 1..N |-> Invoke(from, to, <<>>, in[i])]
  PROVE  \A n \in 1..N : f[n] = IF n = 1 THEN s[n] ELSE f[n - 1] \o s[n]
<1> DEFINE S == {Entry(in[i], lang) : i \in 1..N, lang \in {from, to}}
           good == {n \in Nat : n \in 0..N => f[n] \in Seq(S)}
<1>1. \A i \in 1..N : Entry(in[i], from) \in S /\ Entry(in[i], to) \in S
  OBVIOUS
<1> HIDE DEF S
<1>2. /\ f[0] = <<>>
      /\ \A n \in 1..N : f[n] = Invoke(from, to, f[n - 1], in[n])
  <2>1. 0 \in 0..N /\ \A n \in 1..N : n \in 0..N /\ n # 0
    OBVIOUS
  <2>2. \A n \in 0..N : f[n] = IF n = 0 THEN <<>> ELSE Invoke(from, to, f[n - 1], in[n])
    BY DEF Loop
  <2> QED
    BY <2>1, <2>2
<1>3. ASSUME NEW n \in 1..N, f[n - 1] \in Seq(S)
      PROVE  /\ f[n] \in Seq(S) /\ f[n] = f[n - 1] \o Invoke(from, to, <<>>, in[n])
             /\ Invoke(from, to, <<>>, in[n]) \in Seq(S)
  <2> DEFINE entry == in[n]
             out == f[n - 1]
  <2>1. Entry(entry, from) \in S /\ Entry(entry, to) \in S /\ out \in Seq(S)
    BY <1>1, <1>3
  <2>2. f[n] = Invoke(from, to, out, entry)
    BY <1>2
  <2> HIDE DEF entry, out
  <2>3. /\ Invoke(from, to, out, entry) \in Seq(S)
        /\ Invoke(from, to, out, entry) = out \o Invoke(from, to, <<>>, entry)
        /\ Invoke(from, to, <<>>, entry) \in Seq(S)
    BY <2>1, InvokeAdds
  <2> QED
    BY <2>2, <2>3 DEF entry, out
<1>4. \A n \in 0..N : f[n] \in Seq(S)
  <2>1. 0 \in good
    BY <1>2, EmptySeq
  <2>2. ASSUME NEW k \in Nat, k \in good
        PROVE  k + 1 \in good
    <3> SUFFICES ASSUME k + 1 \in 0..N
                 PROVE  f[k + 1] \in Seq(S)
      OBVIOUS
    <3>1. k \in 0..N /\ k + 1 \in 1..N /\ (k + 1) - 1 = k
      OBVIOUS
    <3>2. f[k] \in Seq(S)
      BY <2>2, <3>1
    <3> QED
      BY <1>3, <3>1, <3>2
  <2>3. \A n \in Nat : n \in good
    <3> HIDE DEF good
    <3> QED
      BY <2>1, <2>2, AllNumbers
  <2> QED
    BY <2>3
<1> SUFFICES ASSUME NEW n \in 1..N
             PROVE  f[n] = IF n = 1 THEN s[n] ELSE f[n - 1] \o s[n]
  OBVIOUS
<1>5. n - 1 \in 0..N /\ s[n] = Invoke(from, to, <<>>, in[n]) /\ (n = 1 => n - 1 = 0)
  OBVIOUS
<1>6. f[n] = f[n - 1] \o s[n] /\ s[n] \in Seq(S)
  BY <1>3, <1>4, <1>5
<1>7. n = 1 => f[n - 1] = <<>>
  BY <1>2, <1>5
<1>8. <<>> \o s[n] = s[n]
  BY <1>6, ConcatEmptySeq
<1> QED
  BY <1>6, <1>7, <1>8

\* There is one way to append them all.
LEMMA FlatOnce ==
  ASSUME NEW N \in Nat, NEW s, Len(s) = N, NEW e, Flat(e, s), NEW h, Flat(h, s)
  PROVE  \A n \in 1..N : h[n] = e[n]
<1> DEFINE good == {n \in Nat : n \in 1..N => h[n] = e[n]}
<1>1. \A n \in 1..N : /\ h[n] = IF n = 1 THEN s[n] ELSE h[n - 1] \o s[n]
                      /\ e[n] = IF n = 1 THEN s[n] ELSE e[n - 1] \o s[n]
  BY DEF Flat
<1>2. 0 \in good
  OBVIOUS
<1>3. ASSUME NEW k \in Nat, k \in good
      PROVE  k + 1 \in good
  <2> SUFFICES ASSUME k + 1 \in 1..N
               PROVE  h[k + 1] = e[k + 1]
    OBVIOUS
  <2>1. (k + 1) - 1 = k /\ (k + 1 = 1 <=> k = 0) /\ (k # 0 => k \in 1..N)
    OBVIOUS
  <2>2. k # 0 => h[k] = e[k]
    BY <1>3, <2>1
  <2> HIDE DEF good
  <2>3. CASE k = 0
    BY <1>1, <2>1, <2>3
  <2>4. CASE k # 0
    BY <1>1, <2>1, <2>2, <2>4
  <2> QED
    BY <2>3, <2>4
<1>4. \A n \in Nat : n \in good
  <2> HIDE DEF good
  <2> QED
    BY <1>2, <1>3, AllNumbers
<1>5. \A n \in 1..N : n \in Nat
  OBVIOUS
<1> QED
  BY <1>4, <1>5

\* What becomes of a list of any length is what becomes of its entries, one
\* by one (OnAbilityInvocations, OnCombatInvocations): an entry that is left
\* out, or cannot be translated, takes no other with it.
THEOREM InvocationsApartHolds == Spec => []InvocationsApart
<1>1. InvocationsApart
  <2> SUFFICES ASSUME NEW p \in Apart, NEW in \in Invocations
               PROVE  OnInvocations(p[1], p[2], in) =
                        FlattenSeq([i \in DOMAIN in |-> OnInvocations(p[1], p[2], <<in[i]>>)])
    BY DEF InvocationsApart
  <2> DEFINE from == p[1]
             to == p[2]
             s == [i \in DOMAIN in |-> OnInvocations(from, to, <<in[i]>>)]
  <2>1. PICK N \in 0..MaxNested : DOMAIN in = 1..N /\ Len(in) = N
    <3> DEFINE S == [name : ArgumentNames \cup {""}, kind : {"plain", "malformed", "empty"}]
    <3> HIDE DEF S
    <3>1. PICK N \in 0..MaxNested : in \in [1..N -> S]
      BY DEF Invocations, S
    <3>2. N \in Nat
      BY PacketsConstants
    <3>3. DOMAIN in = 1..N /\ in \in Seq(S)
      BY <3>1, <3>2
    <3>4. Len(in) = N
      BY <3>2, <3>3
    <3> QED
      BY <3>3, <3>4
  <2>2. N \in Nat /\ DOMAIN in = 1..N
    BY <2>1, PacketsConstants
  <2>3. Len(in) = N
    BY <2>1
  <2>4. s = [i \in 1..N |-> Invoke(from, to, <<>>, in[i])]
    BY <2>2, InvocationAlone
  <2> HIDE DEF s
  <2>5. Len(s) = N /\ DOMAIN s = 1..N
    BY <2>2, <2>4
  <2> HIDE DEF from, to
  <2>6. PICK f : Loop(f, from, to, in, N) /\ OnInvocations(from, to, in) = f[N]
    BY <2>2, <2>3, InvocationsLoop
  <2>7. CASE N = 0
    <3>1. f[0] = <<>>
      BY <2>6, <2>7 DEF Loop
    <3>2. FlattenSeq(s) = <<>>
      BY <2>4, <2>5, <2>7 DEF FlattenSeq
    <3> QED
      BY <2>6, <2>7, <3>1, <3>2 DEF s, from, to
  <2>8. CASE N # 0
    <3> DEFINE h == CHOOSE h : h = [i \in 1..Len(s) |-> IF i = 1 THEN s[i] ELSE h[i - 1] \o s[i]]
               e == [i \in 1..N |-> f[i]]
    <3>1. Flat(e, s)
      <4>1. \A i \in 1..N : f[i] = IF i = 1 THEN s[i] ELSE f[i - 1] \o s[i]
        BY <2>2, <2>4, <2>6, LoopIsFlat
      <4>2. \A i \in 1..N : i # 1 => i - 1 \in 1..N
        BY <2>2
      <4>3. \A i \in 1..N : e[i] = IF i = 1 THEN s[i] ELSE e[i - 1] \o s[i]
        BY <4>1, <4>2
      <4>4. e = [i \in 1..N |-> e[i]]
        OBVIOUS
      <4> HIDE DEF e
      <4> QED
        BY <2>5, <4>3, <4>4 DEF Flat
    <3>2. Flat(h, s)
      BY <3>1 DEF Flat
    <3>3. FlattenSeq(s) = h[N]
      BY <2>5, <2>8 DEF FlattenSeq
    <3>4. N \in 1..N /\ e[N] = f[N]
      BY <2>2, <2>8
    <3> HIDE DEF h, e
    <3>5. h[N] = e[N]
      BY <2>2, <2>5, <3>1, <3>2, <3>4, FlatOnce
    <3> QED
      BY <2>6, <3>3, <3>4, <3>5 DEF s, from, to
  <2> QED
    BY <2>7, <2>8
<1> QED
  BY <1>1, PTL
=============================================================================
