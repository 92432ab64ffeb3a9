------------------------------ MODULE Packets ------------------------------
(***************************************************************************)
(* Packets within packets: internal/core translates the commands of a      *)
(* UnionCmdNotify and the arguments of ability and combat invocations one  *)
(* by one, with the maps that Mapper has loaded.  A union within a union   *)
(* is, for the outer one, a body like another.                             *)
(***************************************************************************)
EXTENDS Mapper, SequencesExt

CONSTANT MaxNested  \* bound: commands of a union, entries of a list

ASSUME PacketsConstants == MaxNested \in Nat

\* A body is well formed, or cannot be translated, or its handler answers the
\* sender itself and returns "injected ..." for an error.
Kinds == {"plain", "malformed", "injected"}

Unions == UNION {[1..n -> [id : Commands, kind : Kinds]] : n \in 0..MaxNested}
\* An entry's argument may have no name, that is, "", and may be empty.  An
\* error is like another here.
Invocations ==
  UNION {[1..n -> [name : ArgumentNames \cup {""}, kind : {"plain", "malformed", "empty"}]] :
           n \in 0..MaxNested}

-----------------------------------------------------------------------------
(* Translation of one packet.                                              *)

\* ConvertPacketByName, which returns the error that the handler returned.
ConvertPacketByName(from, to, name, kind) ==
  CASE name \notin MessageDescMap[from] \/ kind = "malformed" -> "failed"
    [] name \in MessageDescMap[from] /\ kind = "injected" -> "injected"
    [] name \in MessageDescMap[from] /\ kind \notin {"malformed", "injected"} ->
         IF name \in MessageDescMap[to] THEN "translated" ELSE "failed"

\* ConvertPacket of a packet whose handler gave outcome, and result: the bytes
\* that came, if something was injected.  Nothing is sent on after an error.
ConvertPacket(outcome, result, came) ==
  CASE outcome = "translated" -> {result}
    [] outcome = "injected" -> {came}
    [] outcome = "failed" -> {}

-----------------------------------------------------------------------------
(* handler.go: UnionCmdNotify.                                             *)

\* A command and its body, which is name's in the protocol lang.
Command(id, name, lang) == [id |-> id, name |-> name, lang |-> lang]

NameOf(from, command) == Get(CommandNameMap[from], command.id, "")

Outcome(from, to, command) ==
  ConvertPacketByName(from, to, NameOf(from, command), command.kind)

Came(from, cmds) == [i \in DOMAIN cmds |-> Command(cmds[i].id, NameOf(from, cmds[i]), from)]

\* The commands that keep the union from being translated.
Refused(from, to, cmds) == {i \in DOMAIN cmds : Outcome(from, to, cmds[i]) # "translated"}

First(S) == CHOOSE i \in S : \A j \in S : i <= j

\* The loop of OnUnionCmdNotify up to its end, or the first error.
OnUnionCmdNotify(from, to, cmds) ==
  LET refused == Refused(from, to, cmds)
  IN  IF refused = {} THEN "translated" ELSE Outcome(from, to, cmds[First(refused)])

\* The notification it makes: unlike ConvertPayload, it looks up a pair
\* although both protocols may be the same.
Translated(from, to, cmds) ==
  [i \in DOMAIN cmds |->
     Command(Get(CommandPairMap[from][to], cmds[i].id, 0), NameOf(from, cmds[i]), to)]

\* Mutant: the error is overwritten by the next turn of the loop.
Forwarded_LastError(from, to, cmds) ==
  ConvertPacket(IF cmds = <<>> THEN "translated" ELSE Outcome(from, to, cmds[Len(cmds)]),
                [i \in DOMAIN cmds |->
                   IF i \in Refused(from, to, cmds)
                   THEN [Came(from, cmds)[i] EXCEPT !.id = Translated(from, to, cmds)[i].id]
                   ELSE Translated(from, to, cmds)[i]],
                Came(from, cmds))

\* What the other side gets of a union: one list of commands, or none.
Forwarded(from, to, cmds) ==
  ConvertPacket(OnUnionCmdNotify(from, to, cmds), Translated(from, to, cmds), Came(from, cmds))

-----------------------------------------------------------------------------
(* handler_ability.go, handler_combat.go.                                  *)

\* An entry, whose argument is in the protocol lang.
Entry(entry, lang) == [name |-> entry.name, kind |-> entry.kind, lang |-> lang]

\* Mutant: an entry that cannot be translated ends the loop.
OnInvocations_Break(from, to, in) ==
  LET bad == {i \in DOMAIN in : in[i].kind # "empty"
                /\ (in[i].name = "" \/ ConvertPacketByName(from, to, in[i].name, in[i].kind) # "translated")}
  IN  [i \in 1..(IF bad = {} THEN Len(in) ELSE First(bad) - 1) |->
         Entry(in[i], IF in[i].kind = "empty" THEN from ELSE to)]

\* A turn of the loop: an entry with an argument that has no name or cannot
\* be translated is left out.
Invoke(from, to, out, entry) ==
  IF entry.kind = "empty" THEN Append(out, Entry(entry, from))
  ELSE IF entry.name # "" /\ ConvertPacketByName(from, to, entry.name, entry.kind) = "translated"
       THEN Append(out, Entry(entry, to))
       ELSE out

\* OnAbilityInvocations and OnCombatInvocations.
OnInvocations(from, to, in) ==
  LET out[n \in 0..Len(in)] == IF n = 0 THEN <<>> ELSE Invoke(from, to, out[n - 1], in[n])
  IN  out[Len(in)]

-----------------------------------------------------------------------------
(* Properties.                                                             *)

Apart == {p \in Protocols \X Protocols : p[1] # p[2]}

\* A union is forwarded whole or not at all: all its commands in their order,
\* each under a command of the other protocol that has the name its body was
\* translated by, or, if it has no pair there, under 0; only a union of which
\* a command was answered by its handler goes on as it came.
UnionWhole ==
  loaded = Protocols =>
    \A p \in Apart : \A cmds \in Unions :
      \A out \in Forwarded(p[1], p[2], cmds) :
        \/ out = Came(p[1], cmds) /\ \E i \in DOMAIN cmds : cmds[i].kind = "injected"
        \/ /\ DOMAIN out = DOMAIN cmds
           /\ \A i \in DOMAIN cmds :
                /\ out[i].lang = p[2] /\ out[i].name \in MessageDescMap[p[2]]
                /\ cmds[i].id \in DOMAIN CommandNameMap[p[1]]
                /\ out[i].name = CommandNameMap[p[1]][cmds[i].id]
                /\ IF cmds[i].id \in DOMAIN CommandPairMap[p[1]][p[2]]
                   THEN out[i].name = CommandNameMap[p[2]][out[i].id]
                   ELSE out[i].id = 0

\* What becomes of an entry does not depend on the others: those that can be
\* translated arrive in their order, whatever stands between them.
InvocationsApart ==
  loaded = Protocols =>
    \A p \in Apart : \A in \in Invocations :
      OnInvocations(p[1], p[2], in) =
        FlattenSeq([i \in DOMAIN in |-> OnInvocations(p[1], p[2], <<in[i]>>)])
=============================================================================
