------------------------------- MODULE Mapper -------------------------------
(***************************************************************************)
(* The command maps of internal/mapper: the base protocol is loaded first, *)
(* then the others, in the order of a Go map, that is, in any.  A protocol *)
(* is loaded line by line from its protocol.csv.  The program forwards     *)
(* only once all of them are loaded.                                       *)
(***************************************************************************)
EXTENDS Naturals, Sequences

CONSTANTS
  Base, Others,  \* the protocols
  Names,         \* the names in the tables
  Commands,      \* the commands in the tables
  ArgumentNames, \* the names of ability and combat arguments
  MaxLines       \* bound: lines of a table

ASSUME MapperConstants ==
  /\ Base \notin Others /\ Commands \subseteq Nat /\ MaxLines \in Nat

\* An empty name is skipped.
ASSUME NoEmptyName == "" \notin Names \cup ArgumentNames

Protocols == {Base} \cup Others

\* Assumed of the files, which loadProtocol does not check: names and commands
\* occur once in a table.  Command 0 stands for "none".
Table == {s \in UNION {[1..n -> Names \X Commands] : n \in 0..MaxLines} :
            \A i, j \in DOMAIN s : i # j => s[i][1] # s[j][1] /\ s[i][2] # s[j][2]}

VARIABLES
  tables,   \* external: the files
  loading,  \* the protocol that is being loaded, and the lines that are done
  loaded,   \* the protocols that have been loaded
  failed,   \* whether a file could not be read
  BaseCommands,    \* name -> command
  CommandNameMap,  \* protocol -> command -> name
  CommandPairMap,  \* protocol -> protocol -> command -> command
  MessageDescMap   \* protocol -> the names that have a description

maps == <<BaseCommands, CommandNameMap, CommandPairMap, MessageDescMap>>
vars == <<tables, loading, loaded, failed, maps>>

None == [x \in {} |-> x]
With(f, x, y) == [z \in DOMAIN f \cup {x} |-> IF z = x THEN y ELSE f[z]]

Idle == [v |-> Base, n |-> 0, busy |-> FALSE]

Init ==
  /\ tables \in [Protocols -> Table]
  /\ loading = Idle /\ loaded = {} /\ failed = FALSE
  /\ BaseCommands = None
  /\ CommandNameMap = [v \in Protocols |-> None]
  /\ CommandPairMap = [v \in Protocols |-> [w \in Protocols |-> None]]
  /\ MessageDescMap = [v \in Protocols |-> {}]

\* Mutant: the base protocol has its turn like the others.
MayLoad_AnyOrder == Protocols \ loaded

\* NewMappingFromConfig: the base protocol, then the others.
MayLoad == IF Base \in loaded THEN Others \ loaded ELSE {Base}

\* loadProtocol, up to its loop.
Load(v) ==
  /\ ~loading.busy /\ ~failed /\ v \in MayLoad
  /\ loading' = [v |-> v, n |-> 0, busy |-> TRUE]
  /\ UNCHANGED <<tables, loaded, failed, maps>>

\* protocol.csv is missing.
LoadFails(v) ==
  /\ ~loading.busy /\ ~failed /\ v \in MayLoad
  /\ failed' = TRUE
  /\ UNCHANGED <<tables, loading, loaded, maps>>

\* Mutant: DebugNotify is a name like the others.
Skipped_None(name) == FALSE

Skipped(name) == name = "DebugNotify"

\* Mutant: the second map has its columns in the order of the first.
Paired_Swapped(pairs, v, base, command) ==
  [pairs EXCEPT ![v][Base] = With(@, command, base),
                ![Base][v] = With(@, command, base)]

\* The two pairs that a command of v makes with one of the base protocol.
Paired(pairs, v, base, command) ==
  [pairs EXCEPT ![v][Base] = With(@, command, base),
                ![Base][v] = With(@, base, command)]

\* parseCommandDesc; the message description may be missing.
parseCommandDesc(v, name, command) ==
  /\ CommandNameMap' = [CommandNameMap EXCEPT ![v] = With(@, command, name)]
  /\ IF v = Base
     THEN BaseCommands' = With(BaseCommands, name, command) /\ UNCHANGED CommandPairMap
     ELSE /\ CommandPairMap' =
               IF name \in DOMAIN BaseCommands /\ BaseCommands[name] # 0
               THEN Paired(CommandPairMap, v, BaseCommands[name], command)
               ELSE CommandPairMap
          /\ UNCHANGED BaseCommands
  /\ \/ MessageDescMap' = [MessageDescMap EXCEPT ![v] = @ \cup {name}]
     \/ UNCHANGED MessageDescMap

\* One turn of the loop.
LoadLine ==
  /\ loading.busy /\ loading.n < Len(tables[loading.v])
  /\ LET line == tables[loading.v][loading.n + 1]
     IN  IF Skipped(line[1]) THEN UNCHANGED maps
         ELSE parseCommandDesc(loading.v, line[1], line[2])
  /\ loading' = [loading EXCEPT !.n = @ + 1]
  /\ UNCHANGED <<tables, loaded, failed>>

Named(v) == {CommandNameMap[v][c] : c \in DOMAIN CommandNameMap[v]}

\* After the lines, the descriptions of the arguments; those the table names
\* have been looked for already.
LoadReturn ==
  /\ loading.busy /\ loading.n = Len(tables[loading.v])
  /\ \E found \in SUBSET (ArgumentNames \ Named(loading.v)) :
       MessageDescMap' = [MessageDescMap EXCEPT ![loading.v] = @ \cup found]
  /\ loaded' = loaded \cup {loading.v}
  /\ loading' = Idle
  /\ UNCHANGED <<tables, failed, BaseCommands, CommandNameMap, CommandPairMap>>

Next == (\E v \in Protocols : Load(v) \/ LoadFails(v)) \/ LoadLine \/ LoadReturn

Spec == Init /\ [][Next]_vars

-----------------------------------------------------------------------------
(* How the maps are used: what is missing in a map is 0 or the empty name. *)

Get(f, x, zero) == IF x \in DOMAIN f THEN f[x] ELSE zero

\* The command ConvertPayload gives to a packet.
ToCommand(from, to, command) ==
  IF from = to THEN command ELSE Get(CommandPairMap[from][to], command, 0)

\* Mutant: only the base protocol's names are looked up.
JSONCommands_BaseOnly(to, name) ==
  {IF to = Base THEN Get(BaseCommands, name, 0)
   ELSE Get(CommandPairMap[Base][to], Get(BaseCommands, name, 0), 0)}

\* The commands SendPacketJSON may give to a packet it makes.
JSONCommands(to, name) ==
  LET base == Get(BaseCommands, name, 0)
      found == {c \in DOMAIN CommandNameMap[to] : CommandNameMap[to][c] = name}
  IN  IF to = Base THEN {base}
      ELSE IF base # 0 THEN {Get(CommandPairMap[Base][to], base, 0)}
      ELSE IF found = {} THEN {0} ELSE found

-----------------------------------------------------------------------------
(* Properties.                                                             *)

\* The types of the variables.
TypeOK ==
  /\ tables \in [Protocols -> Table] /\ loaded \subseteq Protocols /\ failed \in BOOLEAN
  /\ loading \in [v : Protocols, n : 0..MaxLines, busy : BOOLEAN]
  /\ DOMAIN BaseCommands \subseteq Names \ {"DebugNotify"}
  /\ BaseCommands \in [DOMAIN BaseCommands -> Commands]
  /\ DOMAIN CommandNameMap = Protocols /\ DOMAIN CommandPairMap = Protocols
  /\ \A v \in Protocols :
       /\ DOMAIN CommandNameMap[v] \subseteq Commands
       /\ CommandNameMap[v] \in [DOMAIN CommandNameMap[v] -> Names \ {"DebugNotify"}]
       /\ DOMAIN CommandPairMap[v] = Protocols
       /\ \A w \in Protocols :
            /\ DOMAIN CommandPairMap[v][w] \subseteq Commands
            /\ CommandPairMap[v][w] \in [DOMAIN CommandPairMap[v][w] -> Commands]
  /\ MessageDescMap \in [Protocols -> SUBSET (Names \cup ArgumentNames)]

\* What ConvertPayload sends on goes out under a command that has the name by
\* which the body was translated, if there is a pair for the command it came
\* under; if there is none it goes out under 0, and that may well be another
\* name's command.
KeepsName ==
  \A from, to \in Protocols : \A c \in DOMAIN CommandNameMap[from] :
    LET sent == ToCommand(from, to, c)
    IN  \/ sent \in DOMAIN CommandNameMap[to] /\ CommandNameMap[to][sent] = CommandNameMap[from][c]
        \/ from # to /\ c \notin DOMAIN CommandPairMap[from][to] /\ sent = 0

\* Whatever has a command in the base protocol and in another one gets the
\* other's command of that name when it is translated, whichever came first
\* of the others.
CommandKnown ==
  loaded = Protocols =>
    \A v \in Others : \A p \in {<<v, Base>>, <<Base, v>>} :
      \A c \in DOMAIN CommandNameMap[p[1]] :
        LET name == CommandNameMap[p[1]][c]
        IN  name \in Named(v) \cap Named(Base) /\ BaseCommands[name] # 0
              => Get(CommandNameMap[p[2]], ToCommand(p[1], p[2], c), "") = name

\* What SendPacketJSON makes goes out under its own name, be it known to the
\* base protocol, to the other one only, or to both.
InjectedKnown ==
  loaded = Protocols =>
    \A v \in Protocols : \A name \in Named(v) : \A c \in JSONCommands(v, name) :
      Get(CommandNameMap[v], c, "") = name
=============================================================================
