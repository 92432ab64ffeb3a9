--------------------------- MODULE Mapper_proofs ---------------------------
(***************************************************************************)
(* Proofs about Mapper, for any protocols and any tables that have each    *)
(* name and each command once: what has a pair keeps its name, what both   *)
(* sides have is paired, and injected packets get their own command.       *)
(***************************************************************************)
EXTENDS Mapper, TLAPS

\* A map of the right shape for each protocol, or pair of protocols.
Shapes ==
  /\ tables \in [Protocols -> Table]
  /\ loading \in [v : Protocols, n : Nat, busy : BOOLEAN]
  /\ DOMAIN CommandNameMap = Protocols /\ DOMAIN CommandPairMap = Protocols
  /\ \A v \in Protocols : DOMAIN CommandPairMap[v] = Protocols

\* The command that BaseCommands has for a name has that name.
BaseNamed ==
  \A name \in DOMAIN BaseCommands :
    /\ BaseCommands[name] \in DOMAIN CommandNameMap[Base]
    /\ CommandNameMap[Base][BaseCommands[name]] = name

\* Commands come from the lines that have been read, so that the next line's
\* is a new one.
FromLines ==
  \A v \in Protocols : \A c \in DOMAIN CommandNameMap[v] :
    \/ v \in loaded
    \/ /\ loading.busy /\ loading.v = v
       /\ \E j \in 1..loading.n : j \in DOMAIN tables[v] /\ tables[v][j][2] = c

NotTwice == loading.busy => loading.v \notin loaded

\* The two commands of a pair have the same name.
PairsNamed ==
  \A v, w \in Protocols : \A c \in DOMAIN CommandPairMap[v][w] :
    /\ c \in DOMAIN CommandNameMap[v]
    /\ CommandPairMap[v][w][c] \in DOMAIN CommandNameMap[w]
    /\ CommandNameMap[v][c] = CommandNameMap[w][CommandPairMap[v][w][c]]

MInv == Shapes /\ BaseNamed /\ FromLines /\ NotTwice /\ PairsNamed

LEMMA Initially == Init => MInv
<1> SUFFICES ASSUME Init PROVE MInv
  OBVIOUS
<1>1. Base \in Protocols
  BY DEF Protocols
<1>2. Shapes
  BY <1>1 DEF Init, Shapes, Idle
<1>3. BaseNamed
  BY DEF Init, BaseNamed, None
<1>4. FromLines
  BY DEF Init, FromLines, None
<1>5. NotTwice
  BY DEF Init, NotTwice, Idle
<1>6. PairsNamed
  BY DEF Init, PairsNamed, None
<1> QED
  BY <1>2, <1>3, <1>4, <1>5, <1>6 DEF MInv

\* The maps of two consecutive states, as far as names and pairs go: the
\* names that were known are still known, and each pair is old or joins two
\* commands of the same name.
LEMMA PairsStep ==
  ASSUME PairsNamed,
         \A v \in Protocols : \A c \in DOMAIN CommandNameMap[v] :
           c \in DOMAIN CommandNameMap'[v] /\ CommandNameMap'[v][c] = CommandNameMap[v][c],
         \A v, w \in Protocols : \A c \in DOMAIN CommandPairMap'[v][w] :
           \/ /\ c \in DOMAIN CommandPairMap[v][w]
              /\ CommandPairMap'[v][w][c] = CommandPairMap[v][w][c]
           \/ /\ c \in DOMAIN CommandNameMap'[v]
              /\ CommandPairMap'[v][w][c] \in DOMAIN CommandNameMap'[w]
              /\ CommandNameMap'[v][c] = CommandNameMap'[w][CommandPairMap'[v][w][c]]
  PROVE  PairsNamed'
<1> SUFFICES ASSUME NEW v \in Protocols, NEW w \in Protocols,
                    NEW c \in DOMAIN CommandPairMap'[v][w]
             PROVE  /\ c \in DOMAIN CommandNameMap'[v]
                    /\ CommandPairMap'[v][w][c] \in DOMAIN CommandNameMap'[w]
                    /\ CommandNameMap'[v][c] = CommandNameMap'[w][CommandPairMap'[v][w][c]]
  BY DEF PairsNamed
<1>1. CASE c \in DOMAIN CommandPairMap[v][w] /\ CommandPairMap'[v][w][c] = CommandPairMap[v][w][c]
  <2>1. /\ c \in DOMAIN CommandNameMap[v]
        /\ CommandPairMap[v][w][c] \in DOMAIN CommandNameMap[w]
        /\ CommandNameMap[v][c] = CommandNameMap[w][CommandPairMap[v][w][c]]
    BY <1>1 DEF PairsNamed
  <2> QED
    BY <1>1, <2>1
<1> QED
  BY <1>1

\* The command of the next line is not in the map yet.
LEMMA NextIsNew ==
  ASSUME MInv, loading.busy, loading.n < Len(tables[loading.v])
  PROVE  /\ loading.v \in Protocols /\ loading.n + 1 \in DOMAIN tables[loading.v]
         /\ tables[loading.v][loading.n + 1][2] \notin DOMAIN CommandNameMap[loading.v]
<1> DEFINE v == loading.v
           s == tables[v]
           n == loading.n
<1>1. v \in Protocols /\ n \in Nat /\ s \in Table
  BY DEF MInv, Shapes
<1>2. PICK k \in 0..MaxLines : s \in [1..k -> Names \X Commands]
  BY <1>1 DEF Table
<1>3. k \in Nat /\ DOMAIN s = 1..k /\ Len(s) = k
  BY <1>2, MapperConstants
<1>4. n + 1 \in DOMAIN s
  BY <1>1, <1>3
<1>5. \A i, j \in DOMAIN s : i # j => s[i][2] # s[j][2]
  BY <1>1 DEF Table
<1>6. ASSUME s[n + 1][2] \in DOMAIN CommandNameMap[v]
      PROVE  FALSE
  <2>1. v \notin loaded
    BY DEF MInv, NotTwice
  <2>2. PICK j \in 1..n : j \in DOMAIN s /\ s[j][2] = s[n + 1][2]
    BY <1>1, <1>6, <2>1 DEF MInv, FromLines
  <2>3. j # n + 1
    BY <1>1
  <2> QED
    BY <1>4, <1>5, <2>2, <2>3
<1> QED
  BY <1>1, <1>4, <1>6

LEMMA LoadLineStep ==
  ASSUME MInv, LoadLine
  PROVE  MInv'
<1> DEFINE v == loading.v
           line == tables[v][loading.n + 1]
           name == line[1]
           c == line[2]
<1>1. v \in Protocols /\ c \notin DOMAIN CommandNameMap[v]
  BY NextIsNew DEF LoadLine
<1>2. /\ tables' = tables /\ loaded' = loaded /\ loading.busy /\ loading.n \in Nat
      /\ loading.n + 1 \in DOMAIN tables[v]
  BY NextIsNew DEF LoadLine, MInv, Shapes
<1>3. /\ loading' \in [v : Protocols, n : Nat, busy : BOOLEAN]
      /\ loading'.v = v /\ loading'.busy /\ loading'.n = loading.n + 1
  BY <1>1, <1>2 DEF LoadLine, MInv, Shapes
<1>4. NotTwice'
  BY <1>2, <1>3 DEF MInv, NotTwice
<1>a. \A x \in Protocols : \A d \in DOMAIN CommandNameMap[x] :
        \/ x \in loaded
        \/ x = v /\ \E j \in 1..(loading.n + 1) : j \in DOMAIN tables[x] /\ tables[x][j][2] = d
  BY <1>2 DEF MInv, FromLines
<1>5. CASE Skipped(name)
  <2>1. UNCHANGED maps
    BY <1>5 DEF LoadLine
  <2>2. Shapes'
    BY <1>2, <1>3, <2>1 DEF MInv, Shapes, maps
  <2>3. BaseNamed' /\ PairsNamed'
    BY <2>1 DEF MInv, BaseNamed, PairsNamed, maps
  <2>4. FromLines'
    <3>1. CommandNameMap' = CommandNameMap
      BY <2>1 DEF maps
    <3> SUFFICES ASSUME NEW x \in Protocols, NEW d \in DOMAIN CommandNameMap[x], x \notin loaded
                 PROVE  /\ x = v
                        /\ \E j \in 1..(loading.n + 1) :
                             j \in DOMAIN tables[x] /\ tables[x][j][2] = d
      BY <1>2, <1>3, <3>1 DEF FromLines
    <3> QED
      BY <1>a
  <2> QED
    BY <1>4, <2>2, <2>3, <2>4 DEF MInv
<1>6. CASE ~Skipped(name)
  <2>1. parseCommandDesc(v, name, c)
    BY <1>6 DEF LoadLine
  <2>2. /\ DOMAIN CommandNameMap' = Protocols
        /\ CommandNameMap'[v] = With(CommandNameMap[v], c, name)
        /\ \A x \in Protocols : x # v => CommandNameMap'[x] = CommandNameMap[x]
    <3>1. CommandNameMap' = [CommandNameMap EXCEPT ![v] = With(@, c, name)]
      BY <2>1 DEF parseCommandDesc
    <3>2. DOMAIN CommandNameMap = Protocols
      BY DEF MInv, Shapes
    <3> QED
      BY <1>1, <3>1, <3>2
  <2>3. /\ DOMAIN CommandNameMap'[v] = DOMAIN CommandNameMap[v] \cup {c}
        /\ CommandNameMap'[v][c] = name
        /\ \A d \in DOMAIN CommandNameMap[v] : CommandNameMap'[v][d] = CommandNameMap[v][d]
    BY <1>1, <2>2 DEF With
  <2>4. \A x \in Protocols : \A d \in DOMAIN CommandNameMap[x] :
          d \in DOMAIN CommandNameMap'[x] /\ CommandNameMap'[x][d] = CommandNameMap[x][d]
    BY <2>2, <2>3, Zenon
  <2>5. FromLines'
    <3> SUFFICES ASSUME NEW x \in Protocols, NEW d \in DOMAIN CommandNameMap'[x], x \notin loaded
                 PROVE  /\ x = v
                        /\ \E j \in 1..(loading.n + 1) :
                             j \in DOMAIN tables[x] /\ tables[x][j][2] = d
      BY <1>2, <1>3 DEF FromLines
    <3>1. CASE d \in DOMAIN CommandNameMap[x]
      BY <1>a, <3>1, Zenon
    <3>2. CASE d \notin DOMAIN CommandNameMap[x]
      <4>1. x = v /\ d = c
        BY <2>2, <2>3, <3>2
      <4>2. loading.n + 1 \in 1..(loading.n + 1)
        BY <1>2
      <4> QED
        BY <1>2, <4>1, <4>2
    <3> QED
      BY <3>1, <3>2
  <2>6. CASE v = Base
    <3>1. BaseCommands' = With(BaseCommands, name, c) /\ CommandPairMap' = CommandPairMap
      BY <2>1, <2>6 DEF parseCommandDesc
    <3>2. Shapes'
      BY <1>2, <1>3, <2>2, <3>1 DEF MInv, Shapes
    <3>3. BaseNamed'
      <4> SUFFICES ASSUME NEW m \in DOMAIN BaseCommands'
                   PROVE  /\ BaseCommands'[m] \in DOMAIN CommandNameMap'[Base]
                          /\ CommandNameMap'[Base][BaseCommands'[m]] = m
        BY DEF BaseNamed
      <4>1. CASE m = name
        BY <2>3, <2>6, <3>1, <4>1 DEF With
      <4>2. CASE m # name
        <5>1. m \in DOMAIN BaseCommands /\ BaseCommands'[m] = BaseCommands[m]
          <6>1. m \in DOMAIN BaseCommands
            BY <3>1, <4>2 DEF With
          <6> QED
            BY <3>1, <4>2, <6>1 DEF With
        <5> QED
          BY <2>3, <2>6, <5>1 DEF MInv, BaseNamed
      <4> QED
        BY <4>1, <4>2
    <3>4. PairsNamed'
      BY <2>4, <3>1, PairsStep DEF MInv
    <3> QED
      BY <1>4, <2>5, <3>2, <3>3, <3>4 DEF MInv
  <2>7. CASE v # Base
    <3>1. BaseCommands' = BaseCommands /\ Base \in Protocols
      BY <2>1, <2>7 DEF parseCommandDesc, Protocols
    <3>2. BaseNamed'
      BY <2>2, <2>7, <3>1 DEF MInv, BaseNamed
    <3>3. CASE ~(name \in DOMAIN BaseCommands /\ BaseCommands[name] # 0)
      <4>1. CommandPairMap' = CommandPairMap
        BY <2>1, <2>7, <3>3 DEF parseCommandDesc
      <4>2. Shapes'
        BY <1>2, <1>3, <2>2, <4>1 DEF MInv, Shapes
      <4>3. PairsNamed'
        BY <2>4, <4>1, PairsStep DEF MInv
      <4> QED
        BY <1>4, <2>5, <3>2, <4>2, <4>3 DEF MInv
    <3>4. CASE name \in DOMAIN BaseCommands /\ BaseCommands[name] # 0
      <4> DEFINE b == BaseCommands[name]
                 pairs == CommandPairMap
      <4>1. CommandPairMap' = Paired(pairs, v, b, c)
        BY <2>1, <2>7, <3>4 DEF parseCommandDesc
      <4>2. /\ DOMAIN pairs = Protocols
            /\ \A x \in Protocols : DOMAIN pairs[x] = Protocols
        BY DEF MInv, Shapes
      <4>3. /\ DOMAIN CommandPairMap' = Protocols
            /\ \A x \in Protocols : DOMAIN CommandPairMap'[x] = Protocols
            /\ CommandPairMap'[v][Base] = With(pairs[v][Base], c, b)
            /\ CommandPairMap'[Base][v] = With(pairs[Base][v], b, c)
            /\ \A x, y \in Protocols :
                 ~(x = v /\ y = Base) /\ ~(x = Base /\ y = v)
                   => CommandPairMap'[x][y] = pairs[x][y]
        <5>1. /\ DOMAIN CommandPairMap' = Protocols
              /\ \A x \in Protocols : DOMAIN CommandPairMap'[x] = Protocols
          BY <4>1, <4>2 DEF Paired
        <5>2. CommandPairMap'[v][Base] = With(pairs[v][Base], c, b)
          BY <1>1, <2>7, <3>1, <4>1, <4>2 DEF Paired
        <5>3. CommandPairMap'[Base][v] = With(pairs[Base][v], b, c)
          BY <1>1, <2>7, <3>1, <4>1, <4>2 DEF Paired
        <5>4. \A x, y \in Protocols :
                ~(x = v /\ y = Base) /\ ~(x = Base /\ y = v)
                  => CommandPairMap'[x][y] = pairs[x][y]
          BY <4>1, <4>2 DEF Paired
        <5> QED
          BY <5>1, <5>2, <5>3, <5>4
      <4>4. Shapes'
        BY <1>2, <1>3, <2>2, <4>3 DEF MInv, Shapes
      <4>5. b \in DOMAIN CommandNameMap'[Base] /\ CommandNameMap'[Base][b] = name
        BY <3>1, <3>2, <3>4 DEF BaseNamed
      <4>6. ASSUME NEW x \in Protocols, NEW y \in Protocols, NEW d \in DOMAIN CommandPairMap'[x][y]
            PROVE  \/ d \in DOMAIN pairs[x][y] /\ CommandPairMap'[x][y][d] = pairs[x][y][d]
                   \/ /\ d \in DOMAIN CommandNameMap'[x]
                      /\ CommandPairMap'[x][y][d] \in DOMAIN CommandNameMap'[y]
                      /\ CommandNameMap'[x][d] = CommandNameMap'[y][CommandPairMap'[x][y][d]]
        <5>1. CASE x = v /\ y = Base
          <6>1. CommandPairMap'[x][y] = With(pairs[v][Base], c, b)
            BY <4>3, <5>1
          <6>2. CASE d = c
            BY <2>3, <4>5, <5>1, <6>1, <6>2 DEF With
          <6>3. CASE d # c
            BY <5>1, <6>1, <6>3 DEF With
          <6> QED
            BY <6>2, <6>3
        <5>2. CASE x = Base /\ y = v
          <6>1. CommandPairMap'[x][y] = With(pairs[Base][v], b, c)
            BY <4>3, <5>2
          <6>2. CASE d = b
            BY <2>3, <4>5, <5>2, <6>1, <6>2 DEF With
          <6>3. CASE d # b
            BY <5>2, <6>1, <6>3 DEF With
          <6> QED
            BY <6>2, <6>3
        <5>3. CASE ~(x = v /\ y = Base) /\ ~(x = Base /\ y = v)
          <6>1. CommandPairMap'[x][y] = pairs[x][y]
            BY <4>3, <5>3
          <6> QED
            BY <6>1
        <5> QED
          BY <5>1, <5>2, <5>3
      <4>7. PairsNamed'
        BY <2>4, <4>6, PairsStep DEF MInv
      <4> QED
        BY <1>4, <2>5, <3>2, <4>4, <4>7 DEF MInv
    <3> QED
      BY <3>3, <3>4
  <2> QED
    BY <2>6, <2>7
<1> QED
  BY <1>5, <1>6

\* The steps that leave the maps alone.
LEMMA OtherSteps ==
  ASSUME MInv,
         (\E v \in Protocols : Load(v) \/ LoadFails(v)) \/ LoadReturn \/ UNCHANGED vars
  PROVE  MInv'
<1>1. BaseNamed' /\ PairsNamed'
  BY DEF MInv, BaseNamed, PairsNamed, Load, LoadFails, LoadReturn, vars, maps
<1>2. ASSUME NEW v \in Protocols, Load(v)
      PROVE  Shapes' /\ FromLines' /\ NotTwice'
  <2>1. /\ ~loading.busy /\ loading'.v = v /\ loading'.busy /\ v \notin loaded
        /\ loading' \in [v : Protocols, n : Nat, busy : BOOLEAN]
        /\ loaded' = loaded /\ tables' = tables /\ UNCHANGED maps
    BY <1>2 DEF Load, MayLoad
  <2> QED
    BY <2>1 DEF MInv, Shapes, FromLines, NotTwice, maps
<1>3. ASSUME LoadReturn
      PROVE  Shapes' /\ FromLines' /\ NotTwice'
  <2>1. /\ loaded' = loaded \cup {loading.v} /\ ~loading'.busy
        /\ loading' \in [v : Protocols, n : Nat, busy : BOOLEAN]
        /\ tables' = tables /\ UNCHANGED <<CommandNameMap, CommandPairMap>>
    BY <1>3 DEF LoadReturn, Idle, Protocols
  <2> QED
    BY <2>1 DEF MInv, Shapes, FromLines, NotTwice
<1>4. ASSUME (\E v \in Protocols : LoadFails(v)) \/ UNCHANGED vars
      PROVE  Shapes' /\ FromLines' /\ NotTwice'
  BY <1>4 DEF MInv, Shapes, FromLines, NotTwice, LoadFails, vars, maps
<1> QED
  BY <1>1, <1>2, <1>3, <1>4 DEF MInv

LEMMA Inductive == MInv /\ [Next]_vars => MInv'
BY LoadLineStep, OtherSteps DEF Next

LEMMA PairsNamedHolds == Spec => []PairsNamed
<1>1. Init => MInv
  BY Initially
<1>2. MInv /\ [Next]_vars => MInv'
  BY Inductive
<1>3. MInv => PairsNamed
  BY DEF MInv
<1> QED
  BY <1>1, <1>2, <1>3, PTL DEF Spec

\* ConvertPayload takes the command from CommandPairMap, ConvertPacket the name
\* from CommandNameMap: while the tables are loaded and after, a command that
\* has a pair is sent on under one of its name, and one that has none under 0,
\* whatever that is to the other side.  It needs that no table has a command
\* or a name twice, which nothing in the code sees to.
THEOREM KeepsNameHolds == Spec => []KeepsName
<1>1. PairsNamed => KeepsName
  <2> SUFFICES ASSUME PairsNamed, NEW from \in Protocols, NEW to \in Protocols,
                      NEW c \in DOMAIN CommandNameMap[from]
               PROVE  LET sent == ToCommand(from, to, c)
                      IN  \/ /\ sent \in DOMAIN CommandNameMap[to]
                             /\ CommandNameMap[to][sent] = CommandNameMap[from][c]
                          \/ from # to /\ c \notin DOMAIN CommandPairMap[from][to] /\ sent = 0
    BY DEF KeepsName
  <2>1. CASE from = to
    BY <2>1 DEF ToCommand
  <2>2. CASE from # to /\ c \in DOMAIN CommandPairMap[from][to]
    BY <2>2 DEF ToCommand, Get, PairsNamed
  <2>3. CASE from # to /\ c \notin DOMAIN CommandPairMap[from][to]
    BY <2>3 DEF ToCommand, Get
  <2> QED
    BY <2>1, <2>2, <2>3
<1> QED
  BY <1>1, PairsNamedHolds, PTL

-----------------------------------------------------------------------------
(* What both sides have a command for is translated to it.                 *)

\* Until the base protocol is loaded, no other one is begun.
BaseFirst == Base \notin loaded => loaded = {} /\ (loading.busy => loading.v = Base)

\* Names come from the lines that have been read.
NamesFromLines ==
  \A v \in Protocols : \A c \in DOMAIN CommandNameMap[v] :
    \/ v \in loaded
    \/ /\ loading.busy /\ loading.v = v
       /\ \E j \in 1..loading.n :
            j \in DOMAIN tables[v] /\ tables[v][j][1] = CommandNameMap[v][c]

\* BaseCommands is the inverse of the base protocol's names.
BaseListed ==
  \A c \in DOMAIN CommandNameMap[Base] :
    /\ CommandNameMap[Base][c] \in DOMAIN BaseCommands
    /\ BaseCommands[CommandNameMap[Base][c]] = c

\* The command c of v and b of the base protocol are a pair, in both maps.
ArePair(v, c, b) ==
  /\ c \in DOMAIN CommandPairMap[v][Base] /\ CommandPairMap[v][Base][c] = b
  /\ b \in DOMAIN CommandPairMap[Base][v] /\ CommandPairMap[Base][v][b] = c

PairsMade ==
  \A v \in Others : \A c \in DOMAIN CommandNameMap[v] :
    LET name == CommandNameMap[v][c]
    IN  name \in DOMAIN BaseCommands /\ BaseCommands[name] # 0
          => ArePair(v, c, BaseCommands[name])

KInv == MInv /\ BaseFirst /\ NamesFromLines /\ BaseListed /\ PairsMade

LEMMA KnownInitially == Init => KInv
<1> SUFFICES ASSUME Init PROVE KInv
  OBVIOUS
<1>1. MInv
  BY Initially
<1>2. BaseFirst
  BY DEF Init, BaseFirst, Idle
<1>3. Base \in Protocols /\ Others \subseteq Protocols
  BY DEF Protocols
<1>4. NamesFromLines /\ BaseListed /\ PairsMade
  BY <1>3 DEF Init, NamesFromLines, BaseListed, PairsMade, None
<1> QED
  BY <1>1, <1>2, <1>4 DEF KInv

\* The name of the next line is not in the map yet.
LEMMA NameIsNew ==
  ASSUME KInv, loading.busy, loading.n < Len(tables[loading.v])
  PROVE  \A d \in DOMAIN CommandNameMap[loading.v] :
           CommandNameMap[loading.v][d] # tables[loading.v][loading.n + 1][1]
<1> DEFINE v == loading.v
           s == tables[v]
           n == loading.n
<1>1. v \in Protocols /\ n \in Nat /\ s \in Table /\ n + 1 \in DOMAIN s
  BY NextIsNew DEF KInv, MInv, Shapes
<1>2. \A i, j \in DOMAIN s : i # j => s[i][1] # s[j][1]
  BY <1>1 DEF Table
<1>3. ASSUME NEW d \in DOMAIN CommandNameMap[v], CommandNameMap[v][d] = s[n + 1][1]
      PROVE  FALSE
  <2>1. v \notin loaded
    BY DEF KInv, MInv, NotTwice
  <2>2. PICK j \in 1..n : j \in DOMAIN s /\ s[j][1] = s[n + 1][1]
    BY <1>1, <1>3, <2>1 DEF KInv, NamesFromLines
  <2>3. j # n + 1
    BY <1>1
  <2> QED
    BY <1>1, <1>2, <2>2, <2>3
<1> QED
  BY <1>3

\* What a line adds to the names of its protocol.
LEMMA LineNamed ==
  ASSUME KInv, LoadLine, ~Skipped(tables[loading.v][loading.n + 1][1])
  PROVE  LET v == loading.v
             name == tables[v][loading.n + 1][1]
             c == tables[v][loading.n + 1][2]
         IN  /\ v \in Protocols /\ parseCommandDesc(v, name, c)
             /\ tables' = tables /\ loaded' = loaded
             /\ loading.busy /\ loading.n \in Nat /\ loading.n + 1 \in DOMAIN tables[v]
             /\ loading'.busy /\ loading'.v = v /\ loading'.n = loading.n + 1
             /\ c \notin DOMAIN CommandNameMap[v]
             /\ \A d \in DOMAIN CommandNameMap[v] : CommandNameMap[v][d] # name
             /\ \A x \in Protocols : x # v => CommandNameMap'[x] = CommandNameMap[x]
             /\ DOMAIN CommandNameMap'[v] = DOMAIN CommandNameMap[v] \cup {c}
             /\ CommandNameMap'[v][c] = name
             /\ \A d \in DOMAIN CommandNameMap[v] : CommandNameMap'[v][d] = CommandNameMap[v][d]
<1> DEFINE v == loading.v
           name == tables[v][loading.n + 1][1]
           c == tables[v][loading.n + 1][2]
<1>1. v \in Protocols /\ loading.n + 1 \in DOMAIN tables[v] /\ c \notin DOMAIN CommandNameMap[v]
  BY NextIsNew DEF LoadLine, KInv
<1>2. \A d \in DOMAIN CommandNameMap[v] : CommandNameMap[v][d] # name
  BY NameIsNew DEF LoadLine
<1>3. parseCommandDesc(v, name, c) /\ tables' = tables /\ loaded' = loaded /\ loading.busy
  BY DEF LoadLine
<1>4. /\ loading.n \in Nat
      /\ loading'.busy /\ loading'.v = v /\ loading'.n = loading.n + 1
  BY DEF LoadLine, KInv, MInv, Shapes
<1>5. CommandNameMap' = [CommandNameMap EXCEPT ![v] = With(@, c, name)]
  BY <1>3 DEF parseCommandDesc
<1>6. DOMAIN CommandNameMap = Protocols
  BY DEF KInv, MInv, Shapes
<1>7. /\ CommandNameMap'[v] = With(CommandNameMap[v], c, name)
      /\ \A x \in Protocols : x # v => CommandNameMap'[x] = CommandNameMap[x]
  BY <1>1, <1>5, <1>6
<1>8. /\ DOMAIN CommandNameMap'[v] = DOMAIN CommandNameMap[v] \cup {c}
      /\ CommandNameMap'[v][c] = name
      /\ \A d \in DOMAIN CommandNameMap[v] : CommandNameMap'[v][d] = CommandNameMap[v][d]
  BY <1>1, <1>7 DEF With
<1> QED
  BY <1>1, <1>2, <1>3, <1>4, <1>7, <1>8

\* A line of the base protocol: the others have no names yet.
LEMMA BaseLine ==
  ASSUME KInv, LoadLine, ~Skipped(tables[loading.v][loading.n + 1][1]), loading.v = Base
  PROVE  BaseListed' /\ PairsMade'
<1> DEFINE name == tables[Base][loading.n + 1][1]
           c == tables[Base][loading.n + 1][2]
<1>1. BaseCommands' = With(BaseCommands, name, c)
  BY LineNamed DEF parseCommandDesc
<1>2. /\ DOMAIN CommandNameMap'[Base] = DOMAIN CommandNameMap[Base] \cup {c}
      /\ CommandNameMap'[Base][c] = name
      /\ \A d \in DOMAIN CommandNameMap[Base] : CommandNameMap'[Base][d] = CommandNameMap[Base][d]
      /\ \A d \in DOMAIN CommandNameMap[Base] : CommandNameMap[Base][d] # name
  BY LineNamed
<1>3. BaseListed'
  <2> SUFFICES ASSUME NEW d \in DOMAIN CommandNameMap'[Base]
               PROVE  /\ CommandNameMap'[Base][d] \in DOMAIN BaseCommands'
                      /\ BaseCommands'[CommandNameMap'[Base][d]] = d
    BY DEF BaseListed
  <2>1. CASE d \in DOMAIN CommandNameMap[Base]
    <3>1. /\ CommandNameMap'[Base][d] = CommandNameMap[Base][d]
          /\ CommandNameMap[Base][d] # name
          /\ CommandNameMap[Base][d] \in DOMAIN BaseCommands
          /\ BaseCommands[CommandNameMap[Base][d]] = d
      BY <1>2, <2>1 DEF KInv, BaseListed
    <3> QED
      BY <1>1, <3>1 DEF With
  <2>2. CASE d \notin DOMAIN CommandNameMap[Base]
    <3>1. d = c /\ CommandNameMap'[Base][d] = name
      BY <1>2, <2>2
    <3> QED
      BY <1>1, <3>1 DEF With
  <2> QED
    BY <2>1, <2>2
<1>4. ASSUME NEW v \in Others
      PROVE  DOMAIN CommandNameMap'[v] = {}
  <2>1. v \in Protocols /\ v # Base
    BY MapperConstants DEF Protocols
  <2>2. loaded = {}
    BY LineNamed DEF KInv, BaseFirst, MInv, NotTwice
  <2>3. DOMAIN CommandNameMap[v] = {}
    BY <2>1, <2>2 DEF KInv, NamesFromLines
  <2> QED
    BY <2>1, <2>3, LineNamed
<1> QED
  BY <1>3, <1>4 DEF PairsMade

\* A line of another protocol: its pair is new in both maps, and the other
\* pairs are kept.
LEMMA OtherLine ==
  ASSUME KInv, LoadLine, ~Skipped(tables[loading.v][loading.n + 1][1]), loading.v # Base
  PROVE  BaseListed' /\ PairsMade'
<1> DEFINE v == loading.v
           name == tables[v][loading.n + 1][1]
           c == tables[v][loading.n + 1][2]
           b == BaseCommands[name]
           pairs == CommandPairMap
           Joined(x, d, e) ==
             /\ d \in DOMAIN CommandPairMap'[x][Base] /\ CommandPairMap'[x][Base][d] = e
             /\ e \in DOMAIN CommandPairMap'[Base][x] /\ CommandPairMap'[Base][x][e] = d
<1>1. v \in Protocols /\ Base \in Protocols /\ v # Base /\ v \in Others
  BY LineNamed DEF Protocols
<1>2. BaseCommands' = BaseCommands /\ CommandNameMap'[Base] = CommandNameMap[Base]
  BY <1>1, LineNamed DEF parseCommandDesc
<1>3. BaseListed'
  BY <1>2 DEF KInv, BaseListed
<1>4. /\ DOMAIN pairs = Protocols
      /\ \A x \in Protocols : DOMAIN pairs[x] = Protocols
  BY DEF KInv, MInv, Shapes
<1>5. CommandPairMap' = IF name \in DOMAIN BaseCommands /\ b # 0
                        THEN Paired(pairs, v, b, c) ELSE pairs
  BY <1>1, LineNamed DEF parseCommandDesc
<1>6. ASSUME NEW x \in Others, NEW d \in DOMAIN CommandNameMap'[x],
             CommandNameMap'[x][d] \in DOMAIN BaseCommands',
             BaseCommands'[CommandNameMap'[x][d]] # 0
      PROVE  Joined(x, d, BaseCommands[CommandNameMap'[x][d]])
  <2> DEFINE m == CommandNameMap'[x][d]
             e == BaseCommands[m]
  <2>1. x \in Protocols /\ x # Base /\ m \in DOMAIN BaseCommands /\ e # 0
    BY <1>2, <1>6, MapperConstants DEF Protocols
  <2>2. CASE x # v
    <3>1. CommandNameMap'[x] = CommandNameMap[x]
      BY <2>1, <2>2, LineNamed
    <3>2. ArePair(x, d, e)
      BY <1>6, <2>1, <3>1 DEF KInv, PairsMade
    <3>3. CommandPairMap'[x][Base] = pairs[x][Base] /\ CommandPairMap'[Base][x] = pairs[Base][x]
      BY <1>1, <1>4, <1>5, <2>1, <2>2 DEF Paired
    <3> QED
      BY <3>2, <3>3 DEF ArePair
  <2>3. CASE x = v /\ d \in DOMAIN CommandNameMap[v]
    <3>1. m = CommandNameMap[v][d] /\ m # name
      BY <2>3, LineNamed
    <3>2. ArePair(v, d, e)
      BY <1>1, <2>1, <2>3, <3>1 DEF KInv, PairsMade
    <3>3. CASE ~(name \in DOMAIN BaseCommands /\ b # 0)
      BY <1>5, <2>3, <3>2, <3>3 DEF ArePair
    <3>4. CASE name \in DOMAIN BaseCommands /\ b # 0
      <4>1. b # e /\ c # d
        <5>1. CommandNameMap[Base][e] = m /\ CommandNameMap[Base][b] = name
          BY <2>1, <3>4 DEF KInv, MInv, BaseNamed
        <5>2. c \notin DOMAIN CommandNameMap[v]
          BY LineNamed
        <5> QED
          BY <2>3, <3>1, <5>1, <5>2
      <4>2. /\ CommandPairMap'[v][Base] = With(pairs[v][Base], c, b)
            /\ CommandPairMap'[Base][v] = With(pairs[Base][v], b, c)
        BY <1>1, <1>4, <1>5, <3>4 DEF Paired
      <4>3. d \in DOMAIN CommandPairMap'[v][Base] /\ CommandPairMap'[v][Base][d] = e
        BY <3>2, <4>1, <4>2 DEF ArePair, With
      <4>4. e \in DOMAIN CommandPairMap'[Base][v] /\ CommandPairMap'[Base][v][e] = d
        BY <3>2, <4>1, <4>2 DEF ArePair, With
      <4> QED
        BY <2>3, <4>3, <4>4
    <3> QED
      BY <3>3, <3>4
  <2>4. CASE x = v /\ d \notin DOMAIN CommandNameMap[v]
    <3>1. d = c /\ m = name /\ e = b
      BY <2>4, LineNamed
    <3>2. /\ CommandPairMap'[v][Base] = With(pairs[v][Base], c, b)
          /\ CommandPairMap'[Base][v] = With(pairs[Base][v], b, c)
      BY <1>1, <1>4, <1>5, <2>1, <3>1 DEF Paired
    <3>3. c \in DOMAIN CommandPairMap'[v][Base] /\ CommandPairMap'[v][Base][c] = b
      BY <3>2 DEF With
    <3>4. b \in DOMAIN CommandPairMap'[Base][v] /\ CommandPairMap'[Base][v][b] = c
      BY <3>2 DEF With
    <3> QED
      BY <2>4, <3>1, <3>3, <3>4
  <2> QED
    BY <2>2, <2>3, <2>4
<1>7. PairsMade'
  BY <1>2, <1>6 DEF PairsMade, ArePair
<1> QED
  BY <1>3, <1>7

LEMMA KnownLine ==
  ASSUME KInv, LoadLine
  PROVE  KInv'
<1>1. MInv'
  BY LoadLineStep DEF KInv
<1>2. /\ loaded' = loaded /\ tables' = tables /\ loading.busy /\ loading.n \in Nat
      /\ loading'.busy /\ loading'.v = loading.v /\ loading'.n = loading.n + 1
  BY DEF LoadLine, KInv, MInv, Shapes
<1>3. BaseFirst'
  BY <1>2 DEF KInv, BaseFirst
<1>4. CASE Skipped(tables[loading.v][loading.n + 1][1])
  <2>1. UNCHANGED maps
    BY <1>4 DEF LoadLine
  <2>2. NamesFromLines'
    BY <1>2, <2>1 DEF KInv, NamesFromLines, maps
  <2>3. BaseListed' /\ PairsMade'
    BY <2>1 DEF KInv, BaseListed, PairsMade, ArePair, maps
  <2> QED
    BY <1>1, <1>3, <2>2, <2>3 DEF KInv
<1>5. CASE ~Skipped(tables[loading.v][loading.n + 1][1])
  <2>1. NamesFromLines'
    <3> SUFFICES ASSUME NEW x \in Protocols, NEW d \in DOMAIN CommandNameMap'[x], x \notin loaded
                 PROVE  /\ x = loading.v
                        /\ \E j \in 1..(loading.n + 1) :
                             j \in DOMAIN tables[x] /\ tables[x][j][1] = CommandNameMap'[x][d]
      BY <1>2 DEF NamesFromLines
    <3>1. CASE x = loading.v /\ d \notin DOMAIN CommandNameMap[x]
      <4>1. /\ CommandNameMap'[x][d] = tables[x][loading.n + 1][1]
            /\ loading.n + 1 \in DOMAIN tables[x]
        BY <1>5, <3>1, LineNamed
      <4>2. loading.n + 1 \in 1..(loading.n + 1)
        BY <1>2
      <4> QED
        BY <3>1, <4>1, <4>2
    <3>2. CASE ~(x = loading.v /\ d \notin DOMAIN CommandNameMap[x])
      <4>1. d \in DOMAIN CommandNameMap[x] /\ CommandNameMap'[x][d] = CommandNameMap[x][d]
        BY <1>5, <3>2, LineNamed
      <4>2. /\ x = loading.v
            /\ \E j \in 1..loading.n :
                 j \in DOMAIN tables[x] /\ tables[x][j][1] = CommandNameMap[x][d]
        BY <4>1 DEF KInv, NamesFromLines
      <4> QED
        BY <1>2, <4>1, <4>2
    <3> QED
      BY <3>1, <3>2
  <2>2. BaseListed' /\ PairsMade'
    BY <1>5, BaseLine, OtherLine
  <2> QED
    BY <1>1, <1>3, <2>1, <2>2 DEF KInv
<1> QED
  BY <1>4, <1>5

LEMMA KnownInductive == KInv /\ [Next]_vars => KInv'
<1> SUFFICES ASSUME KInv, [Next]_vars PROVE KInv'
  OBVIOUS
<1>1. MInv'
  BY Inductive DEF KInv
<1>2. CASE LoadLine
  BY <1>2, KnownLine
<1>3. ASSUME UNCHANGED <<BaseCommands, CommandNameMap, CommandPairMap, tables>>
      PROVE  BaseListed' /\ PairsMade'
  BY <1>3 DEF KInv, BaseListed, PairsMade, ArePair
<1>4. ASSUME NEW v \in Protocols, Load(v)
      PROVE  KInv'
  <2>1. BaseListed' /\ PairsMade'
    BY <1>3, <1>4 DEF Load, maps
  <2>2. BaseFirst' /\ NamesFromLines'
    BY <1>4 DEF KInv, BaseFirst, NamesFromLines, Load, MayLoad, maps
  <2> QED
    BY <1>1, <2>1, <2>2 DEF KInv
<1>5. CASE LoadReturn
  <2>1. BaseListed' /\ PairsMade'
    BY <1>3, <1>5 DEF LoadReturn
  <2>2. BaseFirst'
    BY <1>5 DEF KInv, BaseFirst, LoadReturn, Idle
  <2>3. NamesFromLines'
    BY <1>5 DEF KInv, NamesFromLines, LoadReturn
  <2> QED
    BY <1>1, <2>1, <2>2, <2>3 DEF KInv
<1>6. CASE (\E v \in Protocols : LoadFails(v)) \/ UNCHANGED vars
  <2>1. BaseListed' /\ PairsMade'
    BY <1>3, <1>6 DEF LoadFails, vars, maps
  <2>2. BaseFirst' /\ NamesFromLines'
    BY <1>6 DEF KInv, BaseFirst, NamesFromLines, LoadFails, vars, maps
  <2> QED
    BY <1>1, <2>1, <2>2 DEF KInv
<1> QED
  BY <1>2, <1>4, <1>5, <1>6 DEF Next

LEMMA KnownAlways == Spec => []KInv
BY KnownInitially, KnownInductive, PTL DEF Spec

\* Whatever has a command in the base protocol and in another one gets the
\* other's command of that name when ConvertPayload translates it.
THEOREM CommandKnownHolds == Spec => []CommandKnown
<1>1. ASSUME KInv
      PROVE  CommandKnown
  <2> SUFFICES ASSUME NEW v \in Others, NEW p \in {<<v, Base>>, <<Base, v>>},
                      NEW c \in DOMAIN CommandNameMap[p[1]],
                      CommandNameMap[p[1]][c] \in Named(v) \cap Named(Base),
                      BaseCommands[CommandNameMap[p[1]][c]] # 0
               PROVE  Get(CommandNameMap[p[2]], ToCommand(p[1], p[2], c), "")
                        = CommandNameMap[p[1]][c]
    BY DEF CommandKnown
  <2> DEFINE name == CommandNameMap[p[1]][c]
             b == BaseCommands[name]
  <2>1. v # Base
    BY MapperConstants
  <2>2. PICK e \in DOMAIN CommandNameMap[Base] : CommandNameMap[Base][e] = name
    BY DEF Named
  <2>3. name \in DOMAIN BaseCommands /\ b = e
    BY <1>1, <2>2 DEF KInv, BaseListed
  <2>4. CASE p = <<v, Base>>
    <3>1. p[1] = v /\ p[2] = Base
      BY <2>4
    <3>2. ArePair(v, c, b)
      BY <1>1, <2>3, <3>1 DEF KInv, PairsMade
    <3>3. ToCommand(v, Base, c) = e
      BY <2>1, <2>3, <3>2 DEF ToCommand, Get, ArePair
    <3> QED
      BY <2>2, <3>1, <3>3 DEF Get
  <2>5. CASE p = <<Base, v>>
    <3>1. p[1] = Base /\ p[2] = v
      BY <2>5
    <3>2. PICK d \in DOMAIN CommandNameMap[v] : CommandNameMap[v][d] = name
      BY DEF Named
    <3>3. b = c
      BY <1>1, <3>1 DEF KInv, BaseListed
    <3>4. ArePair(v, d, c)
      BY <1>1, <2>3, <3>2, <3>3 DEF KInv, PairsMade
    <3>5. ToCommand(Base, v, c) = d
      BY <2>1, <3>4 DEF ToCommand, Get, ArePair
    <3> QED
      BY <3>1, <3>2, <3>5 DEF Get
  <2> QED
    BY <2>4, <2>5
<1> QED
  BY <1>1, KnownAlways, PTL

\* What SendPacketJSON makes goes out under its own name, by whichever of the
\* two ways its command is found.
THEOREM InjectedKnownHolds == Spec => []InjectedKnown
<1>1. ASSUME KInv
      PROVE  InjectedKnown
  <2> SUFFICES ASSUME NEW v \in Protocols, NEW name \in Named(v), NEW c \in JSONCommands(v, name)
               PROVE  Get(CommandNameMap[v], c, "") = name
    BY DEF InjectedKnown
  <2>1. PICK d \in DOMAIN CommandNameMap[v] : CommandNameMap[v][d] = name
    BY DEF Named
  <2>2. CASE v = Base
    <3>1. name \in DOMAIN BaseCommands /\ BaseCommands[name] = d
      BY <1>1, <2>1, <2>2 DEF KInv, BaseListed
    <3>2. c = d
      BY <2>2, <3>1 DEF JSONCommands, Get
    <3> QED
      BY <2>1, <3>2 DEF Get
  <2>3. CASE v # Base /\ Get(BaseCommands, name, 0) # 0
    <3>1. name \in DOMAIN BaseCommands /\ BaseCommands[name] # 0 /\ v \in Others
      BY <2>3 DEF Get, Protocols
    <3>2. ArePair(v, d, BaseCommands[name])
      BY <1>1, <2>1, <3>1 DEF KInv, PairsMade
    <3>3. c = d
      BY <2>3, <3>1, <3>2 DEF JSONCommands, Get, ArePair
    <3> QED
      BY <2>1, <3>3 DEF Get
  <2>4. CASE v # Base /\ Get(BaseCommands, name, 0) = 0
    <3>1. d \in {e \in DOMAIN CommandNameMap[v] : CommandNameMap[v][e] = name}
      BY <2>1
    <3>2. c \in {e \in DOMAIN CommandNameMap[v] : CommandNameMap[v][e] = name}
      BY <2>4, <3>1 DEF JSONCommands
    <3> QED
      BY <3>2 DEF Get
  <2> QED
    BY <2>2, <2>3, <2>4
<1> QED
  BY <1>1, KnownAlways, PTL
-----------------------------------------------------------------------------
(* The types.                                                              *)

\* A map of commands, and one to commands.
Known(f) == DOMAIN f \subseteq Commands /\ f \in [DOMAIN f -> Names \ {"DebugNotify"}]
Pairs(f) == DOMAIN f \subseteq Commands /\ f \in [DOMAIN f -> Commands]

LEMMA WithKnown ==
  ASSUME NEW f, Known(f), NEW c \in Commands, NEW name \in Names \ {"DebugNotify"}
  PROVE  Known(With(f, c, name))
BY DEF Known, With

LEMMA WithPair ==
  ASSUME NEW f, Pairs(f), NEW c \in Commands, NEW b \in Commands
  PROVE  Pairs(With(f, c, b))
BY DEF Pairs, With

\* The parts of TypeOK: what the loop keeps, and the maps.
LoopOK ==
  /\ tables \in [Protocols -> Table] /\ loaded \subseteq Protocols /\ failed \in BOOLEAN
  /\ loading \in [v : Protocols, n : 0..MaxLines, busy : BOOLEAN]
BaseOK ==
  /\ DOMAIN BaseCommands \subseteq Names \ {"DebugNotify"}
  /\ BaseCommands \in [DOMAIN BaseCommands -> Commands]
NamesOK == DOMAIN CommandNameMap = Protocols /\ \A v \in Protocols : Known(CommandNameMap[v])
PairsOK ==
  /\ DOMAIN CommandPairMap = Protocols
  /\ \A v \in Protocols : /\ DOMAIN CommandPairMap[v] = Protocols
                          /\ \A w \in Protocols : Pairs(CommandPairMap[v][w])
DescOK == MessageDescMap \in [Protocols -> SUBSET (Names \cup ArgumentNames)]

LEMMA TypeOKParts == TypeOK <=> LoopOK /\ BaseOK /\ NamesOK /\ PairsOK /\ DescOK
BY DEF TypeOK, LoopOK, BaseOK, NamesOK, PairsOK, DescOK, Known, Pairs

LEMMA TypesInitially == Init => TypeOK
<1> SUFFICES ASSUME Init PROVE TypeOK
  OBVIOUS
<1>1. Base \in Protocols /\ 0 \in 0..MaxLines
  BY MapperConstants DEF Protocols
<1>2. LoopOK
  BY <1>1 DEF Init, LoopOK, Idle
<1>3. Known(None) /\ Pairs(None) /\ BaseOK
  BY DEF Init, None, Known, Pairs, BaseOK
<1>4. NamesOK /\ PairsOK /\ DescOK
  BY <1>3 DEF Init, NamesOK, PairsOK, DescOK
<1> QED
  BY <1>2, <1>3, <1>4, TypeOKParts

\* The line that is read has a name and a command.
LEMMA LineOK ==
  ASSUME LoopOK, LoadLine
  PROVE  /\ loading.v \in Protocols
         /\ tables[loading.v][loading.n + 1][1] \in Names
         /\ tables[loading.v][loading.n + 1][2] \in Commands
         /\ loading.n + 1 \in 0..MaxLines
<1> DEFINE v == loading.v
           s == tables[v]
<1>1. v \in Protocols /\ loading.n \in Nat /\ s \in Table /\ loading.n < Len(s)
  BY DEF LoopOK, LoadLine
<1>2. PICK k \in 0..MaxLines : s \in [1..k -> Names \X Commands]
  BY <1>1 DEF Table
<1>3. k \in Nat /\ k <= MaxLines /\ Len(s) = k
  BY <1>2, MapperConstants
<1>4. loading.n + 1 \in 1..k /\ loading.n + 1 \in 0..MaxLines
  BY <1>1, <1>3, MapperConstants
<1>5. s[loading.n + 1] \in Names \X Commands
  BY <1>2, <1>4
<1> QED
  BY <1>1, <1>4, <1>5

LEMMA TypesLine ==
  ASSUME TypeOK, LoadLine
  PROVE  TypeOK'
<1> DEFINE v == loading.v
           name == tables[v][loading.n + 1][1]
           c == tables[v][loading.n + 1][2]
<1>1. LoopOK /\ BaseOK /\ NamesOK /\ PairsOK /\ DescOK
  BY TypeOKParts
<1>2. v \in Protocols /\ name \in Names /\ c \in Commands /\ loading.n + 1 \in 0..MaxLines
  BY <1>1, LineOK
<1>3. LoopOK'
  BY <1>1, <1>2 DEF LoadLine, LoopOK
<1>4. CASE Skipped(name)
  <2>1. UNCHANGED maps
    BY <1>4 DEF LoadLine
  <2>2. (BaseOK /\ NamesOK /\ PairsOK /\ DescOK)'
    BY <1>1, <2>1 DEF BaseOK, NamesOK, PairsOK, DescOK, maps
  <2> QED
    BY <1>3, <2>2 DEF TypeOK, LoopOK, BaseOK, NamesOK, PairsOK, DescOK,
      Known, Pairs
<1>5. CASE ~Skipped(name)
  <2>1. parseCommandDesc(v, name, c) /\ name \in Names \ {"DebugNotify"}
    BY <1>2, <1>5 DEF LoadLine, Skipped
  <2>2. NamesOK'
    <3>1. CommandNameMap' = [CommandNameMap EXCEPT ![v] = With(@, c, name)]
      BY <2>1 DEF parseCommandDesc
    <3>2. Known(With(CommandNameMap[v], c, name))
      BY <1>1, <1>2, <2>1, WithKnown DEF NamesOK
    <3> QED
      BY <1>1, <1>2, <3>1, <3>2 DEF NamesOK
  <2>3. DescOK'
    BY <1>1, <1>2, <2>1 DEF parseCommandDesc, DescOK
  <2>4. BaseOK'
    <3>1. CASE v = Base
      <4>1. BaseCommands' = With(BaseCommands, name, c)
        BY <2>1, <3>1 DEF parseCommandDesc
      <4> QED
        BY <1>1, <1>2, <2>1, <4>1 DEF BaseOK, With
    <3>2. CASE v # Base
      BY <1>1, <2>1, <3>2 DEF parseCommandDesc, BaseOK
    <3> QED
      BY <3>1, <3>2
  <2>5. PairsOK'
    <3>1. CASE CommandPairMap' = CommandPairMap
      BY <1>1, <3>1 DEF PairsOK
    <3>2. CASE /\ v # Base /\ name \in DOMAIN BaseCommands
               /\ CommandPairMap' = Paired(CommandPairMap, v, BaseCommands[name], c)
      <4> DEFINE b == BaseCommands[name]
      <4>1. b \in Commands /\ Base \in Protocols
        BY <1>1, <3>2 DEF BaseOK, Protocols
      <4>2. Pairs(With(CommandPairMap[v][Base], c, b)) /\ Pairs(With(CommandPairMap[Base][v], b, c))
        BY <1>1, <1>2, <4>1, WithPair DEF PairsOK
      <4>3. /\ DOMAIN CommandPairMap' = Protocols
            /\ \A x \in Protocols : DOMAIN CommandPairMap'[x] = Protocols
        BY <1>1, <3>2 DEF PairsOK, Paired
      <4>4. ASSUME NEW x \in Protocols, NEW y \in Protocols
            PROVE  Pairs(CommandPairMap'[x][y])
        <5>1. CASE x = v /\ y = Base
          <6>1. CommandPairMap'[x][y] = With(CommandPairMap[v][Base], c, b)
            BY <1>1, <1>2, <3>2, <4>1, <5>1 DEF PairsOK, Paired
          <6> QED
            BY <4>2, <6>1
        <5>2. CASE x = Base /\ y = v
          <6>1. CommandPairMap'[x][y] = With(CommandPairMap[Base][v], b, c)
            BY <1>1, <1>2, <3>2, <4>1, <5>2 DEF PairsOK, Paired
          <6> QED
            BY <4>2, <6>1
        <5>3. CASE ~(x = v /\ y = Base) /\ ~(x = Base /\ y = v)
          <6>1. CommandPairMap'[x][y] = CommandPairMap[x][y]
            BY <1>1, <3>2, <5>3 DEF PairsOK, Paired
          <6> QED
            BY <1>1, <6>1 DEF PairsOK
        <5> QED
          BY <5>1, <5>2, <5>3
      <4> QED
        BY <4>3, <4>4 DEF PairsOK
    <3> QED
      BY <2>1, <3>1, <3>2 DEF parseCommandDesc
  <2> QED
    BY <1>3, <2>2, <2>3, <2>4, <2>5 DEF TypeOK, LoopOK, BaseOK, NamesOK, PairsOK, DescOK,
      Known, Pairs
<1> QED
  BY <1>4, <1>5

\* The variables of Mapper keep their types.
THEOREM TypesHold == Spec => []TypeOK
<1>1. ASSUME TypeOK, [Next]_vars
      PROVE  TypeOK'
  <2>1. LoopOK /\ BaseOK /\ NamesOK /\ PairsOK /\ DescOK
    BY <1>1, TypeOKParts
  <2>2. ASSUME UNCHANGED <<BaseCommands, CommandNameMap, CommandPairMap>>
        PROVE  (BaseOK /\ NamesOK /\ PairsOK)'
    BY <2>1, <2>2 DEF BaseOK, NamesOK, PairsOK
  <2>3. CASE LoadLine
    BY <1>1, <2>3, TypesLine
  <2>4. ASSUME NEW v \in Protocols, Load(v) \/ LoadFails(v)
        PROVE  TypeOK'
    <3>1. (LoopOK /\ DescOK)'
      <4>1. 0 \in 0..MaxLines
        BY MapperConstants
      <4>2. CASE Load(v)
        <5>1. loading' \in [v : Protocols, n : 0..MaxLines, busy : BOOLEAN]
          BY <4>1, <4>2 DEF Load
        <5> QED
          BY <2>1, <4>2, <5>1 DEF Load, LoopOK, DescOK, maps
      <4>3. CASE LoadFails(v)
        BY <2>1, <4>3 DEF LoadFails, LoopOK, DescOK, maps
      <4> QED
        BY <2>4, <4>2, <4>3
    <3>2. (BaseOK /\ NamesOK /\ PairsOK)'
      BY <2>2, <2>4 DEF Load, LoadFails, maps
    <3> QED
      BY <3>1, <3>2 DEF TypeOK, LoopOK, BaseOK, NamesOK, PairsOK, DescOK,
        Known, Pairs
  <2>5. CASE LoadReturn
    <3>1. LoopOK'
      BY <2>1, <2>5, MapperConstants DEF LoadReturn, LoopOK, Idle, Protocols
    <3>2. DescOK'
      BY <2>1, <2>5 DEF LoadReturn, LoopOK, DescOK
    <3>3. (BaseOK /\ NamesOK /\ PairsOK)'
      BY <2>2, <2>5 DEF LoadReturn
    <3> QED
      BY <3>1, <3>2, <3>3 DEF TypeOK, LoopOK, BaseOK, NamesOK, PairsOK, DescOK,
        Known, Pairs
  <2>6. CASE UNCHANGED vars
    BY <1>1, <2>6 DEF TypeOK, vars, maps
  <2> QED
    BY <1>1, <2>3, <2>4, <2>5, <2>6 DEF Next
<1> QED
  BY <1>1, TypesInitially, PTL DEF Spec
=============================================================================
