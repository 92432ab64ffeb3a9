CONSTANTS
  Base = "base"
  old = old
  new = new
  Others <- TwoOthers
  Names = {"Ping", "EvtBeingHealedNotify", "DebugNotify"}
  Commands = {0, 1}
  ArgumentNames = {"EvtBeingHealedNotify"}
  MaxLines = 2
  MaxNested = 2
SPECIFICATION MCSpec
INVARIANTS
  TypeOK
  KeepsName
  CommandKnown
  InjectedKnown
  UnionWhole
  InvocationsApart
SYMMETRY Symmetry
CHECK_DEADLOCK FALSE
