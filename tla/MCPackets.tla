----------------------------- MODULE MCPackets -----------------------------
(* Packets with protocols as model values, and tables in one order only.   *)
EXTENDS Packets, TLC

CONSTANTS old, new

TwoOthers == {old, new}
Symmetry == Permutations(TwoOthers)

\* Names and commands occur once in a table: the order of the lines makes no
\* difference to what is loaded in the end.
Sorted == \A v \in Protocols : \A i, j \in DOMAIN tables[v] : i < j => tables[v][i][2] < tables[v][j][2]

MCInit == Init /\ Sorted
MCSpec == MCInit /\ [][Next]_vars
=============================================================================
