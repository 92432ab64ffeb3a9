-------------------------- MODULE MCSessionManager --------------------------
(* SessionManager with clients as model values.                            *)
EXTENDS SessionManager, TLC

CONSTANTS a1, a2

One == {a1}
Two == {a1, a2}
Symmetry == Permutations({a1, a2})
=============================================================================
