---------------------------- MODULE MCKcpTimers ----------------------------
(* KcpTimers with times of a few units.                                    *)
EXTENDS KcpTimers

\* A program whose clock is about to wrap around.
BeforeWrap == {2 * HalfRange - 4}
=============================================================================
