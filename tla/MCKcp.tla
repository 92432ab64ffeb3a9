------------------------------- MODULE MCKcp -------------------------------
(* Kcp with messages in one direction.                                     *)
EXTENDS KcpInv

Two == [e \in Ends |-> IF e = "dialer" THEN 2 ELSE 0]
Three == [e \in Ends |-> IF e = "dialer" THEN 3 ELSE 0]

One == [e \in Ends |-> 1]
TwoEach == [e \in Ends |-> 2]
TwoToListener == [e \in Ends |-> IF e = "listener" THEN 2 ELSE 1]
=============================================================================
