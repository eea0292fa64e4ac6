--------------------------- MODULE MCPrustiServer ---------------------------
(* Finite instances of PrustiServer.  Requests with even numbers ask for     *)
(* Carbon, the others for Silicon.                                           *)
EXTENDS PrustiServer

MCConfigOf == [r \in Requests |-> IF r % 2 = 1 THEN "Silicon" ELSE "Carbon"]
=============================================================================
