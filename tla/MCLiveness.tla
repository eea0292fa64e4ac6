----------------------------- MODULE MCLiveness -----------------------------
(* Liveness on the bodies of DefinitionPaths.                                *)
EXTENDS Liveness
=============================================================================
