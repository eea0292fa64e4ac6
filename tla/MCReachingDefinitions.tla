------------------------ MODULE MCReachingDefinitions ------------------------
(* ReachingDefinitions on the bodies of DefinitionPaths.                      *)
EXTENDS ReachingDefinitions
==============================================================================
