------------------------ MODULE MCDependencyResolver ------------------------
(***************************************************************************)
(* TLC instances of DependencyResolver: every graph, with dependencies on  *)
(* oneself and on missing features.                                        *)
(***************************************************************************)
EXTENDS DependencyResolver

AllDependencies == SUBSET Id
=============================================================================
