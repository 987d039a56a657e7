---------------------------- MODULE MCApiServer ----------------------------
(* ApiServer on small sets; the .cfg file chooses them.  No symmetry: the run *)
(* checks a liveness property.                                                *)
EXTENDS ApiServer
=============================================================================
