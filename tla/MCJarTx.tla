------------------------------- MODULE MCJarTx -------------------------------
(* JarTx on small sets; the .cfg files choose them.  No symmetry: the run of  *)
(* the statements checks a liveness property.                                 *)
EXTENDS JarTx
=============================================================================
