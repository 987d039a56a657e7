--------------------------- MODULE MCJarCreation ---------------------------
(* JarCreation on small sets; the .cfg file chooses them. *)
EXTENDS JarCreation
=============================================================================
