------------------------------ MODULE MCCleaner ------------------------------
(* Cleaner on small sets; the .cfg file chooses them. *)
EXTENDS Cleaner
=============================================================================
