--------------------------- MODULE MCScrollService ---------------------------
(* ScrollService on small sets; the .cfg files choose them. *)
EXTENDS ScrollService, TLC

\* Users, contents and texts are interchangeable; ids and requests are too.
Symmetry == Permutations(Scrolls) \cup Permutations(Requests)
            \cup Permutations(Contents) \cup Permutations(Users)
            \cup Permutations(Texts)
=============================================================================
