---------------------------- MODULE MCUploadBody ----------------------------
(* UploadBody with scaled-down sizes; the .cfg files choose them. *)
EXTENDS UploadBody
=============================================================================
