-------------------------- MODULE MCTwitterPosting --------------------------
(* Small instances of TwitterPosting for TLC; the sizes are in the .cfg's. *)
EXTENDS TwitterPosting
=============================================================================
