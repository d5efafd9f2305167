----------------------------- MODULE MCReporter -----------------------------
(* Small instances of Reporter for TLC; the .cfg files give the bounds. *)
EXTENDS Reporter
=============================================================================
