----------------------------- MODULE MCSilence -----------------------------
(* Small instances of Silence for TLC; the .cfg files give the bounds.         *)
EXTENDS Silence
=============================================================================
