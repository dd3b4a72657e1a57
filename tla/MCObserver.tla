----------------------------- MODULE MCObserver -----------------------------
(* Small instances of Observer for TLC: model values only. *)
EXTENDS Observer
=============================================================================
