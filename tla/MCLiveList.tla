------------------------------ MODULE MCLiveList -----------------------------
(* Small instances of LiveList. *)
EXTENDS LiveList, TLC
=============================================================================
