----------------------------- MODULE MCGovernor -----------------------------
(* Small instances of Governor for TLC: the broker answers in two ways. *)
EXTENDS Governor

TwoResponses == {"Canonicalized", "Refused"}
=============================================================================
