----------------------------- MODULE MCSessions -----------------------------
(***************************************************************************)
(* The tabs are interchangeable, and so are the slots: a request is put    *)
(* into an empty one, and nothing refers to an empty one.  A behaviour     *)
(* loses an answer or reloads a page, and not both.                        *)
(***************************************************************************)
EXTENDS Sessions, TLC

Symmetry == Permutations(Tabs) \cup Permutations(Slots)
OneMishap == faults + loads <= 1
=============================================================================
