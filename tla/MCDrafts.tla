------------------------------ MODULE MCDrafts ------------------------------
(***************************************************************************)
(* The tabs are interchangeable, and so are the slots: a request is put    *)
(* into an empty one, and only the lock refers to a slot.                  *)
(***************************************************************************)
EXTENDS Drafts, TLC

Symmetry == Permutations(Tabs) \cup Permutations(Slots)
=============================================================================
