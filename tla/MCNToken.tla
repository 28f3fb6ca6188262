------------------------------ MODULE MCNToken ------------------------------
(***************************************************************************)
(* NToken on small instances.  URIs are only ever compared with each       *)
(* other, and no constant tells apart the accounts that are never put on a *)
(* list, so that exchanging either is a symmetry.                          *)
(***************************************************************************)
EXTENDS NToken, TLC

Symmetry == Permutations(Uris) \cup Permutations(Accounts \ AdminNames)

=============================================================================
