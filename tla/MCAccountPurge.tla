--------------------------- MODULE MCAccountPurge ---------------------------
(* AccountPurge on a small instance: two accounts and their documents.     *)
EXTENDS AccountPurge, TLC

CONSTANTS a1, a2, o1, o2

OwnerOf == (o1 :> a1) @@ (o2 :> a2)
=============================================================================
