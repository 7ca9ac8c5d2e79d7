------------------------------- MODULE Folding -------------------------------
(***************************************************************************)
(* What the loops over lists compute that several services have: the sum   *)
(* of numbers, lists joined into one, and the part of a list a condition   *)
(* leaves.                                                                 *)
(***************************************************************************)
EXTENDS Naturals, Sequences

SumOver(f) ==
    LET sum[i \in 0..Len(f)] == IF i = 0 THEN 0 ELSE sum[i - 1] + f[i] IN sum[Len(f)]

Flatten(texts) ==
    LET join[i \in 0..Len(texts)] == IF i = 0 THEN <<>> ELSE join[i - 1] \o texts[i]
    IN  join[Len(texts)]

(* What is at the given places of a sequence, in order.                     *)
Selected(s, places) == Flatten([i \in DOMAIN s |-> IF i \in places THEN <<s[i]>> ELSE <<>>])
=============================================================================
