-------------------------- MODULE MCNotifications --------------------------
(* Notifications on a small instance: three streams of two users.          *)
EXTENDS Notifications, TLC

CONSTANTS s1, s2, s3, n1, ann, bob

Readers    == (s1 :> ann) @@ (s2 :> ann) @@ (s3 :> bob)
Recipients == n1 :> ann
=============================================================================
