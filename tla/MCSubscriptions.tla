-------------------------- MODULE MCSubscriptions --------------------------
(* Two users, of whom one has an expiry date. *)
EXTENDS Subscriptions
CONSTANTS u1, u2
MCUsers == {u1, u2}
MCDated == {u1}
=============================================================================
