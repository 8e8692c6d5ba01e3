----------------------------- MODULE AddressPool -----------------------------
(***************************************************************************)
(* What the overlay network promises its users: nobody shares an address,  *)
(* and who has got one keeps it for as long as there is such a user.       *)
(***************************************************************************)
CONSTANTS
  Users,
  Addresses,
  Gone,         \* not a user, or not any more
  None          \* a user without an address

VARIABLE lease  \* the address of each user, or None, or Gone

Init == lease = [u \in Users |-> Gone]

\* Nobody else has the address.
Free(u, a) == a = None \/ \A v \in Users \ {u} : lease[v] # a

\* A user comes, with an address or without.
Join(u) ==
  /\ lease[u] = Gone
  /\ \E a \in Addresses \cup {None} :
       Free(u, a) /\ lease' = [lease EXCEPT ![u] = a]

\* A user who has none gets an address.
Lease(u) ==
  /\ lease[u] = None
  /\ \E a \in Addresses : Free(u, a) /\ lease' = [lease EXCEPT ![u] = a]

\* A user goes.
Leave(u) == lease[u] # Gone /\ lease' = [lease EXCEPT ![u] = Gone]

Next == \E u \in Users : Join(u) \/ Lease(u) \/ Leave(u)

Spec == Init /\ [][Next]_lease
=============================================================================
