----------------------------- MODULE ClientPool -----------------------------
(***************************************************************************)
(* What psc_client_alloc and psc_client_free promise to the rest of the    *)
(* server: each slot of psc_key::clients serves at most one connection at  *)
(* a time, a connection is served by at most one slot, and a slot passes   *)
(* from one connection to the next only by way of being free.              *)
(***************************************************************************)
CONSTANTS Slots, Conns, None

VARIABLE holder   \* the connection that each slot serves, or None

Init == holder = [s \in Slots |-> None]

Take(s, c) ==
    /\ holder[s] = None
    /\ \A r \in Slots : holder[r] # c
    /\ holder' = [holder EXCEPT ![s] = c]

Release(s) ==
    /\ holder[s] # None
    /\ holder' = [holder EXCEPT ![s] = None]

Next == \E s \in Slots : Release(s) \/ \E c \in Conns : Take(s, c)

Spec == Init /\ [][Next]_holder

=============================================================================
