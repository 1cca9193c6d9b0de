------------------------------ MODULE LeaseSet ------------------------------
(***************************************************************************)
(* What the lease table of src/src/server.c promises (#81): the addresses  *)
(* of clients that are gone are kept, each for one client and at most one  *)
(* of a client's as the address it gets back.  A young lease is given up   *)
(* only for a newer one of its client or its address, or when the table    *)
(* cannot grow: it has reached the pool's size, or there is no memory.     *)
(***************************************************************************)
EXTENDS Naturals, FiniteSets

CONSTANTS LeaseIds, LeaseIps, LeaseMin, LeaseLimit

VARIABLES leases, memory
setVars == <<leases, memory>>

\* The leases a new one takes the place of
Replaced(id, ip, prev) ==
    {l \in leases : l.ip = ip \/ (~prev /\ ~l.prev /\ l.id = id)}

\* The leases that may be given up to make room
Spare(kept) == {l \in kept : \/ l.age >= LeaseMin
                             \/ ~memory
                             \/ Cardinality(kept) >= LeaseLimit}

Keep(id, ip, prev) ==
    LET kept == leases \ Replaced(id, ip, prev)
        new == [id |-> id, ip |-> ip, prev |-> prev, age |-> 0]
    IN /\ \/ leases' = kept \cup {new}
          \/ \E l \in Spare(kept) : leases' = (kept \ {l}) \cup {new}
       /\ UNCHANGED memory

\* A client has the address again (and is back under its ID)
Return(id, ip, back) ==
    /\ leases' = leases \ Replaced(id, ip, ~back)
    /\ UNCHANGED memory

Age == /\ leases' = {[l EXCEPT !.age = IF @ < LeaseMin THEN @ + 1 ELSE @] : l \in leases}
       /\ UNCHANGED memory

Memory == memory' \in BOOLEAN /\ UNCHANGED leases

LeaseSetInit == leases = {} /\ memory = TRUE
LeaseSetNext ==
    \/ \E id \in LeaseIds, ip \in LeaseIps, b \in BOOLEAN : Keep(id, ip, b) \/ Return(id, ip, b)
    \/ Age \/ Memory
LeaseSetSpec == LeaseSetInit /\ [][LeaseSetNext]_setVars

=============================================================================
