----------------------------- MODULE LeaseTable -----------------------------
(***************************************************************************)
(* The lease table of src/src/server.c (#81): its slots, the cursor, the   *)
(* count, growth, and its two lookup indexes, which are not cleaned when a *)
(* lease is dropped and are given up without memory.  Times are ages, up   *)
(* to SERVER_LEASE_MIN.                                                    *)
(***************************************************************************)
EXTENDS Naturals, FiniteSets

CONSTANTS
    LeaseIds,    \* client IDs (one letter case)
    LeaseIps,    \* addresses of the pool
    FirstCap,    \* slots to start with: one a client slot
    LeaseMin,    \* SERVER_LEASE_MIN
    LeaseLimit,  \* the smaller of the pool's size and SERVER_LEASE_MAX
    LeaseSlack   \* slotidx_crowded(): pairs above twice the slots

ASSUME LeaseAssumption ==
    /\ FirstCap \in Nat \ {0} /\ LeaseMin \in Nat
    /\ LeaseLimit \in Nat /\ LeaseSlack \in Nat
    /\ "none" \notin LeaseIds

VARIABLES
    slots,    \* server_leases, from slot 0
    cursor,   \* server_lease_next
    used,     \* server_lease_used
    lookup,   \* idx_lease_ip, idx_lease_id (their pairs), lease_idx_ok
    memory    \* allocations succeed
leaseVars == <<slots, cursor, used, lookup, memory>>

FreeLease == [id |-> "none", ip |-> "none", prev |-> FALSE, age |-> 0]
Lease == [id : LeaseIds, ip : LeaseIps, prev : BOOLEAN, age : 0 .. LeaseMin]
Cap(t) == Cardinality(DOMAIN t)
Taken(t) == {k \in DOMAIN t : t[k] # FreeLease}

\* match_lease_ip(), match_lease_id()
WithIp(t, ip) == {k \in Taken(t) : t[k].ip = ip}
WithId(t, id) == {k \in Taken(t) : t[k].id = id /\ ~t[k].prev}

\* server_lease_by_ip(), server_lease_by_id(): the lowest slot that matches
Lowermost(ks) == {k \in ks : \A j \in ks : k <= j}
ByIp(t, ip) == Lowermost(
    {k \in WithIp(t, ip) : lookup.ok => <<ip, k>> \in lookup.ips})
ById(t, id) == Lowermost(
    {k \in WithId(t, id) : lookup.ok => <<id, k>> \in lookup.ids})

\* server_lease_drop() of the leases found: table and count
Drop(r, ks) == [table |-> [k \in DOMAIN r.table |-> IF k \in ks THEN FreeLease ELSE r.table[k]],
                count |-> r.count - Cardinality(ks \cap Taken(r.table))]

\* The index after server_lease_index_rebuild(), and all server_lease_add()
\* may leave: both keys go in, or it is rebuilt, or there is no memory
Reindexed(t) == [ips |-> {<<t[k].ip, k>> : k \in Taken(t)},
                 ids |-> {<<t[k].id, k>> : k \in Taken(t)}, ok |-> TRUE]
Unindexed == [ips |-> {}, ids |-> {}, ok |-> FALSE]
Crowded(x, t) == \/ Cardinality(x.ips) > 2 * Cap(t) + LeaseSlack
                 \/ Cardinality(x.ids) > 2 * Cap(t) + LeaseSlack

\* Mutant: what is put into a table that has grown is not indexed by its ID
Indexed_ById(ok, t, k) ==
    {IF ok THEN Reindexed(t) ELSE [Reindexed(t) EXCEPT !.ids = @ \ {<<t[k].id, k>>}]}

Indexed(ok, t, k) ==
    LET put == [ips |-> lookup.ips \cup {<<t[k].ip, k>>},
                ids |-> lookup.ids \cup {<<t[k].id, k>>}, ok |-> TRUE]
        plain == ok /\ ~Crowded(lookup, t)
    IN IF memory THEN {IF plain THEN put ELSE Reindexed(t)}
       ELSE {Reindexed(t), Unindexed} \cup {y \in {put} : plain}

\* The slots that may be used: from the cursor the first free one, else one
\* of the oldest (a second holds many: the code takes the first of these)
FreeSlot(r) ==
    {k \in DOMAIN r.table \ Taken(r.table) :
        \A j \in DOMAIN r.table \ Taken(r.table) :
            (k + Cap(r.table) - cursor) % Cap(r.table) <= (j + Cap(r.table) - cursor) % Cap(r.table)}
Oldest(r) == {k \in Taken(r.table) : \A j \in Taken(r.table) : r.table[k].age >= r.table[j].age}

\* The table after realloc(): twice the slots, up to the limit
NewCap(t) == IF 2 * Cap(t) > LeaseLimit THEN LeaseLimit ELSE 2 * Cap(t)
Bigger(t) == [k \in 0 .. NewCap(t) - 1 |-> IF k \in DOMAIN t THEN t[k] ELSE FreeLease]

\* The new lease in its slot
Store(r, k, new, ok, next) ==
    LET t == [r.table EXCEPT ![k] = new] IN
    /\ slots' = t
    /\ used' = IF r.table[k] = FreeLease THEN r.count + 1 ELSE r.count
    /\ cursor' = next % Cap(t)
    /\ lookup' \in Indexed(ok, t, k)

----------------------------------------------------------------------------
\* Mutant: any lease may go before the table grows
MustGrow_Old(t, k) == FALSE

\* All taken and the oldest is young
MustGrow(t, k) == t[k].age < LeaseMin /\ NewCap(t) > Cap(t)

\* server_lease_add(); prev: the address of the client's previous session
LeaseAdd(id, ip, prev) ==
    LET new == [id |-> id, ip |-> ip, prev |-> prev, age |-> 0]
        gone == IF prev THEN {} ELSE ById(slots, id)
        r1 == Drop([table |-> slots, count |-> used], gone)
        r == Drop(r1, ByIp(r1.table, ip))
    IN /\ \/ r.count < Cap(r.table) /\ \E k \in FreeSlot(r) : Store(r, k, new, lookup.ok, k + 1)
          \/ /\ r.count >= Cap(r.table) \/ FreeSlot(r) = {}
             /\ \E k \in Oldest(r) :
                   \/ /\ memory /\ MustGrow(r.table, k)
                      /\ Store([r EXCEPT !.table = Bigger(r.table)], Cap(r.table), new, FALSE,
                               Cap(r.table) + 1)
                   \/ ~(memory /\ MustGrow(r.table, k)) /\ Store(r, k, new, lookup.ok, cursor)
       /\ UNCHANGED memory

\* server_handle_init() and server_handle_data(): the client has the address
LeaseReturn(id, ip, back) ==
    LET r1 == Drop([table |-> slots, count |-> used], IF back THEN ById(slots, id) ELSE {})
        r == Drop(r1, ByIp(r1.table, ip))
    IN slots' = r.table /\ used' = r.count /\ UNCHANGED <<cursor, lookup, memory>>

LeaseTick ==
    /\ slots' = [k \in DOMAIN slots |->
                    IF slots[k] = FreeLease \/ slots[k].age = LeaseMin THEN slots[k]
                    ELSE [slots[k] EXCEPT !.age = @ + 1]]
    /\ UNCHANGED <<cursor, used, lookup, memory>>

LeaseMemory == memory' = ~memory /\ UNCHANGED <<slots, cursor, used, lookup>>

LeaseInit ==
    /\ slots = [k \in 0 .. FirstCap - 1 |-> FreeLease] /\ cursor = 0 /\ used = 0
    /\ lookup = Reindexed(slots) /\ memory = TRUE
LeaseNext ==
    \/ \E id \in LeaseIds, ip \in LeaseIps, b \in BOOLEAN :
           LeaseAdd(id, ip, b) \/ LeaseReturn(id, ip, b)
    \/ LeaseTick \/ LeaseMemory
LeaseSpec == LeaseInit /\ [][LeaseNext]_leaseVars

----------------------------------------------------------------------------
\* A lookup finds what a scan of the table would: after growth, drops that
\* leave stale pairs, crowding and failures of memory.  And used counts the
\* leases there are: were it lower, a young lease would go while a slot is free.
LeaseLookupExact ==
    /\ used = Cardinality(Taken(slots))
    /\ \A ip \in LeaseIps : ByIp(slots, ip) = Lowermost(WithIp(slots, ip))
    /\ \A id \in LeaseIds : ById(slots, id) = Lowermost(WithId(slots, id))

\* The table keeps the leases LeaseSet promises: none is lost but to a newer
\* one of its client or address, for age, or where the table cannot grow.
Kept == INSTANCE LeaseSet WITH leases <- {slots[k] : k \in Taken(slots)}
LeasesKept == Kept!LeaseSetSpec

=============================================================================
