---------------------------- MODULE ClientIndex ----------------------------
(***************************************************************************)
(* The index of tunnel addresses over the server's client table            *)
(* (src/src/server.c): entries are found by their current, pending and     *)
(* previous address.  A key goes into the index when it is set; nothing is *)
(* taken out until the index is crowded and rebuilt from the table.  The   *)
(* index itself is the set of pairs SlotIdx implements; keys stand for     *)
(* their hashes.  (The indexes of client IDs and of peer addresses have    *)
(* one key an entry and are kept the same way.)                            *)
(***************************************************************************)
EXTENDS Naturals, FiniteSets

CONSTANTS
    Ips,        \* tunnel addresses
    NoIp,       \* 0
    ClientSlots,
    Crowd       \* slotidx_crowded(): more pairs than this

ASSUME ClientIndexAssumption ==
    NoIp \notin Ips /\ ClientSlots \subseteq Nat /\ ClientSlots # {} /\ Crowd \in Nat

VARIABLES
    entries,    \* server_clients: activity, sessions and addresses
    idx         \* idx_ip: its pairs; not ok: no memory, lookups scan the table
indexVars == <<entries, idx>>

Unused == [active |-> FALSE, cur |-> FALSE, prev |-> FALSE,
           ip |-> NoIp, pending |-> NoIp, prev_ip |-> NoIp]

\* match_cur_ip() and match_ip()
Current(e) == {e.ip} \ {NoIp}
Held(e) == {e.ip, e.pending, IF e.prev THEN e.prev_ip ELSE NoIp} \ {NoIp}

\* server_index_rebuild()
Rebuilt(es) == UNION {{<<ip, s>> : ip \in Held(es[s])} : s \in {t \in ClientSlots : es[t].active}}

\* What server_index_add() may make of index x after the table has become es:
\* the key goes in, or the index is crowded (as one of the others may be), or
\* there is no memory for it to grow, and it is rebuilt, or lost
Added(x, es, s, keys) ==
    IF ~x.ok \/ keys = {} THEN {x}
    ELSE {y \in {[x EXCEPT !.pairs = @ \cup {<<ip, s>> : ip \in keys}]} :
             Cardinality(x.pairs) <= Crowd}
         \cup {[pairs |-> Rebuilt(es), ok |-> TRUE], [pairs |-> {}, ok |-> FALSE]}

Write(s, e, keys) ==
    LET es == [entries EXCEPT ![s] = e]
    IN entries' = es /\ idx' \in Added(idx, es, s, keys)

----------------------------------------------------------------------------
\* server_alloc_client(): a free slot, wiped
Alloc(s) ==
    /\ ~entries[s].active
    /\ Write(s, [Unused EXCEPT !.active = TRUE], {})

\* An entry after server_assign_ip(): a client with a session is offered the
\* address, another one has it at once
Assigned(e, ip) ==
    IF e.cur /\ e.ip # NoIp /\ e.ip # ip THEN [e EXCEPT !.pending = ip]
    ELSE [e EXCEPT !.pending = NoIp, !.ip = ip]

\* Mutant: the address offered to a live client is not indexed
AssignKeys_Current(e, ip) == {ip} \cap (Current(Assigned(e, ip)) \ Current(e))

\* The keys it puts in: none for what the entry had
AssignKeys(e, ip) ==
    {ip} \cap ((Current(Assigned(e, ip)) \ Current(e))
                  \cup ({Assigned(e, ip).pending} \ {e.pending}))

\* server_handle_init(): the address, and a first session
Assign(s, ip) ==
    LET e == entries[s] IN
    /\ e.active
    /\ Write(s, [Assigned(e, ip) EXCEPT !.cur = TRUE], AssignKeys(e, ip))

\* server_restore_ip(): the entry, that was given another address, is as
\* before; both its addresses are indexed again, one after the other
RestoreIp(x, s, given, before) ==
    LET es(e) == [entries EXCEPT ![s] = e]
        back == [given EXCEPT !.ip = before.ip]
    IN UNION {UNION {Added(z, es(before), s, {before.pending} \ {NoIp}) :
                        z \in Added(y, es(before), s, Current(before))} :
                 y \in Added(x, es(back), s, Current(back) \ Current(given))}

\* A handshake that gives an address, and then fails
AssignFails(s, ip) ==
    LET e == entries[s]
        given == Assigned(e, ip)
    IN /\ e.active
       /\ \E x \in Added(idx, [entries EXCEPT ![s] = given], s, AssignKeys(e, ip)) :
             idx' \in RestoreIp(x, s, given, e)
       /\ UNCHANGED entries

\* server_handle_data(), first packet on next: the session that is left keeps
\* its address, server_set_ip() takes the one that was offered
Promote(s) ==
    LET e == entries[s]
        moved == [e EXCEPT !.prev = TRUE, !.prev_ip = e.ip, !.pending = NoIp,
                           !.ip = IF e.pending = NoIp THEN @ ELSE e.pending]
    IN /\ e.active /\ e.cur
       /\ Write(s, moved, Current(moved) \ Current(e))

\* server_expire_clients(): the previous session, an offer not confirmed
Expire(s) ==
    LET e == entries[s] IN
    /\ e.active
    /\ \/ Write(s, [e EXCEPT !.prev = FALSE, !.prev_ip = NoIp], {})
       \/ Write(s, [e EXCEPT !.pending = NoIp], {})

\* server_drop_entry(): the pairs of the slot go stale
DropEntry(s) == entries[s].active /\ Write(s, Unused, {})

ClientIndexInit ==
    /\ entries = [s \in ClientSlots |-> Unused]
    /\ idx \in {[pairs |-> {}, ok |-> TRUE], [pairs |-> {}, ok |-> FALSE]}
ClientIndexNext == \E s \in ClientSlots :
    \/ Alloc(s) \/ Promote(s) \/ Expire(s) \/ DropEntry(s)
    \/ \E ip \in Ips : Assign(s, ip) \/ AssignFails(s, ip)
ClientIndexSpec == ClientIndexInit /\ [][ClientIndexNext]_indexVars

----------------------------------------------------------------------------
\* server_find_by_ip(): the client that has the address now, else one that
\* was offered it or still receives on it, found in the index or by a scan
LowestOf(slots) == {s \in slots : \A t \in slots : s <= t}
FindIn(slots, ip) ==
    LET current == {s \in slots : entries[s].active /\ ip \in Current(entries[s])}
        held == {s \in slots : entries[s].active /\ ip \in Held(entries[s])}
    IN LowestOf(IF current # {} THEN current ELSE held)
FindByIp(ip) ==
    FindIn(IF idx.ok THEN {s \in ClientSlots : <<ip, s>> \in idx.pairs} ELSE ClientSlots, ip)

\* A lookup answers as a scan of the table would: however slots are reused,
\* whenever the index was rebuilt and whichever offer was taken back, every
\* address an entry holds is in the index, and no stale pair is believed.
LookupExact == \A ip \in Ips : FindByIp(ip) = FindIn(ClientSlots, ip)

=============================================================================
