---------------------------- MODULE ServerTable ----------------------------
(***************************************************************************)
(* The client table of the camex server (src/src/server.c): which client   *)
(* holds which tunnel address, in which session, and which address stays   *)
(* leased to a client that is gone.                                        *)
(*                                                                         *)
(* The server is one thread; each action is one call of a handler from the *)
(* event loop (src/src/camex.c, camex_run()).  A restart keeps nothing, so *)
(* it is Init, the clients being free to ask for any address.              *)
(*                                                                         *)
(* Data abstraction.  A session is the tunnel address its handshake reply  *)
(* gave the client: NoAddr is an invalid session.  Keys, indexes, nonces   *)
(* and the timestamps of message 1 are not here.  A handshake refused      *)
(* before the table is touched is a stuttering step.  Over TCP a source    *)
(* address is a connection, and an entry's addr is its tcp_fd.             *)
(***************************************************************************)
EXTENDS Naturals, FiniteSets

CONSTANTS
    Slots,         \* server_clients[0 .. server_max_clients - 1]
    AutoIds,       \* IDs of the clients in auto mode
    ManualIds,     \* IDs of the manual clients that send one
    NoId,          \* the empty client ID
    Peers,         \* source addresses; over TCP, connections
    NoPeer,        \* no source address
    Addrs,         \* tunnel addresses
    NoAddr,        \* address 0: none
    TunnelIp,      \* server_tunnel_ip, or NoAddr
    Keys,          \* pre-shared keys
    NoKey,         \* an absent key, and the psk_key of a new entry
    Locked,        \* a psk= that cannot be used: it matches no key
    Configs,       \* the configurations a (re)load can put in force
    NoSlot,        \* the lookups' NULL
    Tcp,           \* current_config.transport = CAMEX_TRANSPORT_TCP
    ClientTimeout, \* server_client_timeout(), seconds
    Grace,         \* V2_PREV_SESSION_GRACE
    RekeyAfter,    \* V2_REKEY_AFTER_TIME
    PoolHold,      \* SERVER_POOL_HOLD
    PreauthTimeout,\* CAMEX_TCP_PREAUTH_TIMEOUT
    PreauthGrace,  \* CAMEX_TCP_PREAUTH_GRACE
    PreauthMax,    \* CAMEX_TCP_PREAUTH_MAX
    MaxNow         \* bound of the clock

Ids == AutoIds \cup ManualIds
AddrOrNone == Addrs \cup {NoAddr}

(* What the handlers read of server_db and of the keystore: the client     *)
(* addresses of auto_pool=, the IDs with a [client ID] block, the address  *)
(* (local_cidr=) and the key (psk=) of each, the global key,               *)
(* allow_unknown_clients = no.                                             *)
Config == [pool: SUBSET Addrs, listed: SUBSET Ids,
           profile: [Ids -> AddrOrNone], psk: [Ids -> Keys \cup {NoKey, Locked}],
           global: Keys \cup {NoKey}, deny: BOOLEAN]

ASSUME TableAssumption ==
    /\ IsFiniteSet(Slots) /\ Slots # {} /\ NoSlot \notin Slots
    /\ AutoIds \cap ManualIds = {} /\ NoId \notin Ids
    /\ NoPeer \notin Peers /\ NoAddr \notin Addrs /\ TunnelIp \in AddrOrNone
    /\ NoKey \notin Keys /\ Locked \notin Keys /\ NoKey # Locked
    /\ Configs # {} /\ Configs \subseteq Config
    /\ Tcp \in BOOLEAN
    /\ {ClientTimeout, Grace, RekeyAfter, PoolHold, PreauthTimeout,
        PreauthGrace, PreauthMax, MaxNow} \subseteq Nat
    /\ RekeyAfter > 0
    /\ IsFiniteSet(Addrs)

VARIABLES
    clients,    \* server_clients
    leases,     \* server_leases: the used ones
    conf,       \* server_db, server_ks
    now,        \* g_now; 0 is server_started
    pool_full   \* pool_full_net/prefix: the pool found full this second

vars == <<clients, leases, conf, now, pool_full>>

LeaseMin == RekeyAfter + ClientTimeout      \* SERVER_LEASE_MIN

\* Mutant: the hold ends a second early
Holding_Short == now + 1 < PoolHold

Holding == now < PoolHold                   \* server_pool_holding()

Entry == [active: BOOLEAN, registered: BOOLEAN, auto: BOOLEAN,
          id: Ids \cup {NoId}, psk: Keys \cup {NoKey}, addr: Peers \cup {NoPeer},
          ip: AddrOrNone, pending: AddrOrNone, prev_ip: AddrOrNone,
          cur: AddrOrNone, next: AddrOrNone, prev: AddrOrNone,
          next_born: Nat, prev_until: Nat, last_seen: Nat, connected: Nat]

Lease == [id: Ids, ip: Addrs, since: Nat, prev: BOOLEAN]

\* A wiped slot
Free == [active |-> FALSE, registered |-> FALSE, auto |-> FALSE,
         id |-> NoId, psk |-> NoKey, addr |-> NoPeer,
         ip |-> NoAddr, pending |-> NoAddr, prev_ip |-> NoAddr,
         cur |-> NoAddr, next |-> NoAddr, prev |-> NoAddr,
         next_born |-> 0, prev_until |-> 0, last_seen |-> 0, connected |-> 0]

\* A slot just taken
Blank == [Free EXCEPT !.active = TRUE]

----------------------------------------------------------------------------
(* Lookups in a table E *)

\* match_ip(): a pending address, and the previous session's while that
\* session receives, are the client's too
HoldsIp(e, ip) ==
    /\ ip # NoAddr /\ e.active
    /\ \/ e.ip = ip
       \/ e.pending = ip
       \/ e.prev # NoAddr /\ e.prev_ip = ip

\* slotidx_find() returns the lowest slot that matches: always the same one
SomeSlot(S) == IF S = {} THEN NoSlot ELSE CHOOSE s \in S : TRUE

\* The owner of a current address comes before one that only holds it
FindByIp(E, ip) ==
    LET owners == {s \in Slots : HoldsIp(E[s], ip) /\ E[s].ip = ip}
    IN SomeSlot(IF owners # {} THEN owners
                               ELSE {s \in Slots : HoldsIp(E[s], ip)})

FindById(E, id) == SomeSlot({s \in Slots : E[s].active /\ E[s].id = id})

FindByAddr(E, from) == SomeSlot({s \in Slots : E[s].active /\ E[s].addr = from})

\* profile_owner_of_ip().  Two blocks can have one address: the index finds
\* the same one of them every time.
ProfileOwner(c, ip) ==
    IF ip # NoAddr /\ \E i \in c.listed : c.profile[i] = ip
    THEN CHOOSE i \in c.listed : c.profile[i] = ip ELSE NoId

\* The address of id's own [client ID] block, or NoAddr
ProfileIp(c, id) == IF id \in c.listed THEN c.profile[id] ELSE NoAddr

LeasesOfId(L, id) == {l \in L : l.id = id /\ ~l.prev}
LeasesOfIp(L, ip) == {l \in L : l.ip = ip}
Young(l) == now - l.since < LeaseMin

----------------------------------------------------------------------------
(* The end of an entry *)

\* The leases a slot leaves behind under configuration c: its address, and
\* the previous session's, from which the client may still send
LeasesLeft(c, e) ==
    LET keeps(ip) == ip \in c.pool /\ ProfileOwner(c, ip) = NoId
        lease(ip, prev) ==
            [id |-> e.id, ip |-> ip, since |-> now, prev |-> prev]
    IN IF e.active /\ e.registered /\ e.auto /\ e.id # NoId
       THEN {lease(ip, FALSE) : ip \in {x \in {e.ip} : keeps(x)}} \cup
            {lease(ip, TRUE) : ip \in {x \in {e.prev_ip} :
                       e.prev # NoAddr /\ x # e.ip /\ keeps(x)}}
       ELSE {}

\* server_lease_add() of each of new under configuration c.  A table that is
\* full gives old leases up.  It grows up to the size of the pool rather than
\* give a young one up: a pool made smaller has no room for all of them.
LeaseAdds(c, L, new) ==
    LET kept == {l \in L : \A n \in new :
                     n.ip # l.ip /\ (n.prev \/ l.prev \/ n.id # l.id)}
        size == Cardinality(kept \cup new)
    IN IF new = {} \/ size <= Cardinality(Slots)
       THEN {kept \cup new}
       ELSE {(kept \ gone) \cup new :
                 gone \in SUBSET {l \in kept : ~Young(l) \/ size > Cardinality(c.pool)}}

\* Mutant: server_drop_entry(), without leases
EndLeases_Dropped(c, E, L, S) == {L}

\* server_end_client() of the slots S: the leases it can leave
EndLeases(c, E, L, S) == LeaseAdds(c, L, UNION {LeasesLeft(c, E[s]) : s \in S})

Wiped(E, S) == [s \in Slots |-> IF s \in S THEN Free ELSE E[s]]

----------------------------------------------------------------------------
(* The keys: server_register_allowed() and server_revalidate_keys() *)

InKeystore(c, k) == k # NoKey /\ (k = c.global \/ \E i \in c.listed : c.psk[i] = k)
HasOwner(c, id) == id \in c.listed /\ c.psk[id] # NoKey
OwnedBy(c, k, id) == id \in c.listed /\ c.psk[id] = k
\* The global key comes first in the keystore
KeyOwner(c, k) ==
    IF k = c.global \/ ~\E i \in c.listed : c.psk[i] = k THEN NoId
    ELSE CHOOSE i \in c.listed : c.psk[i] = k

\* The ID a handshake made with r.key is for: a per-client key names it
ClaimedId(r) == IF r.id = NoId THEN KeyOwner(conf, r.key) ELSE r.id

RegisterAllowed(r) ==
    LET id == ClaimedId(r)
        holder == ProfileOwner(conf, r.want)
    IN /\ InKeystore(conf, r.key)
       /\ id # NoId => \/ OwnedBy(conf, r.key, id)
                       \/ KeyOwner(conf, r.key) = NoId /\ ~HasOwner(conf, id)
       /\ ~r.auto =>
             /\ ProfileIp(conf, id) \in {NoAddr, r.want}
             /\ holder # NoId /\ holder # id => ~HasOwner(conf, holder)

\* May a registered entry go on with its key under configuration c?
KeyAllowed(c, e) ==
    /\ InKeystore(c, e.psk)
    /\ IF e.id = NoId THEN e.psk = c.global
       ELSE OwnedBy(c, e.psk, e.id) \/
            (KeyOwner(c, e.psk) = NoId /\ ~HasOwner(c, e.id))

----------------------------------------------------------------------------
(* server_entry_for(): the slot a handshake belongs to.  A claim is the    *)
(* slot, whether it was taken for this handshake, and the table and leases *)
(* then; the set is empty when the handshake is rejected.                  *)

Claim(s, fresh, E, L) == [slot |-> s, fresh |-> fresh, table |-> E, leases |-> L]

\* server_alloc_client(): a free slot, else that of the client quiet longest
\* (the cursor over the free slots is not modelled: any of them)
AllocClient ==
    LET free == {s \in Slots : ~clients[s].active}
        oldest == {s \in Slots : \A t \in Slots :
                       clients[s].last_seen <= clients[t].last_seen}
    IN IF free # {}
       THEN {Claim(s, TRUE, [clients EXCEPT ![s] = Blank], leases) : s \in free}
       ELSE IF Holding THEN {}
       ELSE UNION {{Claim(s, TRUE, [clients EXCEPT ![s] = Blank], L) :
                        L \in EndLeases(conf, clients, leases, {s})} : s \in oldest}

\* server_adopt_tcp(): slot s takes the connection, the slot that
\* connection got at accept() is freed
AdoptTcp(s, from) ==
    IF ~Tcp \/ clients[s].addr = from THEN clients
    ELSE [t \in Slots |-> IF t = s THEN [clients[s] EXCEPT !.addr = from]
                          ELSE IF clients[t].addr = from THEN Free
                          ELSE clients[t]]

AutoEntryFor(id, from) ==
    LET known == FindById(clients, id)
        by_addr == FindByAddr(clients, from)
    IN IF conf.deny /\ id \notin conf.listed THEN {}
       ELSE IF known # NoSlot
            THEN {Claim(known, FALSE, AdoptTcp(known, from), leases)}
       ELSE IF Tcp /\ by_addr # NoSlot
            THEN {Claim(by_addr, FALSE, clients, leases)}
       ELSE AllocClient

\* Mutant: the address is anybody's
InUse_Never(by_ip, by_addr, id, key) == FALSE

\* The live client of slot by_ip keeps its address: only the same manual
\* client, by its ID and key or its source, may take the entry over
InUse(by_ip, by_addr, id, key) ==
    /\ by_ip # NoSlot
    /\ \/ clients[by_ip].auto
       \/ /\ by_ip # by_addr
          /\ clients[by_ip].id # id \/ clients[by_ip].psk # key

ManualEntryFor(id, key, want, from) ==
    LET by_addr == FindByAddr(clients, from)
        by_ip == FindByIp(clients, want)
        reserved == by_ip # NoSlot /\ clients[by_ip].ip # want
        leased == \E l \in LeasesOfIp(leases, want) : l.id # id /\ Young(l)
        own == by_ip # NoSlot /\ \/ by_addr \in {NoSlot, by_ip}
                                 \/ Tcp /\ ~clients[by_addr].registered
        claims == IF own THEN {Claim(by_ip, FALSE, AdoptTcp(by_ip, from), leases)}
                  ELSE IF by_addr # NoSlot /\ (Tcp \/ clients[by_addr].cur = NoAddr)
                       THEN {Claim(by_addr, FALSE, clients, leases)}
                  ELSE AllocClient
    IN IF reserved \/ InUse(by_ip, by_addr, id, key) \/ leased THEN {}
       ELSE {[c EXCEPT !.table[c.slot].ip = want] : c \in claims}

----------------------------------------------------------------------------
(* server_build_config() and what it calls: the address an auto client is  *)
(* given                                                                   *)

\* Mutant: without server_lease_allows()
IpUsable_Leased(c, E, id, ip) ==
    /\ ip \in conf.pool /\ ip # TunnelIp /\ ProfileOwner(conf, ip) = NoId
    /\ FindByIp(E, ip) \in {NoSlot, c.slot}

\* server_ip_usable() for the slot of claim c, in table E
IpUsable(c, E, id, ip) ==
    /\ ip \in conf.pool /\ ip # TunnelIp /\ ProfileOwner(conf, ip) = NoId
    /\ FindByIp(E, ip) \in {NoSlot, c.slot}
    /\ \A l \in LeasesOfIp(c.leases, ip) : l.id = id

\* server_auto_pool_take(): a usable address (any: the cursor is not
\* modelled), else that of the oldest lease past LeaseMin
PoolTake(c, E, id) ==
    LET free == {ip \in conf.pool : IpUsable(c, E, id, ip)}
        old == {l \in c.leases :
                   /\ l.ip \in conf.pool \ {TunnelIp} /\ ~Young(l)
                   /\ ProfileOwner(conf, l.ip) = NoId
                   /\ FindByIp(E, l.ip) \in {NoSlot, c.slot}}
    IN IF pool_full = conf.pool /\ pool_full # {} THEN {}
       ELSE IF free # {} THEN free
       ELSE {l.ip : l \in {o \in old : \A p \in old : o.since <= p.since}}

\* The address a new entry starts from: the one leased to its ID, else the
\* one the client asks for (its previous one)
StartIp(c, E, r, id) ==
    LET mine == {l.ip : l \in LeasesOfId(c.leases, id)}
        ok == {ip \in mine : IpUsable(c, E, id, ip)}
    IN IF E[c.slot].ip # NoAddr THEN E[c.slot].ip
       ELSE IF ok # {} THEN CHOOSE ip \in ok : TRUE
       ELSE IF IpUsable(c, E, id, r.want) THEN r.want
       ELSE NoAddr

\* The addresses the pool can give; none: the handshake fails
PoolOffers(c, E, r, id) ==
    LET ip == StartIp(c, E, r, id)
        given == IF E[c.slot].pending # NoAddr THEN E[c.slot].pending ELSE ip
        takes == ~Holding /\ ~IpUsable(c, E, id, given) /\ ~IpUsable(c, E, id, ip)
    IN IF IpUsable(c, E, id, given) THEN {given}
       ELSE IF IpUsable(c, E, id, ip) THEN {ip}
       ELSE IF takes THEN PoolTake(c, E, id) ELSE {}

\* Mutant: the new address is taken at once
AssignIp_Now(e, ip) == [e EXCEPT !.pending = NoAddr, !.ip = ip]

\* server_assign_ip(): with a working session the new address is pending
AssignIp(e, ip) ==
    IF e.cur # NoAddr /\ e.ip # NoAddr /\ ip # e.ip
    THEN [e EXCEPT !.pending = ip]
    ELSE [e EXCEPT !.pending = NoAddr, !.ip = ip]

----------------------------------------------------------------------------
(* server_handle_init() *)

Requests == [auto: {TRUE}, id: AutoIds, key: Keys, want: AddrOrNone] \cup
            [auto: {FALSE}, id: ManualIds \cup {NoId}, key: Keys, want: Addrs]

\* What the clients may send.  A client is in one mode (a key that names an
\* auto client is not used by a manual one); over TCP a handshake comes on an
\* open connection, which is one client's (client.c keeps ID and mode while
\* connected).
CanSend(r, from) ==
    /\ ~r.auto => ClaimedId(r) \notin AutoIds
    /\ Tcp => \E s \in Slots :
                 /\ clients[s].active /\ clients[s].addr = from
                 /\ clients[s].registered => /\ clients[s].auto = r.auto
                                             /\ clients[s].id = ClaimedId(r)

\* Mutant: not checked
ProfileIpInUse_Never(id) == FALSE

\* Never one address for two live clients: id's profile address is another's
ProfileIpInUse(id) ==
    LET holder == FindByIp(clients, ProfileIp(conf, id))
    IN holder # NoSlot /\ clients[holder].id # id

\* The claims of a handshake that gets as far as server_entry_for()
EntryFor(r, from) ==
    IF ~RegisterAllowed(r) \/ (r.auto /\ ProfileIpInUse(r.id)) THEN {}
    ELSE IF r.auto THEN AutoEntryFor(r.id, from)
    ELSE ManualEntryFor(ClaimedId(r), r.key, r.want, from)

\* The claimed entry before its address is settled.  A UDP entry with a
\* working session keeps its source address until the client confirms.
Entered(c, r, from) ==
    [c.table[c.slot] EXCEPT
        !.addr = IF c.table[c.slot].cur = NoAddr \/ Tcp THEN from ELSE @,
        !.last_seen = now, !.auto = r.auto, !.id = ClaimedId(r)]

WithEntry(c, e) == [c.table EXCEPT ![c.slot] = e]

\* The addresses the reply can carry; none: no configuration
Offers(c, r, from) ==
    IF ~r.auto THEN {r.want}
    ELSE IF ProfileIp(conf, r.id) # NoAddr THEN {ProfileIp(conf, r.id)}
    ELSE PoolOffers(c, WithEntry(c, Entered(c, r, from)), r, r.id)

\* The entry once the reply with address ip is out: with a current session
\* the new one waits in next until the client's first packet on it
Answered(c, r, from, ip) ==
    LET e == Entered(c, r, from)
        a == IF r.auto THEN AssignIp(e, ip) ELSE [e EXCEPT !.pending = NoAddr]
        reg == [a EXCEPT !.registered = TRUE, !.psk = r.key]
    IN IF e.cur = NoAddr THEN [reg EXCEPT !.cur = ip]
       ELSE [reg EXCEPT !.next = ip, !.next_born = now]

\* Mutant: only the lease of the client's ID goes
LeasesAnswered_ById(L, e) == IF e.auto THEN L \ LeasesOfId(L, e.id) ELSE L

\* An auto client that has its address has no lease on it, nor has its ID;
\* a pending address keeps its old lease until the client confirms it
LeasesAnswered(L, e) ==
    IF e.auto THEN L \ (LeasesOfId(L, e.id) \cup LeasesOfIp(L, e.ip)) ELSE L

AnswerInit(r, from) ==
    /\ CanSend(r, from)
    /\ \E c \in EntryFor(r, from) : \E ip \in Offers(c, r, from) :
          LET e == Answered(c, r, from, ip)
          IN /\ clients' = WithEntry(c, e)
             /\ leases' = LeasesAnswered(c.leases, e)
    /\ UNCHANGED <<conf, now, pool_full>>

\* The failure path: no address, no random bytes, or the reply not sent.  A
\* fresh slot is wiped; another entry gets its addresses and sessions back.
FailInit(r, from) ==
    /\ CanSend(r, from)
    /\ \E c \in EntryFor(r, from) :
          /\ clients' = WithEntry(c, IF c.fresh THEN Free ELSE Entered(c, r, from))
          /\ leases' = c.leases
          /\ pool_full' = IF Offers(c, r, from) = {} /\ ~Holding
                          THEN conf.pool ELSE pool_full
    /\ UNCHANGED <<conf, now>>

----------------------------------------------------------------------------
(* server_handle_data(): an authentic packet on a session of slot s *)

DataOk(s, from) == clients[s].active /\ (Tcp => clients[s].addr = from)

Seen(e, from) == [e EXCEPT !.addr = from, !.last_seen = now]

\* On the current session, or on the previous one while it receives
HandleData(s, from) ==
    /\ DataOk(s, from)
    /\ \/ clients[s].cur # NoAddr
       \/ clients[s].prev # NoAddr /\ now <= clients[s].prev_until
    /\ clients' = [clients EXCEPT ![s] = Seen(@, from)]
    /\ UNCHANGED <<leases, conf, now, pool_full>>

\* The first packet on the next session: it becomes current, the old one
\* goes on receiving for a while, a pending address counts now
HandleFirstData(s, from) ==
    LET e == clients[s]
        moves == e.pending # NoAddr
    IN /\ DataOk(s, from) /\ e.next # NoAddr
       /\ clients' = [clients EXCEPT ![s] =
             [Seen(e, from) EXCEPT
                !.prev = e.cur, !.prev_until = now + Grace, !.prev_ip = e.ip,
                !.cur = e.next, !.next = NoAddr, !.next_born = 0,
                !.ip = IF moves THEN e.pending ELSE @, !.pending = NoAddr]]
       /\ leases' = IF moves THEN leases \ LeasesOfIp(leases, e.pending)
                              ELSE leases
       /\ UNCHANGED <<conf, now, pool_full>>

----------------------------------------------------------------------------
(* The rest of the event loop *)

\* server_expire_clients() for one slot: old sessions go first
Aged(e) ==
    LET p == IF e.prev # NoAddr /\ now > e.prev_until
             THEN [e EXCEPT !.prev = NoAddr, !.prev_until = 0, !.prev_ip = NoAddr]
             ELSE e
    IN IF p.next # NoAddr /\ now - p.next_born > Grace
       THEN [p EXCEPT !.next = NoAddr, !.next_born = 0, !.pending = NoAddr]
       ELSE p

Preauth(e) == Tcp /\ e.active /\ ~e.registered

Silent(e) ==
    e.active /\ IF Preauth(e) THEN now - e.connected > PreauthTimeout
                              ELSE now - e.last_seen > ClientTimeout

ExpireClients ==
    LET aged == [s \in Slots |-> Aged(clients[s])]
        dead == {s \in Slots : Silent(clients[s])}
    IN /\ clients' = Wiped(aged, dead)
       /\ leases' \in EndLeases(conf, aged, leases, dead)
       /\ UNCHANGED <<conf, now, pool_full>>

\* Mutant: not bounded by the number of slots
PreauthLimit_Max == PreauthMax

\* preauth_max: with few slots, at most half of them
PreauthLimit ==
    LET half == Cardinality(Slots) \div 2
    IN IF half >= PreauthMax THEN PreauthMax ELSE IF half = 0 THEN 1 ELSE half

\* drain_tcp_server_accept(): one connection.  (The limit per source address
\* only refuses connections: it is not modelled.)
AcceptTcp(p) ==
    LET pre == {s \in Slots : Preauth(clients[s])}
        past == {s \in pre : now - clients[s].connected >= PreauthGrace}
        oldest == {s \in past : \A t \in past :
                       clients[s].connected <= clients[t].connected}
    IN /\ Tcp /\ \A s \in Slots : clients[s].addr # p
       /\ \E closed \in IF Cardinality(pre) < PreauthLimit THEN {{}}
                         ELSE {{s} : s \in oldest} :
             LET left == Wiped(clients, closed)
                 conn == [Blank EXCEPT !.addr = p, !.last_seen = now, !.connected = now]
                 free == {s \in Slots : ~left[s].active}
             IN \E s \in free : clients' = [left EXCEPT ![s] = conn]
       /\ UNCHANGED <<leases, conf, now, pool_full>>

\* drain_tcp_client_read(): the connection closed
CloseTcp(s) ==
    /\ Tcp /\ clients[s].active
    /\ clients' = Wiped(clients, {s})
    /\ leases' \in EndLeases(conf, clients, leases, {s})
    /\ UNCHANGED <<conf, now, pool_full>>

\* server_revalidate_profile_addresses() for an entry that stays
Withdrawn(c, e) ==
    IF e.active /\ e.registered /\ ProfileOwner(c, e.pending) \notin {NoId, e.id}
    THEN [e EXCEPT !.pending = NoAddr, !.next = NoAddr, !.next_born = 0]
    ELSE e

\* ... and for one whose address is now another client's.  A manual client
\* without an ID may be the profile's own device: it stays.
Displaced(c, e) ==
    /\ e.active /\ e.registered
    /\ ProfileOwner(c, e.ip) \notin {NoId, e.id}
    /\ e.auto \/ e.id # NoId

\* Mutant: the keys are not revalidated
Revoked_NoKeys(c, e) == e.active /\ c.deny /\ e.auto /\ e.id \notin c.listed

\* server_revalidate_keys(), server_revalidate_unknown_clients()
Revoked(c, e) ==
    /\ e.active
    /\ \/ e.registered /\ ~KeyAllowed(c, e)
       \/ c.deny /\ e.auto /\ e.id \notin c.listed

\* A reload that succeeds: camex_run() puts c in force and revalidates the
\* keys, the unknown IDs and the profile addresses
Reload(c) ==
    LET ended == {s \in Slots : Revoked(c, clients[s])}
        displaced == {s \in Slots : Displaced(c, clients[s])}
    IN /\ conf' = c
       /\ clients' = Wiped([s \in Slots |-> Withdrawn(c, clients[s])],
                           ended \cup displaced)
       /\ leases' \in EndLeases(c, clients, leases, ended)
       /\ UNCHANGED <<now, pool_full>>

Tick ==
    /\ now < MaxNow
    /\ now' = now + 1
    /\ pool_full' = {}
    /\ UNCHANGED <<clients, leases, conf>>

----------------------------------------------------------------------------
Init ==
    /\ clients = [s \in Slots |-> Free]
    /\ leases = {}
    /\ conf \in Configs
    /\ now = 0
    /\ pool_full = {}

Next ==
    \/ \E r \in Requests, from \in Peers : AnswerInit(r, from) \/ FailInit(r, from)
    \/ \E s \in Slots, from \in Peers : HandleData(s, from) \/ HandleFirstData(s, from)
    \/ ExpireClients
    \/ \E p \in Peers : AcceptTcp(p)
    \/ \E s \in Slots : CloseTcp(s)
    \/ \E c \in Configs : Reload(c)
    \/ Tick

Spec == Init /\ [][Next]_vars

----------------------------------------------------------------------------
(* Properties *)

\* The types of the variables.
TypeOK ==
    /\ clients \in [Slots -> Entry]
    /\ leases \subseteq Lease
    /\ conf \in Configs
    /\ now \in Nat
    /\ pool_full \subseteq Addrs

\* An address an auto client holds (its current one, one offered to it, the
\* one its previous session still sends from) is held by nobody else: the
\* packets for it reach that client (server_find_by_ip()).
AddressHeldOnce ==
    \A s, t \in Slots : \A ip \in Addrs :
        s # t /\ HoldsIp(clients[s], ip) /\ HoldsIp(clients[t], ip)
            => ~clients[s].auto /\ ~clients[t].auto

\* An auto client sends from the address its session's CONFIG gave it, and
\* server_handle_data() takes its packets from that address only: the two
\* agree on every session, through offers, failures and withdrawals.
SessionAddress ==
    \A s \in Slots : LET e == clients[s] IN
        e.registered /\ e.auto =>
            /\ e.cur = e.ip /\ e.ip # NoAddr
            /\ e.next # NoAddr =>
                   e.next = IF e.pending # NoAddr THEN e.pending ELSE e.ip
            /\ e.pending # NoAddr => e.next # NoAddr
            /\ e.prev # NoAddr => e.prev_ip = e.prev

\* A live auto client has no lease kept for its ID and none on its address,
\* an address has one lease, an ID one to return to: the lease table's
\* lookups (server_lease_by_ip(), server_lease_by_id()) have one answer.
LeaseTableSound ==
    /\ \A s \in Slots : clients[s].registered /\ clients[s].auto =>
           /\ LeasesOfId(leases, clients[s].id) = {}
           /\ LeasesOfIp(leases, clients[s].ip) = {}
    /\ \A l, m \in leases : l # m =>
           l.ip # m.ip /\ (l.id # m.id \/ l.prev \/ m.prev)

\* The address of an auto client that is gone is kept for it: within
\* LeaseMin nobody else comes to hold it and its lease goes only with the
\* client's return, unless a [client ID] block has the address, or had it
\* when it was offered to the client that now confirms it.  (A reload that
\* made the pool smaller can leave leases outside it: with them the table may
\* have no room for all, and server_lease_add() says so in the log.)
LeaseHonoured ==
    [][(\A m \in leases : m.ip \in conf'.pool) =>
       \A l \in leases :
          Young(l) /\ ProfileOwner(conf, l.ip) = NoId
                   /\ ProfileOwner(conf', l.ip) = NoId =>
            /\ \A s \in Slots :
                   HoldsIp(clients'[s], l.ip) /\ ~HoldsIp(clients[s], l.ip)
                      => clients'[s].id = l.id
            /\ \/ \E m \in leases' : m.id = l.id /\ m.ip = l.ip
               \/ \E s \in Slots : HoldsIp(clients[s], l.ip)
               \/ \E s \in Slots : /\ clients'[s].id = l.id /\ clients'[s].auto
                                   /\ clients'[s].registered]_vars

\* However an auto client's entry ends (silence, eviction, a closed
\* connection, a reload), its pool address is leased to it, unless a
\* [client ID] block now has the address.
EndLeavesLease ==
    [][\A s \in Slots : LET e == clients[s] IN
          /\ e.registered /\ e.auto /\ e.ip \in conf.pool \cap conf'.pool
          /\ ProfileOwner(conf', e.ip) = NoId
          /\ ~\E t \in Slots : clients'[t].registered /\ clients'[t].id = e.id
          => \E l \in leases' : l.id = e.id /\ l.ip = e.ip]_vars

\* While the server waits for returning clients after its start, a slot is
\* taken from nobody, and a new auto client without a block gets no address
\* but the one it asks for or the one leased to it.
HoldRespected ==
    [][now < PoolHold => \A r \in Requests, from \in Peers :
          AnswerInit(r, from) =>
             /\ \A s \in Slots : clients[s].registered =>
                   \E t \in Slots : clients'[t].registered /\ clients'[t].id = clients[s].id
             /\ r.auto /\ ProfileIp(conf, r.id) = NoAddr
                  /\ FindById(clients, r.id) = NoSlot
                => \A t \in Slots : clients'[t].id = r.id =>
                        \/ clients'[t].ip = r.want
                        \/ \E l \in leases : l.id = r.id /\ l.ip = clients'[t].ip]_vars

\* Connections that have not registered never fill the table (#75): they
\* are at most half of the slots, or one.
PreauthBounded ==
    LET pre == {s \in Slots : Preauth(clients[s])}
    IN Cardinality(pre) <= 1 \/ 2 * Cardinality(pre) <= Cardinality(Slots)

\* No session lives under a key that is not in the keystore any more: a
\* reload that removes or changes a key ends what it opened, and no handshake
\* that fails later puts an old key back (#16).
SessionKeyListed ==
    \A s \in Slots : clients[s].registered => InKeystore(conf, clients[s].psk)

\* ... and ("Addresses this handshake gave or made pending are not kept, [...]:
\* the entry keeps what it had"): a client that stays holds no new address
\* and is not taken for another one.
FailKeepsEntry ==
    [][\A r \in Requests, from \in Peers : FailInit(r, from) =>
          \A s \in Slots : clients[s].registered /\ clients'[s].registered =>
             /\ clients'[s].id = clients[s].id
             /\ \A ip \in Addrs : HoldsIp(clients'[s], ip) => HoldsIp(clients[s], ip)]_vars

=============================================================================
