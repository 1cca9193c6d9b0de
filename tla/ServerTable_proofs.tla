------------------------ MODULE ServerTable_proofs ------------------------
(***************************************************************************)
(* Theorems about ServerTable, for every value of its constants.           *)
(*                                                                         *)
(* Both invariants follow from what a handshake may do to the table: the   *)
(* claim of server_entry_for() (AllocClient, AutoEntryFor, ManualEntryFor) *)
(* leaves every other entry as it was but for its source address, or wipes *)
(* it.  The lemmas say so once; the theorems have a step for each action.  *)
(***************************************************************************)
EXTENDS ServerTable, FiniteSetTheorems, TLAPS

----------------------------------------------------------------------------
(* Lookups and single entries *)

\* A lookup returns one of the slots it was asked about, or NoSlot.
LEMMA SomeSlotType ==
    ASSUME NEW S PROVE SomeSlot(S) \in S \cup {NoSlot}
BY DEF SomeSlot

\* The three lookups return slots.
LEMMA LookupType ==
    ASSUME NEW E
    PROVE  /\ \A ip : FindByIp(E, ip) \in Slots \cup {NoSlot}
           /\ \A id : FindById(E, id) \in Slots \cup {NoSlot}
           /\ \A from : FindByAddr(E, from) \in Slots \cup {NoSlot}
<1>1. ASSUME NEW ip PROVE FindByIp(E, ip) \in Slots \cup {NoSlot}
  <2> DEFINE owners == {s \in Slots : HoldsIp(E[s], ip) /\ E[s].ip = ip}
             holders == {s \in Slots : HoldsIp(E[s], ip)}
             S == IF owners # {} THEN owners ELSE holders
  <2>1. S \subseteq Slots
    OBVIOUS
  <2>2. FindByIp(E, ip) = SomeSlot(S)
    BY DEF FindByIp
  <2> QED
    BY <2>1, <2>2, SomeSlotType
<1>2. ASSUME NEW id PROVE FindById(E, id) \in Slots \cup {NoSlot}
  <2> DEFINE S == {s \in Slots : E[s].active /\ E[s].id = id}
  <2>1. FindById(E, id) = SomeSlot(S) /\ S \subseteq Slots
    BY DEF FindById
  <2> QED
    BY <2>1, SomeSlotType
<1>3. ASSUME NEW from PROVE FindByAddr(E, from) \in Slots \cup {NoSlot}
  <2> DEFINE S == {s \in Slots : E[s].active /\ E[s].addr = from}
  <2>1. FindByAddr(E, from) = SomeSlot(S) /\ S \subseteq Slots
    BY DEF FindByAddr
  <2> QED
    BY <2>1, SomeSlotType
<1> QED
  BY <1>1, <1>2, <1>3

\* A wiped slot and a slot just taken are entries.
LEMMA BlankType == Free \in Entry /\ Blank \in Entry
BY DEF Free, Blank, Entry, AddrOrNone

\* The ID a handshake is for.
LEMMA ClaimedIdType ==
    ASSUME conf \in Configs, NEW r \in Requests
    PROVE  ClaimedId(r) \in Ids \cup {NoId}
<1>1. conf \in Config
  BY TableAssumption
<1>2. r.id \in Ids \cup {NoId}
  BY DEF Requests, Ids
<1>3. conf.listed \subseteq Ids
  BY <1>1 DEF Config
<1>4. KeyOwner(conf, r.key) \in Ids \cup {NoId}
  BY <1>3 DEF KeyOwner
<1> QED
  BY <1>2, <1>4 DEF ClaimedId

\* The address of a block.
LEMMA ProfileIpType ==
    ASSUME conf \in Configs, NEW id
    PROVE  ProfileIp(conf, id) \in AddrOrNone
<1>1. conf \in Config
  BY TableAssumption
<1> QED
  BY <1>1 DEF Config, ProfileIp, AddrOrNone

----------------------------------------------------------------------------
(* Leases *)

\* A slot that ends leaves well-formed leases: its address is a pool one.
LEMMA LeasesLeftType ==
    ASSUME NEW c \in Configs, NEW e \in Entry, now \in Nat
    PROVE  LeasesLeft(c, e) \subseteq Lease
<1> DEFINE keeps(ip) == ip \in c.pool /\ ProfileOwner(c, ip) = NoId
           lease(ip, prev) == [id |-> e.id, ip |-> ip, since |-> now, prev |-> prev]
           own == {lease(ip, FALSE) : ip \in {x \in {e.ip} : keeps(x)}}
           old == {lease(ip, TRUE) : ip \in {x \in {e.prev_ip} :
                       e.prev # NoAddr /\ x # e.ip /\ keeps(x)}}
<1>1. c.pool \subseteq Addrs
  BY TableAssumption DEF Config
<1>2. CASE e.active /\ e.registered /\ e.auto /\ e.id # NoId
  <2>1. e.id \in Ids
    BY <1>2 DEF Entry
  <2>2. \A ip \in c.pool : \A prev \in BOOLEAN : lease(ip, prev) \in Lease
    BY <1>1, <2>1 DEF Lease
  <2>3. own \subseteq Lease /\ old \subseteq Lease
    BY <2>2
  <2>4. LeasesLeft(c, e) = own \cup old
    BY <1>2 DEF LeasesLeft
  <2> QED
    BY <2>3, <2>4
<1>3. CASE ~(e.active /\ e.registered /\ e.auto /\ e.id # NoId)
  BY <1>3 DEF LeasesLeft
<1> QED
  BY <1>2, <1>3

\* server_lease_add() only keeps leases and adds the new ones.
LEMMA LeaseAddsType ==
    ASSUME NEW c, NEW L \in SUBSET Lease, NEW new \in SUBSET Lease,
           NEW M \in LeaseAdds(c, L, new)
    PROVE  M \subseteq Lease
BY DEF LeaseAdds

\* The leases after the slots S end.
LEMMA EndLeasesType ==
    ASSUME NEW c \in Configs, NEW E \in [Slots -> Entry], now \in Nat,
           NEW L \in SUBSET Lease, NEW S \in SUBSET Slots,
           NEW M \in EndLeases(c, E, L, S)
    PROVE  M \subseteq Lease
<1> DEFINE new == UNION {LeasesLeft(c, E[s]) : s \in S}
<1>1. \A s \in S : LeasesLeft(c, E[s]) \subseteq Lease
  BY LeasesLeftType
<1>2. new \subseteq Lease
  BY <1>1
<1>3. M \in LeaseAdds(c, L, new)
  BY DEF EndLeases
<1> QED
  BY <1>2, <1>3, LeaseAddsType

----------------------------------------------------------------------------
(* Claims *)

\* A well-formed claim.
ClaimType == [slot: Slots, fresh: BOOLEAN, table: [Slots -> Entry],
              leases: SUBSET Lease]

\* What makes a claim well-formed.
LEMMA ClaimOfType ==
    ASSUME NEW s \in Slots, NEW f \in BOOLEAN, NEW E \in [Slots -> Entry],
           NEW L \in SUBSET Lease
    PROVE  Claim(s, f, E, L) \in ClaimType
BY DEF Claim, ClaimType

\* server_alloc_client() takes a free slot or evicts one client.
LEMMA AllocClientType ==
    ASSUME TypeOK, NEW c \in AllocClient
    PROVE  c \in ClaimType
<1> DEFINE free == {s \in Slots : ~clients[s].active}
           oldest == {s \in Slots : \A t \in Slots :
                          clients[s].last_seen <= clients[t].last_seen}
           blank(s) == [clients EXCEPT ![s] = Blank]
<1>1. \A s \in Slots : blank(s) \in [Slots -> Entry]
  BY BlankType DEF TypeOK
<1>2. CASE free # {}
  <2>1. c \in {Claim(s, TRUE, blank(s), leases) : s \in free}
    BY <1>2 DEF AllocClient
  <2>2. leases \in SUBSET Lease
    BY DEF TypeOK
  <2>3. PICK s \in free : c = Claim(s, TRUE, blank(s), leases)
    BY <2>1
  <2> QED
    BY <2>2, <2>3, <1>1, ClaimOfType
<1>3. CASE free = {}
  <2>1. c \in UNION {{Claim(s, TRUE, blank(s), L) :
                        L \in EndLeases(conf, clients, leases, {s})} : s \in oldest}
    BY <1>3 DEF AllocClient
  <2>2. PICK s \in oldest : \E L \in EndLeases(conf, clients, leases, {s}) :
                                c = Claim(s, TRUE, blank(s), L)
    BY <2>1
  <2>3. PICK L \in EndLeases(conf, clients, leases, {s}) :
                 c = Claim(s, TRUE, blank(s), L)
    BY <2>2
  <2>4. L \subseteq Lease
    <3>1. {s} \in SUBSET Slots
      OBVIOUS
    <3> QED
      BY <3>1, EndLeasesType DEF TypeOK
  <2> QED
    BY <2>3, <2>4, <1>1, ClaimOfType
<1> QED
  BY <1>2, <1>3

\* server_adopt_tcp() moves a connection between entries.
LEMMA AdoptTcpType ==
    ASSUME TypeOK, NEW s \in Slots, NEW from \in Peers
    PROVE  AdoptTcp(s, from) \in [Slots -> Entry]
<1>1. \A t \in Slots : [clients[t] EXCEPT !.addr = from] \in Entry
  BY DEF TypeOK, Entry
<1> QED
  BY <1>1, BlankType DEF TypeOK, AdoptTcp

\* server_entry_for() for an auto client.
LEMMA AutoEntryForType ==
    ASSUME TypeOK, NEW id, NEW from \in Peers, NEW c \in AutoEntryFor(id, from)
    PROVE  c \in ClaimType
<1> DEFINE known == FindById(clients, id)
           by_addr == FindByAddr(clients, from)
<1>1. known \in Slots \cup {NoSlot} /\ by_addr \in Slots \cup {NoSlot}
  BY LookupType
<1>2. \/ known \in Slots /\ c = Claim(known, FALSE, AdoptTcp(known, from), leases)
      \/ by_addr \in Slots /\ c = Claim(by_addr, FALSE, clients, leases)
      \/ c \in AllocClient
  BY <1>1 DEF AutoEntryFor
<1>3. clients \in [Slots -> Entry] /\ leases \in SUBSET Lease
  BY DEF TypeOK
<1>4. known \in Slots => AdoptTcp(known, from) \in [Slots -> Entry]
  BY AdoptTcpType
<1> QED
  BY <1>2, <1>3, <1>4, ClaimOfType, AllocClientType

\* server_entry_for() for a manual client: the slot is given the address.
LEMMA ManualEntryForType ==
    ASSUME TypeOK, NEW id, NEW key, NEW want \in Addrs, NEW from \in Peers,
           NEW c \in ManualEntryFor(id, key, want, from)
    PROVE  c \in ClaimType
<1> DEFINE by_addr == FindByAddr(clients, from)
           by_ip == FindByIp(clients, want)
<1>1. by_ip \in Slots \cup {NoSlot} /\ by_addr \in Slots \cup {NoSlot}
  BY LookupType
<1>2. PICK d : /\ \/ by_ip \in Slots /\ d = Claim(by_ip, FALSE, AdoptTcp(by_ip, from), leases)
                  \/ by_addr \in Slots /\ d = Claim(by_addr, FALSE, clients, leases)
                  \/ d \in AllocClient
               /\ c = [d EXCEPT !.table[d.slot].ip = want]
  BY <1>1 DEF ManualEntryFor
<1>3. d \in ClaimType
  <2>1. clients \in [Slots -> Entry] /\ leases \in SUBSET Lease
    BY DEF TypeOK
  <2>2. by_ip \in Slots => AdoptTcp(by_ip, from) \in [Slots -> Entry]
    BY AdoptTcpType
  <2> QED
    BY <1>2, <2>1, <2>2, ClaimOfType, AllocClientType
<1>4. [d.table[d.slot] EXCEPT !.ip = want] \in Entry
  BY <1>3 DEF ClaimType, Entry, AddrOrNone
<1> QED
  BY <1>2, <1>3, <1>4 DEF ClaimType

\* The claims of server_handle_init().
LEMMA EntryForType ==
    ASSUME TypeOK, NEW r \in Requests, NEW from \in Peers, NEW c \in EntryFor(r, from)
    PROVE  c \in ClaimType
<1>1. ~r.auto => r.want \in Addrs
  BY DEF Requests
<1>2. \/ c \in AutoEntryFor(r.id, from)
      \/ ~r.auto /\ c \in ManualEntryFor(ClaimedId(r), r.key, r.want, from)
  BY DEF EntryFor
<1> QED
  BY <1>1, <1>2, AutoEntryForType, ManualEntryForType

----------------------------------------------------------------------------
(* The answered entry *)

\* The claimed entry with the client's ID and source address.
LEMMA EnteredType ==
    ASSUME TypeOK, NEW r \in Requests, NEW from \in Peers, NEW c \in ClaimType
    PROVE  Entered(c, r, from) \in Entry
<1> DEFINE e == c.table[c.slot]
           a == IF e.cur = NoAddr \/ Tcp THEN from ELSE e.addr
<1>1. e \in Entry
  BY DEF ClaimType
<1>2. ClaimedId(r) \in Ids \cup {NoId}
  BY ClaimedIdType DEF TypeOK
<1>3. r.auto \in BOOLEAN
  BY DEF Requests
<1>4. Entered(c, r, from) = [e EXCEPT !.addr = a, !.last_seen = now, !.auto = r.auto,
                                      !.id = ClaimedId(r)]
  BY DEF Entered
<1>5. a \in Peers \cup {NoPeer} /\ now \in Nat
  BY <1>1 DEF Entry, TypeOK
<1> HIDE DEF e, a
<1> QED
  BY <1>1, <1>2, <1>3, <1>4, <1>5 DEF Entry

\* A table with one entry replaced.
LEMMA WithEntryType ==
    ASSUME NEW c \in ClaimType, NEW e \in Entry
    PROVE  WithEntry(c, e) \in [Slots -> Entry]
BY DEF ClaimType, WithEntry

\* The pool gives tunnel addresses.
LEMMA PoolOffersType ==
    ASSUME TypeOK, NEW c, NEW E, NEW r, NEW id
    PROVE  PoolOffers(c, E, r, id) \subseteq Addrs
<1>1. conf.pool \subseteq Addrs
  BY TableAssumption DEF TypeOK, Config
<1>2. \A ip : IpUsable(c, E, id, ip) => ip \in conf.pool
  BY DEF IpUsable
<1>3. PoolTake(c, E, id) \subseteq conf.pool
  BY DEF PoolTake
<1> DEFINE ip == StartIp(c, E, r, id)
           given == IF E[c.slot].pending # NoAddr THEN E[c.slot].pending ELSE ip
<1>4. \/ PoolOffers(c, E, r, id) = {given} /\ IpUsable(c, E, id, given)
      \/ PoolOffers(c, E, r, id) = {ip} /\ IpUsable(c, E, id, ip)
      \/ PoolOffers(c, E, r, id) \subseteq PoolTake(c, E, id)
  BY DEF PoolOffers
<1> HIDE DEF ip, given
<1> QED
  BY <1>1, <1>2, <1>3, <1>4

\* Every reply carries a tunnel address.
LEMMA OffersType ==
    ASSUME TypeOK, NEW c \in ClaimType, NEW r \in Requests, NEW from \in Peers
    PROVE  Offers(c, r, from) \subseteq Addrs
<1>1. ~r.auto => r.want \in Addrs
  BY DEF Requests
<1>2. ProfileIp(conf, r.id) \in AddrOrNone
  BY ProfileIpType DEF TypeOK
<1> DEFINE pool == PoolOffers(c, WithEntry(c, Entered(c, r, from)), r, r.id)
<1>3. pool \subseteq Addrs
  BY PoolOffersType
<1> QED
  BY <1>1, <1>2, <1>3 DEF Offers, AddrOrNone

\* The entry after the reply.
LEMMA AnsweredType ==
    ASSUME TypeOK, NEW c \in ClaimType, NEW r \in Requests, NEW from \in Peers,
           NEW ip \in Addrs
    PROVE  Answered(c, r, from, ip) \in Entry
<1> DEFINE e == Entered(c, r, from)
           a == IF r.auto THEN AssignIp(e, ip) ELSE [e EXCEPT !.pending = NoAddr]
           reg == [a EXCEPT !.registered = TRUE, !.psk = r.key]
<1>1. \/ Answered(c, r, from, ip) = [reg EXCEPT !.cur = ip]
      \/ Answered(c, r, from, ip) = [reg EXCEPT !.next = ip, !.next_born = now]
  BY DEF Answered
<1>2. e \in Entry
  BY EnteredType
<1> HIDE DEF e
<1>3. a \in Entry
  <2>1. [e EXCEPT !.pending = NoAddr] \in Entry
    BY <1>2 DEF Entry, AddrOrNone
  <2>2. [e EXCEPT !.pending = ip] \in Entry
    BY <1>2 DEF Entry, AddrOrNone
  <2>3. [e EXCEPT !.pending = NoAddr, !.ip = ip] \in Entry
    BY <1>2 DEF Entry, AddrOrNone
  <2> QED
    BY <2>1, <2>2, <2>3 DEF AssignIp
<1> HIDE DEF a
<1>4. r.key \in Keys \cup {NoKey}
  BY DEF Requests
<1>5. reg \in Entry
  BY <1>3, <1>4 DEF Entry
<1> HIDE DEF reg
<1>6. [reg EXCEPT !.cur = ip] \in Entry
  BY <1>5 DEF Entry, AddrOrNone
<1>7. [reg EXCEPT !.next = ip, !.next_born = now] \in Entry
  BY <1>5 DEF Entry, AddrOrNone, TypeOK
<1> QED
  BY <1>1, <1>6, <1>7

----------------------------------------------------------------------------
(* Type correctness *)

\* The types of the server's table hold for every number of slots, clients
\* and addresses, every set of configurations and every time limit.
THEOREM TypeCorrect == Spec => []TypeOK
<1>1. Init => TypeOK
  BY BlankType DEF Init, TypeOK
<1>2. TypeOK /\ [Next]_vars => TypeOK'
  <2> SUFFICES ASSUME TypeOK, [Next]_vars PROVE TypeOK'
    OBVIOUS
  <2>0. conf \in Config /\ Slots # {}
    BY TableAssumption DEF TypeOK
  <2>1. ASSUME NEW r \in Requests, NEW from \in Peers, AnswerInit(r, from)
        PROVE  TypeOK'
    <3>1. PICK c \in EntryFor(r, from) : \E ip \in Offers(c, r, from) :
             /\ clients' = WithEntry(c, Answered(c, r, from, ip))
             /\ leases' = LeasesAnswered(c.leases, Answered(c, r, from, ip))
      BY <2>1 DEF AnswerInit
    <3>2. PICK ip \in Offers(c, r, from) :
             /\ clients' = WithEntry(c, Answered(c, r, from, ip))
             /\ leases' = LeasesAnswered(c.leases, Answered(c, r, from, ip))
      BY <3>1
    <3>3. c \in ClaimType
      BY EntryForType
    <3>4. ip \in Addrs
      BY <3>3, OffersType
    <3>5. Answered(c, r, from, ip) \in Entry
      BY <3>3, <3>4, AnsweredType
    <3>6. clients' \in [Slots -> Entry]
      BY <3>2, <3>3, <3>5, WithEntryType
    <3>7. leases' \subseteq c.leases /\ c.leases \subseteq Lease
      BY <3>2, <3>3 DEF LeasesAnswered, ClaimType
    <3> QED
      BY <2>1, <3>6, <3>7 DEF AnswerInit, TypeOK
  <2>2. ASSUME NEW r \in Requests, NEW from \in Peers, FailInit(r, from)
        PROVE  TypeOK'
    <3>1. PICK c \in EntryFor(r, from) :
             /\ clients' = WithEntry(c, IF c.fresh THEN Free ELSE Entered(c, r, from))
             /\ leases' = c.leases
             /\ pool_full' \in {conf.pool, pool_full}
      BY <2>2 DEF FailInit
    <3>2. c \in ClaimType
      BY EntryForType
    <3>3. (IF c.fresh THEN Free ELSE Entered(c, r, from)) \in Entry
      BY <3>2, EnteredType, BlankType
    <3>4. clients' \in [Slots -> Entry]
      BY <3>1, <3>2, <3>3, WithEntryType
    <3>5. leases' \subseteq Lease
      BY <3>1, <3>2 DEF ClaimType
    <3>6. pool_full' \subseteq Addrs
      BY <2>0, <3>1 DEF Config, TypeOK
    <3> QED
      BY <2>2, <3>4, <3>5, <3>6 DEF FailInit, TypeOK
  <2>3. ASSUME NEW s \in Slots, NEW from \in Peers, HandleData(s, from)
        PROVE  TypeOK'
    <3>1. Seen(clients[s], from) \in Entry
      BY ZenonT(60) DEF Seen, Entry, TypeOK
    <3>2. clients' \in [Slots -> Entry]
      BY <2>3, <3>1 DEF HandleData, TypeOK
    <3> QED
      BY <2>3, <3>2 DEF HandleData, TypeOK
  <2>4. ASSUME NEW s \in Slots, NEW from \in Peers, HandleFirstData(s, from)
        PROVE  TypeOK'
    <3> DEFINE e == clients[s]
               moved == IF e.pending # NoAddr THEN e.pending ELSE e.ip
               after == [Seen(e, from) EXCEPT
                !.prev = e.cur, !.prev_until = now + Grace, !.prev_ip = e.ip,
                !.cur = e.next, !.next = NoAddr, !.next_born = 0,
                !.ip = moved, !.pending = NoAddr]
    <3>1. Seen(e, from) \in Entry /\ e \in Entry
      BY ZenonT(60) DEF Seen, Entry, TypeOK
    <3>2. /\ e.pending \in AddrOrNone /\ e.cur \in AddrOrNone /\ e.ip \in AddrOrNone
          /\ e.next \in AddrOrNone /\ NoAddr \in AddrOrNone /\ now + Grace \in Nat
          /\ moved \in AddrOrNone
      BY <3>1, TableAssumption DEF Entry, AddrOrNone, TypeOK
    <3>3. after \in Entry
      <4> HIDE DEF e, moved
      <4> QED
        BY <3>1, <3>2 DEF Entry
    <3>4. clients' = [clients EXCEPT ![s] = after]
      BY <2>4, <3>1 DEF HandleFirstData, Seen, Entry
    <3>5. clients' \in [Slots -> Entry]
      BY <3>3, <3>4 DEF TypeOK
    <3>6. leases' \subseteq leases
      BY <2>4 DEF HandleFirstData
    <3> QED
      BY <2>4, <3>5, <3>6 DEF HandleFirstData, TypeOK
  <2>5. ASSUME NEW S \in SUBSET Slots, NEW E \in [Slots -> Entry]
        PROVE  Wiped(E, S) \in [Slots -> Entry]
    BY BlankType DEF Wiped
  <2>6. CASE ExpireClients
    <3> DEFINE aged == [s \in Slots |-> Aged(clients[s])]
               dead == {s \in Slots : Silent(clients[s])}
    <3>1. \A e \in Entry : Aged(e) \in Entry
      <4> SUFFICES ASSUME NEW e \in Entry PROVE Aged(e) \in Entry
        OBVIOUS
      <4> DEFINE p == IF e.prev # NoAddr /\ now > e.prev_until
             THEN [e EXCEPT !.prev = NoAddr, !.prev_until = 0, !.prev_ip = NoAddr]
             ELSE e
      <4>1. p \in Entry
        <5>1. [e EXCEPT !.prev = NoAddr, !.prev_until = 0, !.prev_ip = NoAddr] \in Entry
          BY DEF Entry, AddrOrNone
        <5> QED
          BY <5>1
      <4>2. Aged(e) \in {p, [p EXCEPT !.next = NoAddr, !.next_born = 0, !.pending = NoAddr]}
        BY DEF Aged
      <4> HIDE DEF p
      <4>3. [p EXCEPT !.next = NoAddr, !.next_born = 0, !.pending = NoAddr] \in Entry
        BY <4>1, ZenonT(60) DEF Entry, AddrOrNone
      <4> QED
        BY <4>1, <4>2, <4>3
    <3>2. aged \in [Slots -> Entry]
      BY <3>1 DEF TypeOK
    <3>3. clients' = Wiped(aged, dead) /\ leases' \in EndLeases(conf, aged, leases, dead)
      BY <2>6 DEF ExpireClients
    <3> HIDE DEF aged
    <3>4. clients' \in [Slots -> Entry]
      BY <2>5, <3>2, <3>3
    <3>5. leases' \subseteq Lease
      BY <3>2, <3>3, EndLeasesType DEF TypeOK
    <3> QED
      BY <2>6, <3>4, <3>5 DEF ExpireClients, TypeOK
  <2>7. ASSUME NEW p \in Peers, AcceptTcp(p)
        PROVE  TypeOK'
    <3> DEFINE conn == [Blank EXCEPT !.addr = p, !.last_seen = now, !.connected = now]
    <3>1. conn \in Entry
      BY BlankType DEF Entry, TypeOK
    <3>2. PICK closed \in SUBSET Slots, s \in Slots :
             clients' = [Wiped(clients, closed) EXCEPT ![s] = conn]
      BY <2>7 DEF AcceptTcp
    <3>3. Wiped(clients, closed) \in [Slots -> Entry]
      BY <2>5 DEF TypeOK
    <3>4. clients' \in [Slots -> Entry]
      <4> HIDE DEF conn
      <4> QED
        BY <3>1, <3>2, <3>3
    <3> QED
      BY <2>7, <3>4 DEF AcceptTcp, TypeOK
  <2>8. ASSUME NEW s \in Slots, CloseTcp(s)
        PROVE  TypeOK'
    <3>1. clients' = Wiped(clients, {s}) /\ leases' \in EndLeases(conf, clients, leases, {s})
      BY <2>8 DEF CloseTcp
    <3>2. {s} \in SUBSET Slots
      OBVIOUS
    <3>3. clients' \in [Slots -> Entry]
      BY <2>5, <3>1, <3>2 DEF TypeOK
    <3>4. leases' \subseteq Lease
      BY <3>1, <3>2, EndLeasesType DEF TypeOK
    <3> QED
      BY <2>8, <3>3, <3>4 DEF CloseTcp, TypeOK
  <2>9. ASSUME NEW c \in Configs, Reload(c)
        PROVE  TypeOK'
    <3> DEFINE ended == {s \in Slots : Revoked(c, clients[s])}
               displaced == {s \in Slots : Displaced(c, clients[s])}
               stays == [s \in Slots |-> Withdrawn(c, clients[s])]
    <3>1. stays \in [Slots -> Entry]
      <4>1. \A e \in Entry : [e EXCEPT !.pending = NoAddr, !.next = NoAddr,
                                       !.next_born = 0] \in Entry
        BY ZenonT(60) DEF Entry, AddrOrNone
      <4>2. \A e \in Entry : Withdrawn(c, e) \in Entry
        BY <4>1 DEF Withdrawn
      <4> QED
        BY <4>2 DEF TypeOK
    <3>2. clients' = Wiped(stays, ended \cup displaced)
      BY <2>9 DEF Reload
    <3>3. clients' \in [Slots -> Entry]
      <4> HIDE DEF stays
      <4> QED
        BY <2>5, <3>1, <3>2
    <3>4. leases' \subseteq Lease
      BY <2>9, EndLeasesType DEF Reload, TypeOK
    <3> QED
      BY <2>9, <3>3, <3>4 DEF Reload, TypeOK
  <2>10. CASE Tick
    BY <2>10 DEF Tick, TypeOK
  <2>11. CASE UNCHANGED vars
    BY <2>11 DEF vars, TypeOK
  <2> QED
    BY <2>1, <2>2, <2>3, <2>4, <2>6, <2>7, <2>8, <2>9, <2>10, <2>11 DEF Next
<1> QED
  BY <1>1, <1>2, PTL DEF Spec

----------------------------------------------------------------------------
(* No session under a key that is gone *)

\* A registered entry is in use, under a key that is in the keystore.
KeyedEntry(e) == e.registered => e.active /\ InKeystore(conf, e.psk)

KeyedTable(E) == \A s \in Slots : KeyedEntry(E[s])

\* The strengthening: a reload only looks at the entries in use.
KeyInv == TypeOK /\ KeyedTable(clients)

\* What a handshake is given: a slot in use, every key still listed.
KeyedClaim(c) ==
    /\ c \in ClaimType
    /\ c.table[c.slot].active
    /\ KeyedTable(c.table)

\* The lookups return entries in use.
LEMMA LookupActive ==
    ASSUME NEW E
    PROVE  /\ \A ip : FindByIp(E, ip) # NoSlot => E[FindByIp(E, ip)].active
           /\ \A id : FindById(E, id) # NoSlot => E[FindById(E, id)].active
           /\ \A from : FindByAddr(E, from) # NoSlot => E[FindByAddr(E, from)].active
<1>1. ASSUME NEW ip, FindByIp(E, ip) # NoSlot PROVE E[FindByIp(E, ip)].active
  <2> DEFINE owners == {s \in Slots : HoldsIp(E[s], ip) /\ E[s].ip = ip}
             holders == {s \in Slots : HoldsIp(E[s], ip)}
             S == IF owners # {} THEN owners ELSE holders
  <2>1. \A s \in S : E[s].active
    BY DEF HoldsIp
  <2>2. FindByIp(E, ip) = SomeSlot(S)
    BY DEF FindByIp
  <2> HIDE DEF S
  <2> QED
    BY <1>1, <2>1, <2>2, SomeSlotType
<1>2. ASSUME NEW id, FindById(E, id) # NoSlot PROVE E[FindById(E, id)].active
  <2> DEFINE S == {s \in Slots : E[s].active /\ E[s].id = id}
  <2>1. FindById(E, id) = SomeSlot(S) /\ \A s \in S : E[s].active
    BY DEF FindById
  <2> HIDE DEF S
  <2> QED
    BY <1>2, <2>1, SomeSlotType
<1>3. ASSUME NEW from, FindByAddr(E, from) # NoSlot PROVE E[FindByAddr(E, from)].active
  <2> DEFINE S == {s \in Slots : E[s].active /\ E[s].addr = from}
  <2>1. FindByAddr(E, from) = SomeSlot(S) /\ \A s \in S : E[s].active
    BY DEF FindByAddr
  <2> HIDE DEF S
  <2> QED
    BY <1>3, <2>1, SomeSlotType
<1> QED
  BY <1>1, <1>2, <1>3

\* A slot taken by server_alloc_client() is in use and registers nobody.
LEMMA AllocClientKeyed ==
    ASSUME KeyInv, NEW c \in AllocClient
    PROVE  KeyedClaim(c)
<1>1. c \in ClaimType
  BY AllocClientType DEF KeyInv
<1>2. PICK s \in Slots : c.slot = s /\ c.table = [clients EXCEPT ![s] = Blank]
  <2> DEFINE blank(s) == [clients EXCEPT ![s] = Blank]
  <2>1. PICK s \in Slots : \E L : c = Claim(s, TRUE, blank(s), L)
    <3> HIDE DEF blank
    <3> QED
      BY DEF AllocClient, blank
  <2>2. \A E, L : Claim(s, TRUE, E, L).slot = s /\ Claim(s, TRUE, E, L).table = E
    BY DEF Claim
  <2>3. c.slot = s /\ c.table = blank(s)
    <3> HIDE DEF blank
    <3> QED
      BY <2>1, <2>2
  <2> QED
    BY <2>3
<1>3. Blank.active /\ ~Blank.registered
  BY DEF Blank, Free
<1>4. \A t \in Slots : c.table[t] = IF t = s THEN Blank ELSE clients[t]
  BY <1>2 DEF KeyInv, TypeOK
<1> QED
  BY <1>1, <1>2, <1>3, <1>4 DEF KeyedClaim, KeyedTable, KeyedEntry, KeyInv

\* Adopting a connection changes no key and keeps the slot in use.
LEMMA AdoptTcpKeyed ==
    ASSUME KeyInv, NEW s \in Slots, clients[s].active, NEW from \in Peers
    PROVE  KeyedClaim(Claim(s, FALSE, AdoptTcp(s, from), leases))
<1> DEFINE E == AdoptTcp(s, from)
<1>1. E \in [Slots -> Entry] /\ leases \in SUBSET Lease
  BY AdoptTcpType DEF KeyInv, TypeOK
<1>2. Claim(s, FALSE, E, leases) \in ClaimType
  BY <1>1, ClaimOfType
<1>3. ~Free.registered
  BY DEF Free
<1>4. \A t \in Slots : \/ E[t] = clients[t]
                       \/ t = s /\ E[t] = [clients[t] EXCEPT !.addr = from]
                       \/ t # s /\ E[t] = Free
  BY DEF AdoptTcp
<1>5. \A t \in Slots : clients[t] \in Entry
  BY DEF KeyInv, TypeOK
<1>6. \A t \in Slots : LET e == [clients[t] EXCEPT !.addr = from] IN
          /\ e.active = clients[t].active /\ e.registered = clients[t].registered
          /\ e.psk = clients[t].psk
  BY <1>5 DEF Entry
<1>7. E[s].active /\ KeyedTable(E)
  <2> HIDE DEF E
  <2> QED
    BY <1>3, <1>4, <1>6 DEF KeyInv, KeyedTable, KeyedEntry
<1> HIDE DEF E
<1>8. Claim(s, FALSE, E, leases).slot = s /\ Claim(s, FALSE, E, leases).table = E
  BY DEF Claim
<1> QED
  BY <1>2, <1>7, <1>8 DEF KeyedClaim, E

\* The claims of a handshake: its own key is in the keystore too.
LEMMA EntryForKeyed ==
    ASSUME KeyInv, NEW r \in Requests, NEW from \in Peers, NEW c \in EntryFor(r, from)
    PROVE  KeyedClaim(c) /\ InKeystore(conf, r.key)
<1>1. InKeystore(conf, r.key)
  BY DEF EntryFor, RegisterAllowed
<1>2. ASSUME NEW s \in Slots, clients[s].active
      PROVE  KeyedClaim(Claim(s, FALSE, clients, leases))
  <2>1. clients \in [Slots -> Entry] /\ leases \in SUBSET Lease
    BY DEF KeyInv, TypeOK
  <2> QED
    BY <1>2, <2>1, ClaimOfType DEF KeyedClaim, Claim, KeyInv
<1>3. ASSUME NEW id, NEW d \in AutoEntryFor(id, from) PROVE KeyedClaim(d)
  <2> DEFINE known == FindById(clients, id)
             by_addr == FindByAddr(clients, from)
  <2>1. /\ known \in Slots \cup {NoSlot} /\ by_addr \in Slots \cup {NoSlot}
        /\ known # NoSlot => clients[known].active
        /\ by_addr # NoSlot => clients[by_addr].active
    BY LookupType, LookupActive
  <2>2. \/ /\ known \in Slots /\ clients[known].active
           /\ d = Claim(known, FALSE, AdoptTcp(known, from), leases)
        \/ /\ by_addr \in Slots /\ clients[by_addr].active
           /\ d = Claim(by_addr, FALSE, clients, leases)
        \/ d \in AllocClient
    BY <2>1, <1>3 DEF AutoEntryFor
  <2> QED
    BY <2>2, <1>2, AdoptTcpKeyed, AllocClientKeyed
<1>4. ASSUME NEW id, NEW key, NEW want \in Addrs,
             NEW d \in ManualEntryFor(id, key, want, from)
      PROVE  KeyedClaim(d)
  <2> DEFINE by_addr == FindByAddr(clients, from)
             by_ip == FindByIp(clients, want)
  <2>1. /\ by_ip \in Slots \cup {NoSlot} /\ by_addr \in Slots \cup {NoSlot}
        /\ by_ip # NoSlot => clients[by_ip].active
        /\ by_addr # NoSlot => clients[by_addr].active
    BY LookupType, LookupActive
  <2>2. PICK b : /\ \/ /\ by_ip \in Slots /\ clients[by_ip].active
                       /\ b = Claim(by_ip, FALSE, AdoptTcp(by_ip, from), leases)
                    \/ /\ by_addr \in Slots /\ clients[by_addr].active
                       /\ b = Claim(by_addr, FALSE, clients, leases)
                    \/ b \in AllocClient
                 /\ d = [b EXCEPT !.table[b.slot].ip = want]
    BY <2>1, <1>4 DEF ManualEntryFor
  <2>3. KeyedClaim(b)
    BY <2>2, <1>2, AdoptTcpKeyed, AllocClientKeyed
  <2>4. d \in ClaimType
    BY <1>4, ManualEntryForType DEF KeyInv
  <2>5. d.slot = b.slot /\ d.table = [b.table EXCEPT ![b.slot].ip = want]
    BY <2>2, <2>3 DEF KeyedClaim, ClaimType
  <2>6. \A s \in Slots : /\ d.table[s].active = b.table[s].active
                         /\ d.table[s].registered = b.table[s].registered
                         /\ d.table[s].psk = b.table[s].psk
    BY <2>3, <2>5 DEF KeyedClaim, ClaimType, Entry
  <2> QED
    BY <2>3, <2>4, <2>5, <2>6 DEF KeyedClaim, KeyedTable, KeyedEntry, ClaimType
<1>5. ~r.auto => r.want \in Addrs
  BY DEF Requests
<1>6. \/ c \in AutoEntryFor(r.id, from)
      \/ ~r.auto /\ c \in ManualEntryFor(ClaimedId(r), r.key, r.want, from)
  BY DEF EntryFor
<1> QED
  BY <1>1, <1>3, <1>4, <1>5, <1>6

\* The entry a handshake writes into a keyed claim keeps the table keyed:
\* the answered entry has the handshake's key, a failed one its own.
LEMMA HandshakeKeyed ==
    ASSUME KeyInv, NEW r \in Requests, NEW from \in Peers,
           NEW c, KeyedClaim(c), InKeystore(conf, r.key)
    PROVE  /\ KeyedTable(WithEntry(c, Free))
           /\ KeyedTable(WithEntry(c, Entered(c, r, from)))
           /\ \A ip : KeyedTable(WithEntry(c, Answered(c, r, from, ip)))
<1>1. ASSUME NEW e, KeyedEntry(e) PROVE KeyedTable(WithEntry(c, e))
  BY <1>1 DEF KeyedClaim, KeyedTable, WithEntry, ClaimType
<1>2. c.table[c.slot] \in Entry /\ KeyedEntry(c.table[c.slot]) /\ c.table[c.slot].active
  BY DEF KeyedClaim, KeyedTable, ClaimType
<1> DEFINE e == Entered(c, r, from)
<1>3. /\ e.active = c.table[c.slot].active
      /\ e.registered = c.table[c.slot].registered
      /\ e.psk = c.table[c.slot].psk
  BY <1>2 DEF Entered, Entry
<1>4. e \in Entry
  BY EnteredType DEF KeyInv, KeyedClaim
<1>5. ASSUME NEW ip PROVE KeyedEntry(Answered(c, r, from, ip))
  <2> DEFINE a == IF r.auto THEN AssignIp(e, ip) ELSE [e EXCEPT !.pending = NoAddr]
             reg == [a EXCEPT !.registered = TRUE, !.psk = r.key]
             after == IF e.cur = NoAddr THEN [reg EXCEPT !.cur = ip]
                      ELSE [reg EXCEPT !.next = ip, !.next_born = now]
  <2>1. /\ DOMAIN a = DOMAIN e /\ a.active = e.active
        /\ "active" \in DOMAIN e /\ "registered" \in DOMAIN e /\ "psk" \in DOMAIN e
    <3> HIDE DEF e
    <3> QED
      BY <1>4 DEF AssignIp, Entry
  <2>2. a = [x \in DOMAIN a |-> a[x]]
    <3> HIDE DEF e
    <3> QED
      BY <1>4 DEF AssignIp, Entry
  <2>3. reg.active = e.active /\ reg.psk = r.key /\ reg = [x \in DOMAIN e |-> reg[x]]
    <3> HIDE DEF e, a
    <3> QED
      BY <2>1, <2>2
  <2>4. after.active = e.active /\ after.psk = r.key
    <3> HIDE DEF e, reg
    <3> QED
      BY <2>1, <2>3
  <2>5. Answered(c, r, from, ip) = after
    BY DEF Answered
  <2> HIDE DEF e, after
  <2> QED
    BY <1>2, <1>3, <2>4, <2>5 DEF KeyedEntry
<1>6. KeyedEntry(Free)
  BY DEF Free, KeyedEntry
<1> QED
  BY <1>1, <1>2, <1>3, <1>5, <1>6 DEF KeyedEntry

\* A packet heard leaves an entry's key and state alone.
LEMMA SeenKeeps ==
    ASSUME NEW e \in Entry, NEW from \in Peers
    PROVE  /\ Seen(e, from).registered = e.registered
           /\ Seen(e, from).active = e.active
           /\ Seen(e, from).psk = e.psk
<1>1. Seen(e, from).registered = e.registered
  BY DEF Seen, Entry
<1>2. Seen(e, from).active = e.active
  BY DEF Seen, Entry
<1>3. Seen(e, from).psk = e.psk
  BY DEF Seen, Entry
<1> QED
  BY <1>1, <1>2, <1>3

\* No session lives under a key that is not in the keystore: however the
\* configurations follow each other, a reload ends the sessions of every key
\* it takes away, and no handshake brings one back.
THEOREM KeysListed == Spec => []SessionKeyListed
<1>1. Init => KeyInv
  <2>1. Init => TypeOK
    BY BlankType DEF Init, TypeOK
  <2>2. Init => KeyedTable(clients)
    BY DEF Init, KeyedTable, KeyedEntry, Free
  <2> QED
    BY <2>1, <2>2 DEF KeyInv
<1>2. KeyInv /\ TypeOK' /\ [Next]_vars => KeyInv'
  <2> SUFFICES ASSUME KeyInv, TypeOK', [Next]_vars PROVE KeyedTable(clients)'
    BY DEF KeyInv
  <2>0. clients \in [Slots -> Entry] /\ KeyedTable(clients)
    BY DEF KeyInv, TypeOK
  <2>1. ASSUME NEW r \in Requests, NEW from \in Peers, AnswerInit(r, from)
        PROVE  KeyedTable(clients)'
    <3>1. PICK c \in EntryFor(r, from) : \E ip :
             clients' = WithEntry(c, Answered(c, r, from, ip))
      BY <2>1 DEF AnswerInit
    <3>2. KeyedTable(clients')
      BY <3>1, EntryForKeyed, HandshakeKeyed
    <3> QED
      BY <2>1, <3>2 DEF AnswerInit, KeyedTable, KeyedEntry, InKeystore
  <2>2. ASSUME NEW r \in Requests, NEW from \in Peers, FailInit(r, from)
        PROVE  KeyedTable(clients)'
    <3>1. PICK c \in EntryFor(r, from) :
             clients' = WithEntry(c, IF c.fresh THEN Free ELSE Entered(c, r, from))
      BY <2>2 DEF FailInit
    <3>2. KeyedTable(clients')
      BY <3>1, EntryForKeyed, HandshakeKeyed
    <3> QED
      BY <2>2, <3>2 DEF FailInit, KeyedTable, KeyedEntry, InKeystore
  \* The steps that leave the configuration alone and register nobody
  <2>3. ASSUME UNCHANGED conf,
               \A s \in Slots : \/ ~clients'[s].registered
                                \/ /\ clients'[s].registered = clients[s].registered
                                   /\ clients'[s].active = clients[s].active
                                   /\ clients'[s].psk = clients[s].psk
        PROVE  KeyedTable(clients)'
    BY <2>0, <2>3 DEF KeyedTable, KeyedEntry, InKeystore
  <2>4. ASSUME NEW s \in Slots, NEW from \in Peers, HandleData(s, from)
        PROVE  KeyedTable(clients)'
    <3>1. \A t \in Slots : \/ clients'[t] = clients[t]
                           \/ clients'[t] = Seen(clients[t], from)
      BY <2>0, <2>4 DEF HandleData
    <3>2. ASSUME NEW t \in Slots
          PROVE  clients'[t].registered = clients[t].registered /\
             clients'[t].active = clients[t].active /\ clients'[t].psk = clients[t].psk
      <4>1. clients[t] \in Entry
        BY <2>0
      <4>2. CASE clients'[t] = clients[t]
        BY <4>2
      <4>3. CASE clients'[t] = Seen(clients[t], from)
        BY <4>1, <4>3, SeenKeeps
      <4> QED
        BY <3>1, <4>2, <4>3
    <3> QED
      BY <2>3, <2>4, <3>2 DEF HandleData
  <2>5. ASSUME NEW s \in Slots, NEW from \in Peers, HandleFirstData(s, from)
        PROVE  KeyedTable(clients)'
    <3> DEFINE e == clients[s]
               moved == IF e.pending # NoAddr THEN e.pending ELSE e.ip
               after == [Seen(e, from) EXCEPT
                !.prev = e.cur, !.prev_until = now + Grace, !.prev_ip = e.ip,
                !.cur = e.next, !.next = NoAddr, !.next_born = 0,
                !.ip = moved, !.pending = NoAddr]
    <3>1. e \in Entry
      BY <2>0
    <3>2. clients' = [clients EXCEPT ![s] = after]
      BY <2>5, <3>1 DEF HandleFirstData, Seen, Entry
    <3>3. after.registered = e.registered /\ after.active = e.active /\ after.psk = e.psk
      <4> HIDE DEF e, moved
      <4> QED
        BY <3>1 DEF Seen, Entry
    <3>4. \A t \in Slots : clients'[t] = IF t = s THEN after ELSE clients[t]
      <4> HIDE DEF after
      <4> QED
        BY <2>0, <3>2
    <3> HIDE DEF after
    <3> QED
      BY <2>3, <2>5, <3>3, <3>4 DEF HandleFirstData
  <2>6. ASSUME NEW E, NEW S, NEW t \in Slots
        PROVE  Wiped(E, S)[t] = IF t \in S THEN Free ELSE E[t]
    BY DEF Wiped
  <2>7. ~Free.registered /\ ~Blank.registered
    BY DEF Free, Blank
  <2>8. CASE ExpireClients
    <3>1. \A e \in Entry : LET a == Aged(e) IN
             a.registered = e.registered /\ a.active = e.active /\ a.psk = e.psk
      <4> SUFFICES ASSUME NEW e \in Entry
                   PROVE  /\ Aged(e).registered = e.registered
                          /\ Aged(e).active = e.active /\ Aged(e).psk = e.psk
        OBVIOUS
      <4> DEFINE p == IF e.prev # NoAddr /\ now > e.prev_until
             THEN [e EXCEPT !.prev = NoAddr, !.prev_until = 0, !.prev_ip = NoAddr]
             ELSE e
      <4>1. p.registered = e.registered /\ p.active = e.active /\ p.psk = e.psk
        BY DEF Entry
      <4>2. [p EXCEPT !.next = NoAddr, !.next_born = 0, !.pending = NoAddr].registered
               = p.registered
        BY DEF Entry
      <4>3. [p EXCEPT !.next = NoAddr, !.next_born = 0, !.pending = NoAddr].active
               = p.active
        BY DEF Entry
      <4>4. [p EXCEPT !.next = NoAddr, !.next_born = 0, !.pending = NoAddr].psk = p.psk
        BY DEF Entry
      <4>5. Aged(e) \in {p, [p EXCEPT !.next = NoAddr, !.next_born = 0, !.pending = NoAddr]}
        BY DEF Aged
      <4> HIDE DEF p
      <4> QED
        BY <4>1, <4>2, <4>3, <4>4, <4>5
    <3>2. PICK S : clients' = Wiped([s \in Slots |-> Aged(clients[s])], S)
      BY <2>8 DEF ExpireClients
    <3>3. \A t \in Slots : clients'[t] = IF t \in S THEN Free ELSE Aged(clients[t])
      BY <2>6, <3>2
    <3> QED
      BY <2>0, <2>3, <2>7, <2>8, <3>1, <3>3 DEF ExpireClients
  <2>9. ASSUME NEW p \in Peers, AcceptTcp(p)
        PROVE  KeyedTable(clients)'
    <3> DEFINE conn == [Blank EXCEPT !.addr = p, !.last_seen = now, !.connected = now]
    <3>1. ~conn.registered
      BY DEF Blank, Free
    <3>2. PICK closed \in SUBSET Slots, s \in Slots :
             clients' = [Wiped(clients, closed) EXCEPT ![s] = conn]
      BY <2>9 DEF AcceptTcp
    <3>3. \A t \in Slots : clients'[t] = IF t = s THEN conn
                                         ELSE IF t \in closed THEN Free ELSE clients[t]
      <4> HIDE DEF conn
      <4> QED
        BY <3>2 DEF Wiped
    <3> HIDE DEF conn
    <3> QED
      BY <2>3, <2>7, <2>9, <3>1, <3>3 DEF AcceptTcp
  <2>10. ASSUME NEW s \in Slots, CloseTcp(s)
         PROVE  KeyedTable(clients)'
    BY <2>3, <2>6, <2>7, <2>10 DEF CloseTcp
  <2>11. ASSUME NEW c \in Configs, Reload(c)
         PROVE  KeyedTable(clients)'
    <3> DEFINE ended == {s \in Slots : Revoked(c, clients[s])}
               displaced == {s \in Slots : Displaced(c, clients[s])}
    <3>1. \A t \in Slots : clients'[t] = IF t \in ended \cup displaced THEN Free
                                         ELSE Withdrawn(c, clients[t])
      BY <2>6, <2>11 DEF Reload
    <3>2. conf' = c
      BY <2>11 DEF Reload
    <3>3. \A t \in Slots : LET a == Withdrawn(c, clients[t]) IN
             /\ a.registered = clients[t].registered /\ a.active = clients[t].active
             /\ a.psk = clients[t].psk
      BY <2>0 DEF Withdrawn, Entry
    <3>4. ASSUME NEW t \in Slots, clients'[t].registered
          PROVE  clients'[t].active /\ InKeystore(c, clients'[t].psk)
      <4>1. clients'[t] = Withdrawn(c, clients[t]) /\ t \notin ended
        BY <2>7, <3>1, <3>4
      <4>2. clients[t].registered /\ clients[t].active
        BY <2>0, <3>3, <3>4, <4>1 DEF KeyedTable, KeyedEntry
      <4>3. KeyAllowed(c, clients[t])
        BY <4>1, <4>2 DEF Revoked
      <4> QED
        BY <3>3, <4>1, <4>2, <4>3 DEF KeyAllowed
    <3> QED
      BY <3>2, <3>4 DEF KeyedTable, KeyedEntry, InKeystore
  <2>12. CASE Tick
    BY <2>3, <2>12 DEF Tick
  <2>13. CASE UNCHANGED vars
    BY <2>3, <2>13 DEF vars
  <2> QED
    BY <2>1, <2>2, <2>4, <2>5, <2>8, <2>9, <2>10, <2>11, <2>12, <2>13 DEF Next
<1>3. KeyInv => SessionKeyListed
  BY DEF KeyInv, KeyedTable, KeyedEntry, SessionKeyListed
<1> QED
  BY <1>1, <1>2, <1>3, TypeCorrect, PTL DEF Spec

----------------------------------------------------------------------------
(* The server and an auto client agree on the client's address *)

Sessionless(e) == e.cur = NoAddr /\ e.next = NoAddr /\ e.prev = NoAddr /\ e.pending = NoAddr

\* SessionAddress of one entry
Agrees(e) ==
    /\ e.cur = e.ip /\ e.ip # NoAddr
    /\ e.next # NoAddr => e.next = IF e.pending # NoAddr THEN e.pending ELSE e.ip
    /\ e.pending # NoAddr => e.next # NoAddr
    /\ e.prev # NoAddr => e.prev_ip = e.prev

\* The strengthening: only a registered entry has sessions, and one with an
\* auto client's ID is in auto mode (a failed handshake writes both)
Addressed(e) ==
    /\ ~e.registered => Sessionless(e)
    /\ e.registered /\ e.auto => Agrees(e)
    /\ e.registered /\ e.id \in AutoIds => e.auto

\* Over TCP a connection is one entry's
OneConnection(E) ==
    Tcp => \A s, t \in Slots : E[s].active /\ E[t].active /\ E[s].addr = E[t].addr => s = t

AddressInv == /\ TypeOK /\ OneConnection(clients)
              /\ \A s \in Slots : Addressed(clients[s])

\* What a handshake is given: every other entry is as it was or wiped, and
\* does not have its connection
OthersKept(c, from) ==
    \A t \in Slots \ {c.slot} :
        /\ c.table[t] \in {clients[t], Free}
        /\ Tcp /\ c.table[t].active => c.table[t].addr # from

\* ... and its own entry has no sessions, or an auto client finds its own
OwnEntry(c, r) ==
    LET e == c.table[c.slot]
    IN /\ ~e.registered => Sessionless(e)
       /\ r.auto /\ e.registered => e.auto /\ Agrees(e)

\* Fields of an entry that no change of its source address touches.
SameBut(e, f) ==
    /\ e.active = f.active /\ e.registered = f.registered /\ e.auto = f.auto /\ e.id = f.id
    /\ e.ip = f.ip /\ e.pending = f.pending /\ e.prev_ip = f.prev_ip
    /\ e.cur = f.cur /\ e.next = f.next /\ e.prev = f.prev

\* A new source address is no other change.
LEMMA NewSource ==
    ASSUME NEW e \in Entry, NEW from
    PROVE  /\ SameBut([e EXCEPT !.addr = from], e)
           /\ [e EXCEPT !.addr = from].addr = from
BY DEF Entry, SameBut

\* Entries that differ in nothing an address depends on.
LEMMA SameAddressed ==
    ASSUME NEW e, NEW f, SameBut(e, f)
    PROVE  /\ Sessionless(f) => Sessionless(e)
           /\ Agrees(f) => Agrees(e)
           /\ Addressed(f) => Addressed(e)
BY DEF SameBut, Sessionless, Agrees, Addressed

\* Wiped entries.
LEMMA FreeAddressed ==
    /\ Sessionless(Free) /\ Sessionless(Blank)
    /\ ~Free.registered /\ ~Blank.registered /\ ~Free.active
    /\ Addressed(Free)
<1>1. /\ Free.cur = NoAddr /\ Free.next = NoAddr /\ Free.prev = NoAddr /\ Free.pending = NoAddr
      /\ Free.registered = FALSE /\ Free.active = FALSE
  BY DEF Free
<1>2. /\ Blank.cur = NoAddr /\ Blank.next = NoAddr /\ Blank.prev = NoAddr /\ Blank.pending = NoAddr
      /\ Blank.registered = FALSE
  BY DEF Free, Blank
<1> QED
  BY <1>1, <1>2 DEF Sessionless, Addressed

\* A lookup that fails: nobody has the key.
LEMMA LookupNone ==
    ASSUME NEW E
    PROVE  /\ \A id : FindById(E, id) = NoSlot => \A s \in Slots : ~(E[s].active /\ E[s].id = id)
           /\ \A from : FindByAddr(E, from) = NoSlot =>
                 \A s \in Slots : ~(E[s].active /\ E[s].addr = from)
<1>1. NoSlot \notin Slots
  BY TableAssumption
<1>2. ASSUME NEW S \in SUBSET Slots, SomeSlot(S) = NoSlot PROVE S = {}
  BY <1>1, <1>2 DEF SomeSlot
<1>3. ASSUME NEW id, FindById(E, id) = NoSlot, NEW s \in Slots, E[s].active /\ E[s].id = id
      PROVE  FALSE
  <2> DEFINE S == {t \in Slots : E[t].active /\ E[t].id = id}
  <2>1. FindById(E, id) = SomeSlot(S) /\ S \in SUBSET Slots /\ s \in S
    BY <1>3 DEF FindById
  <2> HIDE DEF S
  <2> QED
    BY <1>2, <1>3, <2>1
<1>4. ASSUME NEW from, FindByAddr(E, from) = NoSlot, NEW s \in Slots, E[s].active /\ E[s].addr = from
      PROVE  FALSE
  <2> DEFINE S == {t \in Slots : E[t].active /\ E[t].addr = from}
  <2>1. FindByAddr(E, from) = SomeSlot(S) /\ S \in SUBSET Slots /\ s \in S
    BY <1>4 DEF FindByAddr
  <2> HIDE DEF S
  <2> QED
    BY <1>2, <1>4, <2>1
<1> QED
  BY <1>3, <1>4

\* A lookup that succeeds: the entry has the key.
LEMMA LookupKey ==
    ASSUME NEW E
    PROVE  /\ \A id : FindById(E, id) # NoSlot => E[FindById(E, id)].id = id
           /\ \A from : FindByAddr(E, from) # NoSlot => E[FindByAddr(E, from)].addr = from
<1>1. ASSUME NEW id, FindById(E, id) # NoSlot PROVE E[FindById(E, id)].id = id
  <2> DEFINE S == {s \in Slots : E[s].active /\ E[s].id = id}
  <2>1. FindById(E, id) = SomeSlot(S) /\ \A s \in S : E[s].id = id
    BY DEF FindById
  <2> HIDE DEF S
  <2> QED
    BY <1>1, <2>1, SomeSlotType
<1>2. ASSUME NEW from, FindByAddr(E, from) # NoSlot PROVE E[FindByAddr(E, from)].addr = from
  <2> DEFINE S == {s \in Slots : E[s].active /\ E[s].addr = from}
  <2>1. FindByAddr(E, from) = SomeSlot(S) /\ \A s \in S : E[s].addr = from
    BY DEF FindByAddr
  <2> HIDE DEF S
  <2> QED
    BY <1>2, <2>1, SomeSlotType
<1> QED
  BY <1>1, <1>2

\* Adopting a connection: the entry that had it is wiped, or is this one.
LEMMA AdoptTcpKept ==
    ASSUME AddressInv, NEW s \in Slots, clients[s].active, NEW from \in Peers
    PROVE  /\ SameBut(AdoptTcp(s, from)[s], clients[s])
           /\ \A t \in Slots \ {s} :
                 /\ AdoptTcp(s, from)[t] \in {clients[t], Free}
                 /\ Tcp /\ AdoptTcp(s, from)[t].active => AdoptTcp(s, from)[t].addr # from
<1>1. \A t \in Slots : clients[t] \in Entry
  BY DEF AddressInv, TypeOK
<1>2. CASE ~Tcp \/ clients[s].addr = from
  <2>1. AdoptTcp(s, from) = clients
    BY <1>2 DEF AdoptTcp
  <2>2. SameBut(clients[s], clients[s])
    BY DEF SameBut
  <2> QED
    BY <1>2, <2>1, <2>2 DEF AddressInv, OneConnection
<1>3. CASE ~(~Tcp \/ clients[s].addr = from)
  <2> DEFINE own == [clients[s] EXCEPT !.addr = from]
  <2>1. AdoptTcp(s, from) = [t \in Slots |-> IF t = s THEN own
                                ELSE IF clients[t].addr = from THEN Free ELSE clients[t]]
    BY <1>3 DEF AdoptTcp
  <2>2. SameBut(own, clients[s])
    BY <1>1, NewSource
  <2> HIDE DEF own
  <2> QED
    BY <2>1, <2>2, FreeAddressed
<1> QED
  BY <1>2, <1>3

\* server_alloc_client(), called when over TCP nobody has the connection: the
\* slot it takes has no session.
LEMMA AllocClientKept ==
    ASSUME AddressInv, NEW r, NEW from, NEW c \in AllocClient,
           Tcp => \A s \in Slots : ~(clients[s].active /\ clients[s].addr = from)
    PROVE  c \in ClaimType /\ OwnEntry(c, r) /\ OthersKept(c, from)
<1>1. c \in ClaimType
  BY AllocClientType DEF AddressInv
<1>2. PICK s \in Slots : c.slot = s /\ c.table = [clients EXCEPT ![s] = Blank]
  <2> DEFINE blank(s) == [clients EXCEPT ![s] = Blank]
  <2>1. PICK s \in Slots : \E L : c = Claim(s, TRUE, blank(s), L)
    <3> HIDE DEF blank
    <3> QED
      BY DEF AllocClient, blank
  <2>2. PICK L : c = Claim(s, TRUE, blank(s), L)
    BY <2>1
  <2>3. c.slot = s /\ c.table = blank(s)
    <3> HIDE DEF blank
    <3> QED
      BY <2>2 DEF Claim
  <2> QED
    BY <2>3
<1>3. \A t \in Slots : c.table[t] = IF t = s THEN Blank ELSE clients[t]
  BY <1>2 DEF AddressInv, TypeOK
<1>4. OwnEntry(c, r)
  BY <1>2, <1>3, FreeAddressed DEF OwnEntry
<1>5. OthersKept(c, from)
  BY <1>2, <1>3 DEF OthersKept
<1> QED
  BY <1>1, <1>2, <1>4, <1>5

\* A claim on an entry the server has, the table being E.
LEMMA KnownKept ==
    ASSUME AddressInv, NEW s \in Slots, NEW E \in [Slots -> Entry], NEW r, NEW from,
           SameBut(E[s], clients[s]),
           r.auto /\ clients[s].registered => clients[s].auto,
           \A t \in Slots \ {s} : /\ E[t] \in {clients[t], Free}
                                  /\ Tcp /\ E[t].active => E[t].addr # from
    PROVE  LET c == Claim(s, FALSE, E, leases)
           IN c \in ClaimType /\ OwnEntry(c, r) /\ OthersKept(c, from)
<1> DEFINE c == Claim(s, FALSE, E, leases)
<1>1. c \in ClaimType
  BY ClaimOfType DEF AddressInv, TypeOK
<1>2. c.slot = s /\ c.table = E
  BY DEF Claim
<1> HIDE DEF c
<1>3. OthersKept(c, from)
  BY <1>2 DEF OthersKept
<1>4. Addressed(clients[s])
  BY DEF AddressInv
<1>5. OwnEntry(c, r)
  <2>1. /\ Sessionless(clients[s]) => Sessionless(E[s])
        /\ Agrees(clients[s]) => Agrees(E[s])
    BY SameAddressed
  <2> QED
    BY <1>2, <1>4, <2>1 DEF OwnEntry, Addressed, SameBut
<1> QED
  BY <1>1, <1>2, <1>3, <1>5 DEF c

\* server_entry_for() for an auto client: the entry with its ID, its
\* connection's, or a new one.
LEMMA AutoEntryKept ==
    ASSUME AddressInv, NEW r \in Requests, r.auto, NEW from \in Peers, CanSend(r, from),
           NEW c \in AutoEntryFor(r.id, from)
    PROVE  c \in ClaimType /\ OwnEntry(c, r) /\ OthersKept(c, from)
<1> DEFINE known == FindById(clients, r.id)
           by_addr == FindByAddr(clients, from)
<1>1. /\ known \in Slots \cup {NoSlot} /\ by_addr \in Slots \cup {NoSlot}
      /\ known # NoSlot => clients[known].active /\ clients[known].id = r.id
      /\ by_addr # NoSlot => clients[by_addr].active /\ clients[by_addr].addr = from
  BY LookupType, LookupActive, LookupKey
<1>2. \/ known \in Slots /\ known # NoSlot /\ c = Claim(known, FALSE, AdoptTcp(known, from), leases)
      \/ /\ known = NoSlot /\ Tcp /\ by_addr \in Slots /\ by_addr # NoSlot
         /\ c = Claim(by_addr, FALSE, clients, leases)
      \/ (Tcp => by_addr = NoSlot) /\ c \in AllocClient
  BY <1>1 DEF AutoEntryFor
<1>3. r.id \in AutoIds /\ r.id # NoId
  BY TableAssumption DEF Requests, Ids
<1>4. clients \in [Slots -> Entry] /\ \A s \in Slots : Addressed(clients[s])
  BY DEF AddressInv, TypeOK
<1>5. CASE known \in Slots /\ known # NoSlot /\ c = Claim(known, FALSE, AdoptTcp(known, from), leases)
  <2>1. AdoptTcp(known, from) \in [Slots -> Entry]
    BY <1>5, AdoptTcpType DEF AddressInv
  <2>2. clients[known].registered => clients[known].auto
    BY <1>1, <1>3, <1>4, <1>5 DEF Addressed
  <2>3. /\ SameBut(AdoptTcp(known, from)[known], clients[known])
        /\ \A t \in Slots \ {known} :
              /\ AdoptTcp(known, from)[t] \in {clients[t], Free}
              /\ Tcp /\ AdoptTcp(known, from)[t].active => AdoptTcp(known, from)[t].addr # from
    BY <1>1, <1>5, AdoptTcpKept
  <2> HIDE DEF known
  <2> QED
    BY <1>5, <2>1, <2>2, <2>3, KnownKept
<1>6. CASE /\ known = NoSlot /\ Tcp /\ by_addr \in Slots /\ by_addr # NoSlot
           /\ c = Claim(by_addr, FALSE, clients, leases)
  <2>1. PICK s \in Slots : /\ clients[s].active /\ clients[s].addr = from
                           /\ clients[s].registered => clients[s].id = ClaimedId(r)
    BY <1>6 DEF CanSend
  <2>2. s = by_addr
    BY <1>1, <1>6, <2>1 DEF AddressInv, OneConnection
  <2>3. ClaimedId(r) = r.id
    BY <1>3 DEF ClaimedId
  <2>4. ~clients[by_addr].registered
    BY <1>6, <2>1, <2>2, <2>3, LookupNone
  <2>5. SameBut(clients[by_addr], clients[by_addr])
    BY DEF SameBut
  <2>6. \A t \in Slots \ {by_addr} : clients[t].active => clients[t].addr # from
    BY <1>1, <1>6 DEF AddressInv, OneConnection
  <2> HIDE DEF by_addr, known
  <2> QED
    BY <1>4, <1>6, <2>4, <2>5, <2>6, KnownKept
<1>7. CASE (Tcp => by_addr = NoSlot) /\ c \in AllocClient
  <2>1. Tcp => \A s \in Slots : ~(clients[s].active /\ clients[s].addr = from)
    BY <1>7, LookupNone
  <2> QED
    BY <1>7, <2>1, AllocClientKept
<1> QED
  BY <1>2, <1>5, <1>6, <1>7

\* server_entry_for() for a manual client.
LEMMA ManualEntryKept ==
    ASSUME AddressInv, NEW r \in Requests, ~r.auto, NEW from \in Peers, NEW id, NEW key,
           NEW want \in Addrs, NEW c \in ManualEntryFor(id, key, want, from)
    PROVE  c \in ClaimType /\ OwnEntry(c, r) /\ OthersKept(c, from)
<1> DEFINE by_addr == FindByAddr(clients, from)
           by_ip == FindByIp(clients, want)
<1>1. /\ by_ip \in Slots \cup {NoSlot} /\ by_addr \in Slots \cup {NoSlot}
      /\ by_ip # NoSlot => clients[by_ip].active
      /\ by_addr # NoSlot => clients[by_addr].active /\ clients[by_addr].addr = from
  BY LookupType, LookupActive, LookupKey
<1>2. PICK b : /\ \/ by_ip \in Slots /\ by_ip # NoSlot /\ b = Claim(by_ip, FALSE, AdoptTcp(by_ip, from), leases)
                  \/ by_addr \in Slots /\ by_addr # NoSlot /\ b = Claim(by_addr, FALSE, clients, leases)
                  \/ (Tcp => by_addr = NoSlot) /\ b \in AllocClient
               /\ c = [b EXCEPT !.table[b.slot].ip = want]
  BY <1>1 DEF ManualEntryFor
<1>3. b \in ClaimType /\ OwnEntry(b, r) /\ OthersKept(b, from)
  <2>1. CASE by_ip \in Slots /\ by_ip # NoSlot /\ b = Claim(by_ip, FALSE, AdoptTcp(by_ip, from), leases)
    <3>1. AdoptTcp(by_ip, from) \in [Slots -> Entry]
      BY <2>1, AdoptTcpType DEF AddressInv
    <3>2. /\ SameBut(AdoptTcp(by_ip, from)[by_ip], clients[by_ip])
          /\ \A t \in Slots \ {by_ip} :
                /\ AdoptTcp(by_ip, from)[t] \in {clients[t], Free}
                /\ Tcp /\ AdoptTcp(by_ip, from)[t].active => AdoptTcp(by_ip, from)[t].addr # from
      BY <1>1, <2>1, AdoptTcpKept
    <3> HIDE DEF by_ip
    <3> QED
      BY <2>1, <3>1, <3>2, KnownKept
  <2>2. CASE by_addr \in Slots /\ by_addr # NoSlot /\ b = Claim(by_addr, FALSE, clients, leases)
    <3>1. SameBut(clients[by_addr], clients[by_addr])
      BY DEF SameBut
    <3>2. \A t \in Slots \ {by_addr} : Tcp /\ clients[t].active => clients[t].addr # from
      BY <1>1, <2>2 DEF AddressInv, OneConnection
    <3>3. clients \in [Slots -> Entry]
      BY DEF AddressInv, TypeOK
    <3> HIDE DEF by_addr
    <3> QED
      BY <2>2, <3>1, <3>2, <3>3, KnownKept
  <2>3. CASE (Tcp => by_addr = NoSlot) /\ b \in AllocClient
    <3>1. Tcp => \A s \in Slots : ~(clients[s].active /\ clients[s].addr = from)
      BY <2>3, LookupNone
    <3> QED
      BY <2>3, <3>1, AllocClientKept
  <2> QED
    BY <1>2, <2>1, <2>2, <2>3
<1>4. c \in ClaimType
  BY ManualEntryForType DEF AddressInv
<1>5. /\ c.slot = b.slot /\ b.slot \in Slots
      /\ c.table = [b.table EXCEPT ![b.slot].ip = want] /\ b.table \in [Slots -> Entry]
  BY <1>2, <1>3 DEF ClaimType
<1>6. OthersKept(c, from)
  <2>1. \A t \in Slots \ {b.slot} : c.table[t] = b.table[t]
    BY <1>5
  <2> QED
    BY <1>3, <1>5, <2>1 DEF OthersKept
<1>7. OwnEntry(c, r)
  <2> DEFINE e == b.table[b.slot]
  <2>1. e \in Entry /\ c.table[c.slot] = [e EXCEPT !.ip = want]
    BY <1>5
  <2> HIDE DEF e
  <2>2. LET f == [e EXCEPT !.ip = want]
        IN /\ f.registered = e.registered /\ f.pending = e.pending
           /\ f.cur = e.cur /\ f.next = e.next /\ f.prev = e.prev
    BY <2>1 DEF Entry
  <2>3. ~e.registered => Sessionless(e)
    BY <1>3 DEF OwnEntry, e
  <2> QED
    BY <2>1, <2>2, <2>3 DEF OwnEntry, Sessionless
<1> QED
  BY <1>4, <1>6, <1>7

\* The claims of server_handle_init().
LEMMA EntryForKept ==
    ASSUME AddressInv, NEW r \in Requests, NEW from \in Peers, CanSend(r, from),
           NEW c \in EntryFor(r, from)
    PROVE  c \in ClaimType /\ OwnEntry(c, r) /\ OthersKept(c, from)
<1>1. ~r.auto => r.want \in Addrs
  BY DEF Requests
<1>2. \/ r.auto /\ c \in AutoEntryFor(r.id, from)
      \/ ~r.auto /\ c \in ManualEntryFor(ClaimedId(r), r.key, r.want, from)
  BY DEF EntryFor
<1> QED
  BY <1>1, <1>2, AutoEntryKept, ManualEntryKept

----------------------------------------------------------------------------
\* The claimed entry is the client's now, its addresses are what they were.
LEMMA EnteredKeeps ==
    ASSUME AddressInv, NEW r \in Requests, NEW from \in Peers, NEW c \in ClaimType
    PROVE  LET e == Entered(c, r, from)
               f == c.table[c.slot]
           IN /\ e \in Entry /\ e.auto = r.auto /\ e.id = ClaimedId(r) /\ (Tcp => e.addr = from)
              /\ e.active = f.active /\ e.registered = f.registered
              /\ e.ip = f.ip /\ e.pending = f.pending /\ e.prev_ip = f.prev_ip
              /\ e.cur = f.cur /\ e.next = f.next /\ e.prev = f.prev
<1> DEFINE f == c.table[c.slot]
           a == IF f.cur = NoAddr \/ Tcp THEN from ELSE f.addr
           e == Entered(c, r, from)
<1>1. f \in Entry /\ e \in Entry
  BY EnteredType DEF ClaimType, AddressInv
<1>2. e = [f EXCEPT !.addr = a, !.last_seen = now, !.auto = r.auto, !.id = ClaimedId(r)]
  BY DEF Entered
<1>3. Tcp => a = from
  OBVIOUS
<1> HIDE DEF f, a, e
<1>4. e.auto = r.auto /\ e.id = ClaimedId(r) /\ e.addr = a
  BY <1>1, <1>2 DEF Entry
<1>5. /\ e.active = f.active /\ e.registered = f.registered
      /\ e.ip = f.ip /\ e.pending = f.pending /\ e.prev_ip = f.prev_ip
      /\ e.cur = f.cur /\ e.next = f.next /\ e.prev = f.prev
  BY <1>1, <1>2 DEF Entry
<1> QED
  BY <1>1, <1>3, <1>4, <1>5 DEF e, f

\* server_assign_ip(): a live client is offered a new address.
LEMMA AssignIpDoes ==
    ASSUME NEW e \in Entry, NEW ip \in Addrs
    PROVE  LET a == AssignIp(e, ip)
           IN /\ a \in Entry /\ a.auto = e.auto /\ a.id = e.id /\ a.addr = e.addr /\ a.prev_ip = e.prev_ip
              /\ a.cur = e.cur /\ a.next = e.next /\ a.prev = e.prev
              /\ IF e.cur # NoAddr /\ e.ip # NoAddr /\ ip # e.ip
                 THEN a.pending = ip /\ a.ip = e.ip ELSE a.pending = NoAddr /\ a.ip = ip
<1>1. CASE e.cur # NoAddr /\ e.ip # NoAddr /\ ip # e.ip
  <2>1. AssignIp(e, ip) = [e EXCEPT !.pending = ip]
    BY <1>1 DEF AssignIp
  <2> QED
    BY <1>1, <2>1 DEF Entry, AddrOrNone
<1>2. CASE ~(e.cur # NoAddr /\ e.ip # NoAddr /\ ip # e.ip)
  <2>1. AssignIp(e, ip) = [e EXCEPT !.pending = NoAddr, !.ip = ip]
    BY <1>2 DEF AssignIp
  <2> QED
    BY <1>2, <2>1 DEF Entry, AddrOrNone
<1> QED
  BY <1>1, <1>2

\* The reply: its session is the first one, or waits in next.
LEMMA SessionMade ==
    ASSUME NEW a \in Entry, NEW key \in Keys, NEW ip \in Addrs, NEW first \in BOOLEAN, now \in Nat
    PROVE  LET reg == [a EXCEPT !.registered = TRUE, !.psk = key]
               x == IF first THEN [reg EXCEPT !.cur = ip] ELSE [reg EXCEPT !.next = ip, !.next_born = now]
           IN /\ x.registered = TRUE /\ x.auto = a.auto /\ x.id = a.id /\ x.addr = a.addr
              /\ x.ip = a.ip /\ x.pending = a.pending /\ x.prev_ip = a.prev_ip /\ x.prev = a.prev
              /\ IF first THEN x.cur = ip /\ x.next = a.next ELSE x.cur = a.cur /\ x.next = ip
<1> DEFINE reg == [a EXCEPT !.registered = TRUE, !.psk = key]
<1>1. /\ reg \in Entry /\ reg.registered = TRUE /\ reg.auto = a.auto /\ reg.id = a.id /\ reg.addr = a.addr
      /\ reg.ip = a.ip /\ reg.pending = a.pending /\ reg.prev_ip = a.prev_ip
      /\ reg.cur = a.cur /\ reg.next = a.next /\ reg.prev = a.prev
  BY DEF Entry
<1> HIDE DEF reg
<1>2. LET x == [reg EXCEPT !.cur = ip]
      IN /\ x.registered = reg.registered /\ x.auto = reg.auto /\ x.id = reg.id /\ x.addr = reg.addr
         /\ x.ip = reg.ip /\ x.pending = reg.pending /\ x.prev_ip = reg.prev_ip /\ x.prev = reg.prev
         /\ x.cur = ip /\ x.next = reg.next
  BY <1>1 DEF Entry
<1>3. LET x == [reg EXCEPT !.next = ip, !.next_born = now]
      IN /\ x.registered = reg.registered /\ x.auto = reg.auto /\ x.id = reg.id /\ x.addr = reg.addr
         /\ x.ip = reg.ip /\ x.pending = reg.pending /\ x.prev_ip = reg.prev_ip /\ x.prev = reg.prev
         /\ x.cur = reg.cur /\ x.next = ip
  BY <1>1 DEF Entry
<1>4. CASE first
  BY <1>1, <1>2, <1>4 DEF reg
<1>5. CASE ~first
  BY <1>1, <1>3, <1>5 DEF reg
<1> QED
  BY <1>4, <1>5

\* A handshake that fails: the entry's sessions have the addresses their
\* replies gave.
LEMMA FailedAddressed ==
    ASSUME AddressInv, NEW r \in Requests, NEW from \in Peers, CanSend(r, from),
           NEW c \in ClaimType, OwnEntry(c, r)
    PROVE  Addressed(Entered(c, r, from)) /\ (Tcp => Entered(c, r, from).addr = from)
<1> DEFINE e == Entered(c, r, from)
           f == c.table[c.slot]
<1>1. /\ e.auto = r.auto /\ e.id = ClaimedId(r) /\ (Tcp => e.addr = from)
      /\ e.registered = f.registered
      /\ e.ip = f.ip /\ e.pending = f.pending /\ e.prev_ip = f.prev_ip
      /\ e.cur = f.cur /\ e.next = f.next /\ e.prev = f.prev
  BY EnteredKeeps
<1>2. /\ ~f.registered => Sessionless(f)
      /\ r.auto /\ f.registered => Agrees(f)
      /\ ~r.auto => ClaimedId(r) \notin AutoIds
  BY DEF OwnEntry, CanSend
<1> HIDE DEF e, f
<1>3. ~e.registered => Sessionless(e)
  BY <1>1, <1>2 DEF Sessionless
<1>4. e.registered /\ e.auto => Agrees(e)
  BY <1>1, <1>2 DEF Agrees
<1> QED
  BY <1>1, <1>2, <1>3, <1>4 DEF Addressed, e

\* One that is answered.
LEMMA HandshakeAddressed ==
    ASSUME AddressInv, NEW r \in Requests, NEW from \in Peers, CanSend(r, from),
           NEW c \in ClaimType, OwnEntry(c, r), NEW ip \in Addrs
    PROVE  Addressed(Answered(c, r, from, ip)) /\ (Tcp => Answered(c, r, from, ip).addr = from)
<1> DEFINE e == Entered(c, r, from)
           f == c.table[c.slot]
           a == IF r.auto THEN AssignIp(e, ip) ELSE [e EXCEPT !.pending = NoAddr]
           x == Answered(c, r, from, ip)
<1>1. /\ e \in Entry /\ e.auto = r.auto /\ e.id = ClaimedId(r) /\ (Tcp => e.addr = from)
      /\ e.registered = f.registered
      /\ e.ip = f.ip /\ e.pending = f.pending /\ e.prev_ip = f.prev_ip
      /\ e.cur = f.cur /\ e.next = f.next /\ e.prev = f.prev
  BY EnteredKeeps
<1>2. /\ ~f.registered => Sessionless(f)
      /\ r.auto /\ f.registered => Agrees(f)
  BY DEF OwnEntry
<1>3. ~r.auto => ClaimedId(r) \notin AutoIds
  BY DEF CanSend
<1>4. a \in Entry /\ a.auto = e.auto /\ a.id = e.id /\ a.addr = e.addr
  <2> HIDE DEF e
  <2>1. CASE r.auto
    BY <1>1, <2>1, AssignIpDoes
  <2>2. CASE ~r.auto
    BY <1>1, <2>2 DEF Entry, AddrOrNone
  <2> QED
    BY <2>1, <2>2
<1>5. r.auto => /\ a.cur = e.cur /\ a.next = e.next /\ a.prev = e.prev /\ a.prev_ip = e.prev_ip
                /\ IF e.cur # NoAddr /\ e.ip # NoAddr /\ ip # e.ip
                   THEN a.pending = ip /\ a.ip = e.ip ELSE a.pending = NoAddr /\ a.ip = ip
  <2> HIDE DEF e
  <2> QED
    BY <1>1, AssignIpDoes
<1>6. /\ x.registered = TRUE /\ x.auto = a.auto /\ x.id = a.id /\ x.addr = a.addr
      /\ x.ip = a.ip /\ x.pending = a.pending /\ x.prev_ip = a.prev_ip /\ x.prev = a.prev
      /\ IF e.cur = NoAddr THEN x.cur = ip /\ x.next = a.next ELSE x.cur = a.cur /\ x.next = ip
  <2> DEFINE first == (e.cur = NoAddr)
             reg == [a EXCEPT !.registered = TRUE, !.psk = r.key]
  <2>1. x = IF first THEN [reg EXCEPT !.cur = ip] ELSE [reg EXCEPT !.next = ip, !.next_born = now]
    BY DEF Answered
  <2>2. r.key \in Keys /\ now \in Nat /\ first \in BOOLEAN
    BY DEF Requests, AddressInv, TypeOK
  <2> HIDE DEF a, e, x, first
  <2>3. /\ x.registered = TRUE /\ x.auto = a.auto /\ x.id = a.id /\ x.addr = a.addr
        /\ x.ip = a.ip /\ x.pending = a.pending /\ x.prev_ip = a.prev_ip /\ x.prev = a.prev
        /\ IF first THEN x.cur = ip /\ x.next = a.next ELSE x.cur = a.cur /\ x.next = ip
    BY <1>4, <2>1, <2>2, SessionMade
  <2> QED
    BY <2>3 DEF first
<1> HIDE DEF e, f, a, x
<1>7. Addressed(e)
  BY FailedAddressed DEF e
<1>8. Addressed(x)
  <2>1. ip # NoAddr
    BY TableAssumption
  <2>2. CASE r.auto /\ e.registered
    <3>1. Agrees(e)
      BY <1>1, <1>7, <2>2 DEF Addressed
    <3>2. Agrees(x)
      BY <1>5, <1>6, <2>1, <2>2, <3>1 DEF Agrees
    <3> QED
      BY <1>1, <1>4, <1>6, <2>2, <3>2 DEF Addressed
  <2>3. CASE r.auto /\ ~e.registered
    <3>1. Sessionless(e)
      BY <1>7, <2>3 DEF Addressed
    <3>2. Agrees(x)
      BY <1>5, <1>6, <2>1, <2>3, <3>1 DEF Agrees, Sessionless
    <3> QED
      BY <1>1, <1>4, <1>6, <2>3, <3>2 DEF Addressed
  <2>4. CASE ~r.auto
    BY <1>1, <1>3, <1>4, <1>6, <2>4 DEF Addressed
  <2> QED
    BY <2>2, <2>3, <2>4
<1>9. Tcp => x.addr = from
  BY <1>1, <1>4, <1>6
<1> QED
  BY <1>8, <1>9 DEF x

\* ... and its client has registered.
LEMMA AnsweredRegistered ==
    ASSUME AddressInv, NEW r \in Requests, NEW from \in Peers, NEW c \in ClaimType, NEW ip \in Addrs
    PROVE  Answered(c, r, from, ip).registered
<1> DEFINE e == Entered(c, r, from)
           a == IF r.auto THEN AssignIp(e, ip) ELSE [e EXCEPT !.pending = NoAddr]
           first == (e.cur = NoAddr)
           reg == [a EXCEPT !.registered = TRUE, !.psk = r.key]
           x == Answered(c, r, from, ip)
<1>1. x = IF first THEN [reg EXCEPT !.cur = ip] ELSE [reg EXCEPT !.next = ip, !.next_born = now]
  BY DEF Answered
<1>2. r.key \in Keys /\ now \in Nat /\ first \in BOOLEAN
  BY DEF Requests, AddressInv, TypeOK
<1>3. e \in Entry
  BY EnteredKeeps
<1>4. a \in Entry
  <2> HIDE DEF e
  <2>1. CASE r.auto
    BY <1>3, <2>1, AssignIpDoes
  <2>2. CASE ~r.auto
    BY <1>3, <2>2 DEF Entry, AddrOrNone
  <2> QED
    BY <2>1, <2>2
<1> HIDE DEF a, e, x, first
<1> QED
  BY <1>1, <1>2, <1>4, SessionMade DEF x

\* The entry a handshake writes, and the entries beside it.
LEMMA WrittenAddressed ==
    ASSUME AddressInv, NEW from, NEW c \in ClaimType, OthersKept(c, from),
           NEW e, Addressed(e), Tcp /\ e.active => e.addr = from
    PROVE  /\ OneConnection(WithEntry(c, e))
           /\ \A s \in Slots : Addressed(WithEntry(c, e)[s])
<1> DEFINE E == WithEntry(c, e)
<1>1. \A t \in Slots : E[t] = IF t = c.slot THEN e ELSE c.table[t]
  BY DEF WithEntry, ClaimType
<1> HIDE DEF E
<1>2. \A t \in Slots \ {c.slot} : E[t] \in {clients[t], Free} /\ (Tcp /\ E[t].active => E[t].addr # from)
  BY <1>1 DEF OthersKept
<1>3. \A t \in Slots : Addressed(E[t])
  BY <1>1, <1>2, FreeAddressed DEF AddressInv
<1>4. OneConnection(E)
  <2> SUFFICES ASSUME Tcp, NEW s \in Slots, NEW t \in Slots, E[s].active, E[t].active,
                      E[s].addr = E[t].addr
               PROVE  s = t
    BY DEF OneConnection
  <2>1. CASE s = c.slot
    BY <1>1, <1>2, <2>1
  <2>2. CASE t = c.slot
    BY <1>1, <1>2, <2>2
  <2>3. CASE s # c.slot /\ t # c.slot
    <3>1. E[s] = clients[s] /\ E[t] = clients[t]
      BY <1>2, <2>3, FreeAddressed
    <3> QED
      BY <3>1 DEF AddressInv, OneConnection
  <2> QED
    BY <2>1, <2>2, <2>3
<1> QED
  BY <1>3, <1>4 DEF E

\* Ageing ends sessions with the addresses that were theirs.
LEMMA AgedAddressed ==
    ASSUME NEW e \in Entry, Addressed(e)
    PROVE  /\ Addressed(Aged(e)) /\ Aged(e).active = e.active /\ Aged(e).addr = e.addr
           /\ Aged(e).registered = e.registered
<1> DEFINE none == [e EXCEPT !.prev = NoAddr, !.prev_until = 0, !.prev_ip = NoAddr]
           p == IF e.prev # NoAddr /\ now > e.prev_until THEN none ELSE e
           q == [p EXCEPT !.next = NoAddr, !.next_born = 0, !.pending = NoAddr]
<1>0. none \in Entry
  BY Zenon DEF Entry, AddrOrNone
<1>1. /\ none \in Entry /\ none.prev = NoAddr
      /\ none.active = e.active /\ none.registered = e.registered /\ none.auto = e.auto
      /\ none.id = e.id /\ none.addr = e.addr /\ none.ip = e.ip /\ none.pending = e.pending
      /\ none.cur = e.cur /\ none.next = e.next
  BY <1>0, Zenon DEF Entry
<1>2. Addressed(none)
  <2> HIDE DEF none
  <2> QED
    BY <1>1 DEF Addressed, Agrees, Sessionless
<1>3. /\ p \in Entry /\ Addressed(p) /\ p.active = e.active /\ p.addr = e.addr
      /\ p.registered = e.registered
  <2> HIDE DEF none
  <2> QED
    BY <1>1, <1>2
<1>4. Aged(e) \in {p, q}
  BY DEF Aged
<1> HIDE DEF p
<1>5. /\ q.next = NoAddr /\ q.pending = NoAddr
      /\ q.active = p.active /\ q.registered = p.registered /\ q.auto = p.auto
      /\ q.id = p.id /\ q.addr = p.addr /\ q.ip = p.ip /\ q.prev_ip = p.prev_ip
      /\ q.cur = p.cur /\ q.prev = p.prev
  BY <1>3 DEF Entry
<1> HIDE DEF q
<1>6. Addressed(q)
  BY <1>3, <1>5 DEF Addressed, Agrees, Sessionless
<1> QED
  BY <1>3, <1>4, <1>5, <1>6

\* A reload that gives a pending address to another ends the offer.
LEMMA WithdrawnAddressed ==
    ASSUME NEW e \in Entry, Addressed(e), NEW c
    PROVE  /\ Addressed(Withdrawn(c, e))
           /\ Withdrawn(c, e).active = e.active /\ Withdrawn(c, e).addr = e.addr
           /\ Withdrawn(c, e).registered = e.registered
<1> DEFINE q == [e EXCEPT !.pending = NoAddr, !.next = NoAddr, !.next_born = 0]
<1>1. /\ q.next = NoAddr /\ q.pending = NoAddr
      /\ q.active = e.active /\ q.registered = e.registered /\ q.auto = e.auto
      /\ q.id = e.id /\ q.addr = e.addr /\ q.ip = e.ip /\ q.prev_ip = e.prev_ip
      /\ q.cur = e.cur /\ q.prev = e.prev
  BY DEF Entry
<1>2. Withdrawn(c, e) \in {e, q}
  BY DEF Withdrawn
<1> HIDE DEF q
<1>3. Addressed(q)
  BY <1>1 DEF Addressed, Agrees, Sessionless
<1> QED
  BY <1>1, <1>2, <1>3

\* A packet on a session of the entry.
LEMMA SeenAddressed ==
    ASSUME NEW e \in Entry, Addressed(e), NEW from \in Peers
    PROVE  Addressed(Seen(e, from)) /\ Seen(e, from).active = e.active /\ Seen(e, from).addr = from
<1> DEFINE f == Seen(e, from)
<1>1. f.addr = from /\ SameBut(f, e)
  BY DEF Seen, Entry, SameBut
<1> HIDE DEF f
<1>2. Addressed(f) /\ f.active = e.active
  BY <1>1, SameAddressed DEF SameBut
<1> QED
  BY <1>1, <1>2 DEF f

\* The entry after the first packet on its next session
FirstOn(e, from, until) ==
    [Seen(e, from) EXCEPT
        !.prev = e.cur, !.prev_until = until, !.prev_ip = e.ip,
        !.cur = e.next, !.next = NoAddr, !.next_born = 0,
        !.ip = IF e.pending # NoAddr THEN e.pending ELSE @, !.pending = NoAddr]

\* The first packet on the next session: the addresses move with the sessions.
LEMMA FirstDataAddressed ==
    ASSUME NEW e \in Entry, Addressed(e), e.next # NoAddr, NEW from \in Peers, NEW until, now \in Nat
    PROVE  LET x == FirstOn(e, from, until)
           IN /\ Addressed(x) /\ x.active = e.active /\ x.addr = from
              /\ x.registered = e.registered
<1> DEFINE f == Seen(e, from)
           x == FirstOn(e, from, until)
           moved == IF e.pending # NoAddr THEN e.pending ELSE f.ip
<1>1. /\ f.addr = from /\ f.ip = e.ip /\ f.active = e.active /\ f.registered = e.registered
      /\ f.auto = e.auto /\ f.id = e.id
  BY DEF Seen, Entry
<1>0. f \in Entry
  BY Zenon DEF Seen, Entry
<1>2. x = [f EXCEPT !.prev = e.cur, !.prev_until = until, !.prev_ip = e.ip,
                    !.cur = e.next, !.next = NoAddr, !.next_born = 0,
                    !.ip = moved, !.pending = NoAddr]
  BY DEF FirstOn
<1> HIDE DEF f, x, moved
<1>3. /\ x.prev = e.cur /\ x.prev_ip = e.ip /\ x.cur = e.next /\ x.next = NoAddr
      /\ x.ip = moved /\ x.pending = NoAddr
      /\ x.active = f.active /\ x.registered = f.registered /\ x.auto = f.auto
      /\ x.id = f.id /\ x.addr = f.addr
  BY <1>0, <1>2 DEF Entry
<1>4. moved = IF e.pending # NoAddr THEN e.pending ELSE e.ip
  BY <1>1 DEF moved
<1>5. e.registered
  BY DEF Addressed, Sessionless
<1>6. Addressed(x)
  BY <1>1, <1>3, <1>4, <1>5 DEF Addressed, Agrees
<1> QED
  BY <1>1, <1>3, <1>6 DEF x

\* The strengthening is an invariant.
LEMMA AddressInvariant == Spec => []AddressInv
<1>1. Init => AddressInv
  <2> SUFFICES ASSUME Init PROVE AddressInv
    OBVIOUS
  <2>1. \A s \in Slots : clients[s] = Free
    BY DEF Init
  <2>2. TypeOK
    BY BlankType DEF Init, TypeOK
  <2> QED
    BY <2>1, <2>2, FreeAddressed DEF AddressInv, OneConnection
<1>2. AddressInv /\ TypeOK' /\ [Next]_vars => AddressInv'
  <2> SUFFICES ASSUME AddressInv, TypeOK', [Next]_vars
               PROVE  OneConnection(clients') /\ \A s \in Slots : Addressed(clients'[s])
    BY DEF AddressInv, OneConnection
  <2>0. clients \in [Slots -> Entry] /\ OneConnection(clients) /\ \A s \in Slots : Addressed(clients[s])
    BY DEF AddressInv, TypeOK
  <2>1. ASSUME NEW r \in Requests, NEW from \in Peers, AnswerInit(r, from)
        PROVE  OneConnection(clients') /\ \A s \in Slots : Addressed(clients'[s])
    <3>1. PICK c \in EntryFor(r, from) : \E ip \in Offers(c, r, from) :
             clients' = WithEntry(c, Answered(c, r, from, ip))
      BY <2>1 DEF AnswerInit
    <3>2. PICK ip \in Offers(c, r, from) : clients' = WithEntry(c, Answered(c, r, from, ip))
      BY <3>1
    <3>3. CanSend(r, from)
      BY <2>1 DEF AnswerInit
    <3>4. c \in ClaimType /\ OwnEntry(c, r) /\ OthersKept(c, from)
      BY <3>3, EntryForKept
    <3>5. ip \in Addrs
      BY <3>4, OffersType DEF AddressInv
    <3>6. /\ Addressed(Answered(c, r, from, ip))
          /\ Tcp => Answered(c, r, from, ip).addr = from
      BY <3>3, <3>4, <3>5, HandshakeAddressed
    <3> QED
      BY <3>2, <3>4, <3>6, WrittenAddressed
  <2>2. ASSUME NEW r \in Requests, NEW from \in Peers, FailInit(r, from)
        PROVE  OneConnection(clients') /\ \A s \in Slots : Addressed(clients'[s])
    <3>1. PICK c \in EntryFor(r, from) :
             clients' = WithEntry(c, IF c.fresh THEN Free ELSE Entered(c, r, from))
      BY <2>2 DEF FailInit
    <3>2. CanSend(r, from)
      BY <2>2 DEF FailInit
    <3>3. c \in ClaimType /\ OwnEntry(c, r) /\ OthersKept(c, from)
      BY <3>2, EntryForKept
    <3>4. CASE c.fresh
      BY <3>1, <3>3, <3>4, FreeAddressed, WrittenAddressed
    <3>5. CASE ~c.fresh
      BY <3>1, <3>2, <3>3, <3>5, FailedAddressed, WrittenAddressed
    <3> QED
      BY <3>4, <3>5
  \* The steps that give no slot to another connection
  <2>3. ASSUME \A t \in Slots : \/ clients'[t] = Free
                                \/ /\ Addressed(clients'[t])
                                   /\ clients'[t].active = clients[t].active
                                   /\ Tcp => clients'[t].addr = clients[t].addr
        PROVE  OneConnection(clients') /\ \A s \in Slots : Addressed(clients'[s])
    BY <2>0, <2>3, FreeAddressed DEF OneConnection
  <2>4. ASSUME NEW s \in Slots, NEW from \in Peers, HandleData(s, from)
        PROVE  OneConnection(clients') /\ \A t \in Slots : Addressed(clients'[t])
    <3>1. \A t \in Slots : clients'[t] = IF t = s THEN Seen(clients[s], from) ELSE clients[t]
      BY <2>0, <2>4 DEF HandleData
    <3>2. Tcp => clients[s].addr = from
      BY <2>4 DEF HandleData, DataOk
    <3>3. /\ Addressed(Seen(clients[s], from)) /\ Seen(clients[s], from).active = clients[s].active
          /\ Seen(clients[s], from).addr = from
      BY <2>0, SeenAddressed
    <3> QED
      BY <2>0, <2>3, <3>1, <3>2, <3>3
  <2>5. ASSUME NEW s \in Slots, NEW from \in Peers, HandleFirstData(s, from)
        PROVE  OneConnection(clients') /\ \A t \in Slots : Addressed(clients'[t])
    <3> DEFINE e == clients[s]
               x == FirstOn(e, from, now + Grace)
    <3>1. clients' = [clients EXCEPT ![s] = x] /\ e.next # NoAddr /\ (Tcp => e.addr = from)
      BY <2>5 DEF HandleFirstData, DataOk, FirstOn
    <3>2. e \in Entry /\ Addressed(e) /\ now \in Nat
      BY <2>0 DEF AddressInv, TypeOK
    <3>3. Addressed(x) /\ x.active = e.active /\ x.addr = from
      BY <3>1, <3>2, FirstDataAddressed
    <3> HIDE DEF x
    <3>4. \A t \in Slots : clients'[t] = IF t = s THEN x ELSE clients[t]
      BY <2>0, <3>1
    <3> QED
      BY <2>0, <2>3, <3>1, <3>3, <3>4
  <2>6. ASSUME NEW E, NEW S, NEW t \in Slots
        PROVE  Wiped(E, S)[t] = IF t \in S THEN Free ELSE E[t]
    BY DEF Wiped
  <2>7. CASE ExpireClients
    <3>1. PICK S : clients' = Wiped([s \in Slots |-> Aged(clients[s])], S)
      BY <2>7 DEF ExpireClients
    <3>2. \A t \in Slots : clients'[t] = IF t \in S THEN Free ELSE Aged(clients[t])
      BY <2>6, <3>1
    <3>3. \A t \in Slots : /\ Addressed(Aged(clients[t]))
                           /\ Aged(clients[t]).active = clients[t].active
                           /\ Aged(clients[t]).addr = clients[t].addr
      BY <2>0, AgedAddressed
    <3> QED
      BY <2>3, <3>2, <3>3
  <2>8. ASSUME NEW p \in Peers, AcceptTcp(p)
        PROVE  OneConnection(clients') /\ \A t \in Slots : Addressed(clients'[t])
    <3> DEFINE conn == [Blank EXCEPT !.addr = p, !.last_seen = now, !.connected = now]
    <3>1. Addressed(conn)
      <4>1. /\ conn.registered = FALSE /\ conn.cur = NoAddr /\ conn.next = NoAddr
            /\ conn.prev = NoAddr /\ conn.pending = NoAddr
        BY DEF Blank, Free
      <4> HIDE DEF conn
      <4> QED
        BY <4>1 DEF Addressed, Sessionless
    <3>2. conn.addr = p
      BY DEF Blank, Free
    <3>3. \E closed \in SUBSET Slots, s \in Slots :
             clients' = [Wiped(clients, closed) EXCEPT ![s] = conn]
      BY <2>8 DEF AcceptTcp
    <3>4. PICK closed \in SUBSET Slots, s \in Slots :
             clients' = [Wiped(clients, closed) EXCEPT ![s] = conn]
      BY <3>3
    <3>5. \A t \in Slots : clients'[t] = IF t = s THEN conn
                                         ELSE IF t \in closed THEN Free ELSE clients[t]
      <4> HIDE DEF conn
      <4> QED
        BY <3>4 DEF Wiped
    <3> HIDE DEF conn
    <3>6. \A t \in Slots : Addressed(clients'[t])
      BY <2>0, <3>1, <3>5, FreeAddressed
    <3>7. ASSUME NEW t \in Slots, clients'[t].active
          PROVE  \/ t = s /\ clients'[t].addr = p
                 \/ t # s /\ clients'[t] = clients[t] /\ clients[t].addr # p
      <4>1. ~Free.active
        BY FreeAddressed
      <4>2. CASE t = s
        BY <3>2, <3>5, <4>2
      <4>3. CASE t # s
        <5>1. clients'[t] = IF t \in closed THEN Free ELSE clients[t]
          BY <3>5, <4>3
        <5>2. clients'[t] = clients[t]
          BY <3>7, <4>1, <5>1
        <5>3. clients[t].addr # p
          BY <2>8 DEF AcceptTcp
        <5> QED
          BY <4>3, <5>2, <5>3
      <4> QED
        BY <4>2, <4>3
    <3>8. OneConnection(clients')
      BY <2>0, <3>7 DEF OneConnection
    <3> QED
      BY <3>6, <3>8
  <2>9. ASSUME NEW s \in Slots, CloseTcp(s)
        PROVE  OneConnection(clients') /\ \A t \in Slots : Addressed(clients'[t])
    BY <2>0, <2>3, <2>6, <2>9 DEF CloseTcp
  <2>10. ASSUME NEW c \in Configs, Reload(c)
         PROVE  OneConnection(clients') /\ \A t \in Slots : Addressed(clients'[t])
    <3>1. PICK S : clients' = Wiped([s \in Slots |-> Withdrawn(c, clients[s])], S)
      BY <2>10 DEF Reload
    <3>2. \A t \in Slots : clients'[t] = IF t \in S THEN Free ELSE Withdrawn(c, clients[t])
      BY <2>6, <3>1
    <3>3. \A t \in Slots : /\ Addressed(Withdrawn(c, clients[t]))
                           /\ Withdrawn(c, clients[t]).active = clients[t].active
                           /\ Withdrawn(c, clients[t]).addr = clients[t].addr
      BY <2>0, WithdrawnAddressed
    <3> QED
      BY <2>3, <3>2, <3>3
  <2>11. CASE Tick
    BY <2>0, <2>3, <2>11 DEF Tick
  <2>12. CASE UNCHANGED vars
    BY <2>0, <2>3, <2>12 DEF vars
  <2> QED
    BY <2>1, <2>2, <2>4, <2>5, <2>7, <2>8, <2>9, <2>10, <2>11, <2>12 DEF Next
<1> QED
  BY <1>1, <1>2, TypeCorrect, PTL DEF Spec

\* At all times an auto client sends from the address the server takes its
\* packets from: on its current session, on one offered, on the previous one,
\* through offers, failed handshakes, withdrawals and adopted connections.
THEOREM AddressesAgree == Spec => []SessionAddress
<1>1. AddressInv => SessionAddress
  BY DEF AddressInv, Addressed, Agrees, SessionAddress
<1> QED
  BY <1>1, AddressInvariant, PTL

----------------------------------------------------------------------------
(* Connections that have not registered *)

PreauthSlots(E) == {s \in Slots : Preauth(E[s])}
Few(P) == Cardinality(P) <= 1 \/ 2 * Cardinality(P) <= Cardinality(Slots)

\* Fewer of few are few.
LEMMA FewSubset ==
    ASSUME NEW P \in SUBSET Slots, NEW Q \in SUBSET P, Few(P)
    PROVE  Few(Q)
<1>1. IsFiniteSet(Slots)
  BY TableAssumption
<1>2. IsFiniteSet(P)
  BY <1>1, FS_Subset
<1>3. IsFiniteSet(Q) /\ Cardinality(Q) <= Cardinality(P)
  BY <1>2, FS_Subset
<1>4. Cardinality(P) \in Nat /\ Cardinality(Q) \in Nat /\ Cardinality(Slots) \in Nat
  BY <1>1, <1>2, <1>3, FS_CardinalityType
<1> QED
  BY <1>3, <1>4 DEF Few

\* drain_tcp_server_accept(): below the limit there is room for one more.
LEMMA FewAdded ==
    ASSUME NEW P \in SUBSET Slots, NEW s \in Slots, Cardinality(P) < PreauthLimit
    PROVE  Few(P \cup {s})
<1>1. IsFiniteSet(Slots)
  BY TableAssumption
<1>2. IsFiniteSet(P)
  BY <1>1, FS_Subset
<1>3. Cardinality(P) \in Nat /\ Cardinality(Slots) \in Nat
  BY <1>1, <1>2, FS_CardinalityType
<1>4. Cardinality(P \cup {s}) \in {Cardinality(P), Cardinality(P) + 1}
  BY <1>2, FS_AddElement
<1>5. PreauthMax \in Nat
  BY TableAssumption
<1>6. PreauthLimit = 1 \/ (2 * PreauthLimit <= Cardinality(Slots) /\ PreauthLimit \in Nat)
  <2> DEFINE n == Cardinality(Slots)
             half == n \div 2
  <2>1. half \in Nat /\ 2 * half <= n
    <3> HIDE DEF n
    <3>1. n \in Nat
      BY <1>3 DEF n
    <3> QED
      BY <3>1
  <2>2. PreauthLimit = IF half >= PreauthMax THEN PreauthMax ELSE IF half = 0 THEN 1 ELSE half
    BY DEF PreauthLimit
  <2>3. n \in Nat
    BY <1>3
  <2> HIDE DEF half, n
  <2>4. PreauthLimit = 1 \/ (2 * PreauthLimit <= n /\ PreauthLimit \in Nat)
    BY <1>5, <2>1, <2>2, <2>3
  <2> QED
    BY <2>4 DEF n
<1> QED
  BY <1>3, <1>4, <1>6 DEF Few

\* At the limit one goes for the one that comes.
LEMMA FewReplaced ==
    ASSUME NEW P \in SUBSET Slots, NEW x \in P, NEW s \in Slots, Few(P)
    PROVE  Few((P \ {x}) \cup {s})
<1>1. IsFiniteSet(Slots)
  BY TableAssumption
<1>2. IsFiniteSet(P)
  BY <1>1, FS_Subset
<1>3. IsFiniteSet(P \ {x}) /\ Cardinality(P \ {x}) = Cardinality(P) - 1
  BY <1>2, FS_RemoveElement
<1>4. Cardinality((P \ {x}) \cup {s}) \in {Cardinality(P \ {x}), Cardinality(P \ {x}) + 1}
  BY <1>3, FS_AddElement
<1>5. Cardinality(P) \in Nat /\ Cardinality(P \ {x}) \in Nat /\ Cardinality(Slots) \in Nat
  BY <1>1, <1>2, <1>3, FS_CardinalityType
<1> QED
  BY <1>3, <1>4, <1>5 DEF Few

\* A handshake that has not taken a new slot finds its entry as it was.
LEMMA ClaimKnown ==
    ASSUME AddressInv, NEW r \in Requests, NEW from \in Peers, NEW c \in EntryFor(r, from), ~c.fresh
    PROVE  /\ c.slot \in Slots
           /\ c.table[c.slot].active = clients[c.slot].active
           /\ c.table[c.slot].registered = clients[c.slot].registered
<1> DEFINE Same(d) == /\ d.slot \in Slots
                      /\ d.table \in [Slots -> Entry]
                      /\ d.table[d.slot].active = clients[d.slot].active
                      /\ d.table[d.slot].registered = clients[d.slot].registered
<1>0. clients \in [Slots -> Entry]
  BY DEF AddressInv, TypeOK
<1>1. ASSUME NEW d \in AllocClient PROVE d.fresh
  <2> DEFINE blank(s) == [clients EXCEPT ![s] = Blank]
  <2>1. PICK s \in Slots : \E L : d = Claim(s, TRUE, blank(s), L)
    <3> HIDE DEF blank
    <3> QED
      BY DEF AllocClient, blank
  <2>2. PICK L : d = Claim(s, TRUE, blank(s), L)
    BY <2>1
  <2> HIDE DEF blank
  <2> QED
    BY <2>2 DEF Claim
<1>2. ASSUME NEW s \in Slots, clients[s].active PROVE Same(Claim(s, FALSE, AdoptTcp(s, from), leases))
  <2>1. SameBut(AdoptTcp(s, from)[s], clients[s])
    BY <1>2, AdoptTcpKept
  <2>2. AdoptTcp(s, from) \in [Slots -> Entry]
    BY <1>2, AdoptTcpType DEF AddressInv
  <2> QED
    BY <2>1, <2>2 DEF Claim, SameBut
<1>3. ASSUME NEW s \in Slots PROVE Same(Claim(s, FALSE, clients, leases))
  BY <1>0 DEF Claim
<1> HIDE DEF Same
<1>4. ASSUME NEW id, NEW d \in AutoEntryFor(id, from), ~d.fresh PROVE Same(d)
  BY <1>1, <1>2, <1>3, <1>4, LookupType, LookupActive DEF AutoEntryFor
<1>5. ASSUME NEW id, NEW key, NEW want, NEW d \in ManualEntryFor(id, key, want, from), ~d.fresh,
             want \in Addrs
      PROVE  Same(d)
  <2> DEFINE by_addr == FindByAddr(clients, from)
             by_ip == FindByIp(clients, want)
  <2>1. /\ by_ip \in Slots \cup {NoSlot} /\ by_addr \in Slots \cup {NoSlot}
        /\ by_ip # NoSlot => clients[by_ip].active
    BY LookupType, LookupActive
  <2>2. PICK b : /\ \/ by_ip \in Slots /\ clients[by_ip].active
                       /\ b = Claim(by_ip, FALSE, AdoptTcp(by_ip, from), leases)
                    \/ by_addr \in Slots /\ b = Claim(by_addr, FALSE, clients, leases)
                    \/ b \in AllocClient
                 /\ d = [b EXCEPT !.table[b.slot].ip = want]
    BY <1>5, <2>1 DEF ManualEntryFor
  <2>3. CASE b \in AllocClient
    <3>1. b.fresh /\ b \in ClaimType
      BY <1>1, <2>3, AllocClientType DEF AddressInv
    <3>2. d.fresh
      BY <2>2, <3>1 DEF ClaimType
    <3> QED
      BY <1>5, <3>2
  <2>4. CASE b \notin AllocClient
    <3> HIDE DEF by_ip, by_addr
    <3>1. Same(b)
      BY <1>2, <1>3, <2>2, <2>4
    <3>2. DOMAIN b = DOMAIN Claim(b.slot, FALSE, clients, leases)
      BY <2>2, <2>4 DEF Claim
    <3>3. d.slot = b.slot /\ d.table = [b.table EXCEPT ![b.slot].ip = want]
      BY <2>2, <3>2 DEF Claim
    <3>4. b.table[b.slot] \in Entry /\ b.slot \in Slots /\ b.table \in [Slots -> Entry]
      BY <3>1 DEF Same
    <3>5. d.table[d.slot] = [b.table[b.slot] EXCEPT !.ip = want]
      BY <3>3, <3>4
    <3>6. d.table \in [Slots -> Entry]
      <4>1. d \in ClaimType
        BY <1>5, ManualEntryForType DEF AddressInv
      <4> QED
        BY <4>1 DEF ClaimType
    <3>7. /\ d.table[d.slot].active = b.table[b.slot].active
          /\ d.table[d.slot].registered = b.table[b.slot].registered
      BY <3>4, <3>5 DEF Entry
    <3> QED
      BY <3>1, <3>3, <3>6, <3>7 DEF Same
  <2> QED
    BY <2>3, <2>4
<1>6. ~r.auto => r.want \in Addrs
  BY DEF Requests
<1>7. Same(c)
  BY <1>4, <1>5, <1>6 DEF EntryFor
<1> QED
  BY <1>7 DEF Same

\* Connections that have not registered stay few, however many slots there
\* are and whichever connections come, register, fail to and close.
THEOREM PreauthFew == Spec => []PreauthBounded
<1>1. Init => PreauthBounded
  <2> SUFFICES ASSUME Init PROVE PreauthBounded
    OBVIOUS
  <2>1. PreauthSlots(clients) = {}
    BY FreeAddressed DEF Init, PreauthSlots, Preauth
  <2> QED
    BY <2>1, FS_EmptySet DEF PreauthBounded, PreauthSlots
<1>2. AddressInv /\ PreauthBounded /\ [Next]_vars => PreauthBounded'
  <2> SUFFICES ASSUME AddressInv, PreauthBounded, [Next]_vars PROVE Few(PreauthSlots(clients'))
    BY DEF PreauthBounded, PreauthSlots, Few, Preauth
  <2>0. /\ clients \in [Slots -> Entry] /\ \A s \in Slots : Addressed(clients[s]) /\ now \in Nat
        /\ Few(PreauthSlots(clients))
    BY DEF AddressInv, TypeOK, PreauthBounded, PreauthSlots, Few
  \* The steps that leave or end each entry that has not registered
  <2>1. ASSUME \A t \in Slots : \/ ~clients'[t].active \/ clients'[t].registered
                                \/ /\ clients'[t].active = clients[t].active
                                   /\ clients'[t].registered = clients[t].registered
        PROVE  Few(PreauthSlots(clients'))
    <3>1. PreauthSlots(clients') \subseteq PreauthSlots(clients) /\ PreauthSlots(clients) \subseteq Slots
      BY <2>1 DEF PreauthSlots, Preauth
    <3> QED
      BY <2>0, <3>1, FewSubset
  <2>2. ASSUME NEW c \in ClaimType, NEW e, clients' = WithEntry(c, e), NEW from, OthersKept(c, from),
               \/ ~e.active \/ e.registered
               \/ e.active = clients[c.slot].active /\ e.registered = clients[c.slot].registered
        PROVE  Few(PreauthSlots(clients'))
    <3>1. \A t \in Slots : clients'[t] = IF t = c.slot THEN e ELSE c.table[t]
      BY <2>2 DEF WithEntry, ClaimType
    <3>2. \A t \in Slots \ {c.slot} : clients'[t] \in {clients[t], Free}
      BY <2>2, <3>1 DEF OthersKept
    <3> QED
      BY <2>1, <2>2, <3>1, <3>2, FreeAddressed
  <2>3. ASSUME NEW r \in Requests, NEW from \in Peers, AnswerInit(r, from)
        PROVE  Few(PreauthSlots(clients'))
    <3>1. PICK c \in EntryFor(r, from) : \E ip \in Offers(c, r, from) :
             clients' = WithEntry(c, Answered(c, r, from, ip))
      BY <2>3 DEF AnswerInit
    <3>2. PICK ip \in Offers(c, r, from) : clients' = WithEntry(c, Answered(c, r, from, ip))
      BY <3>1
    <3>3. c \in ClaimType /\ OthersKept(c, from)
      BY <2>3, EntryForKept DEF AnswerInit
    <3>4. ip \in Addrs
      BY <3>3, OffersType DEF AddressInv
    <3>5. Answered(c, r, from, ip).registered
      BY <3>3, <3>4, AnsweredRegistered
    <3> QED
      BY <2>2, <3>2, <3>3, <3>5
  <2>4. ASSUME NEW r \in Requests, NEW from \in Peers, FailInit(r, from)
        PROVE  Few(PreauthSlots(clients'))
    <3>1. PICK c \in EntryFor(r, from) :
             clients' = WithEntry(c, IF c.fresh THEN Free ELSE Entered(c, r, from))
      BY <2>4 DEF FailInit
    <3>2. c \in ClaimType /\ OthersKept(c, from)
      BY <2>4, EntryForKept DEF FailInit
    <3>3. CASE c.fresh
      BY <2>2, <3>1, <3>2, <3>3, FreeAddressed
    <3>4. CASE ~c.fresh
      <4> DEFINE e == Entered(c, r, from)
      <4>1. e.active = c.table[c.slot].active /\ e.registered = c.table[c.slot].registered
        BY <3>2, EnteredKeeps
      <4>2. e.active = clients[c.slot].active /\ e.registered = clients[c.slot].registered
        BY <3>4, <4>1, ClaimKnown
      <4>3. clients' = WithEntry(c, e)
        BY <3>1, <3>4
      <4> HIDE DEF e
      <4> QED
        BY <2>2, <3>2, <4>2, <4>3
    <3> QED
      BY <3>3, <3>4
  <2>5. ASSUME NEW s \in Slots, NEW from \in Peers, HandleData(s, from)
        PROVE  Few(PreauthSlots(clients'))
    <3>1. \A t \in Slots : clients'[t] = IF t = s THEN Seen(clients[s], from) ELSE clients[t]
      BY <2>0, <2>5 DEF HandleData
    <3>2. /\ Seen(clients[s], from).active = clients[s].active
          /\ Seen(clients[s], from).registered = clients[s].registered
      BY <2>0, SeenKeeps
    <3> QED
      BY <2>1, <3>1, <3>2
  <2>6. ASSUME NEW s \in Slots, NEW from \in Peers, HandleFirstData(s, from)
        PROVE  Few(PreauthSlots(clients'))
    <3> DEFINE e == clients[s]
               x == FirstOn(e, from, now + Grace)
    <3>1. clients' = [clients EXCEPT ![s] = x] /\ e.next # NoAddr
      BY <2>6 DEF HandleFirstData, FirstOn
    <3>2. x.active = e.active /\ x.registered = e.registered
      BY <2>0, <3>1, FirstDataAddressed
    <3> HIDE DEF x
    <3>3. \A t \in Slots : clients'[t] = IF t = s THEN x ELSE clients[t]
      BY <2>0, <3>1
    <3> QED
      BY <2>1, <3>2, <3>3
  <2>7. ASSUME NEW E, NEW S, NEW t \in Slots
        PROVE  Wiped(E, S)[t] = IF t \in S THEN Free ELSE E[t]
    BY DEF Wiped
  <2>8. CASE ExpireClients
    <3>1. PICK S : clients' = Wiped([s \in Slots |-> Aged(clients[s])], S)
      BY <2>8 DEF ExpireClients
    <3>2. \A t \in Slots : clients'[t] = IF t \in S THEN Free ELSE Aged(clients[t])
      BY <2>7, <3>1
    <3>3. \A t \in Slots : /\ Aged(clients[t]).active = clients[t].active
                           /\ Aged(clients[t]).registered = clients[t].registered
      BY <2>0, AgedAddressed
    <3> QED
      BY <2>1, <3>2, <3>3, FreeAddressed
  <2>9. ASSUME NEW p \in Peers, AcceptTcp(p)
        PROVE  Few(PreauthSlots(clients'))
    <3> DEFINE pre == PreauthSlots(clients)
               conn == [Blank EXCEPT !.addr = p, !.last_seen = now, !.connected = now]
    <3>1. PICK closed \in IF Cardinality(pre) < PreauthLimit THEN {{}} ELSE {{x} : x \in pre} :
             \E s \in Slots : clients' = [Wiped(clients, closed) EXCEPT ![s] = conn]
      BY <2>9 DEF AcceptTcp, PreauthSlots
    <3>2. PICK s \in Slots : clients' = [Wiped(clients, closed) EXCEPT ![s] = conn]
      BY <3>1
    <3> HIDE DEF conn
    <3>3. \A t \in Slots \ {s} : clients'[t] = IF t \in closed THEN Free ELSE clients[t]
      BY <3>2 DEF Wiped
    <3>4. PreauthSlots(clients') \subseteq (pre \ closed) \cup {s}
      BY <3>3, FreeAddressed DEF PreauthSlots, Preauth
    <3>5. pre \in SUBSET Slots /\ Few(pre)
      BY <2>0 DEF PreauthSlots
    <3> HIDE DEF pre
    <3>6. Few((pre \ closed) \cup {s})
      <4>1. CASE Cardinality(pre) < PreauthLimit
        <5>1. (pre \ closed) \cup {s} = pre \cup {s}
          BY <3>1, <4>1
        <5> QED
          BY <3>5, <4>1, <5>1, FewAdded
      <4>2. CASE ~(Cardinality(pre) < PreauthLimit)
        BY <3>1, <3>5, <4>2, FewReplaced
      <4> QED
        BY <4>1, <4>2
    <3>7. (pre \ closed) \cup {s} \in SUBSET Slots
      BY <3>5
    <3> QED
      BY <3>4, <3>6, <3>7, FewSubset
  <2>10. ASSUME NEW s \in Slots, CloseTcp(s)
         PROVE  Few(PreauthSlots(clients'))
    BY <2>1, <2>7, <2>10, FreeAddressed DEF CloseTcp
  <2>11. ASSUME NEW c \in Configs, Reload(c)
         PROVE  Few(PreauthSlots(clients'))
    <3>1. PICK S : clients' = Wiped([s \in Slots |-> Withdrawn(c, clients[s])], S)
      BY <2>11 DEF Reload
    <3>2. \A t \in Slots : clients'[t] = IF t \in S THEN Free ELSE Withdrawn(c, clients[t])
      BY <2>7, <3>1
    <3>3. \A t \in Slots : /\ Withdrawn(c, clients[t]).active = clients[t].active
                           /\ Withdrawn(c, clients[t]).registered = clients[t].registered
      BY <2>0, WithdrawnAddressed
    <3> QED
      BY <2>1, <3>2, <3>3, FreeAddressed
  <2>12. CASE Tick
    BY <2>1, <2>12 DEF Tick
  <2>13. CASE UNCHANGED vars
    BY <2>1, <2>13 DEF vars
  <2> QED
    BY <2>3, <2>4, <2>5, <2>6, <2>8, <2>9, <2>10, <2>11, <2>12, <2>13 DEF Next
<1> QED
  BY <1>1, <1>2, AddressInvariant, PTL DEF Spec

=============================================================================
