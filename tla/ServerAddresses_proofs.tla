---------------------- MODULE ServerAddresses_proofs ----------------------
(***************************************************************************)
(* Theorems about who holds an address in ServerTable and for whom it is   *)
(* leased, for every value of its constants.                               *)
(*                                                                         *)
(* An auto client's address is its own because of who can come to a slot   *)
(* of the table: the lemmas follow server_entry_for() from the lookups to  *)
(* the entry it gives, and say what that entry may hold.                   *)
(***************************************************************************)
EXTENDS ServerTable_proofs

----------------------------------------------------------------------------
(* The strengthening *)

\* A manual client: the one kind that may share an address (its two entries,
\* or two clients that name one address on connections of their own)
Manual(e) == e.registered /\ ~e.auto

\* Over UDP an entry is a registered client's; a key is a registered one's;
\* only a client with an ID is in auto mode
KnownEntry(e) ==
    /\ e.registered => e.active
    /\ ~e.registered => e.psk = NoKey
    /\ ~Tcp /\ e.active => e.registered
    /\ e.auto => e.id \in AutoIds

\* An auto client has one entry
OneId(E) ==
    \A s, t \in Slots :
        E[s].active /\ E[t].active /\ E[s].id = E[t].id /\ E[s].id \in AutoIds => s = t

\* Only manual clients share an address
Exclusive(E) ==
    \A s, t \in Slots : \A ip \in Addrs :
        s # t /\ HoldsIp(E[s], ip) /\ HoldsIp(E[t], ip) => Manual(E[s]) /\ Manual(E[t])

HeldTable(E) == (\A s \in Slots : KnownEntry(E[s])) /\ OneId(E) /\ Exclusive(E)

HeldInv == AddressInv /\ HeldTable(clients)

\* e is what is left of f: the same client, with no address it did not hold
LeftOf(e, f) ==
    /\ e.active = f.active /\ e.registered = f.registered /\ e.auto = f.auto
    /\ e.id = f.id /\ e.psk = f.psk
    /\ \A ip \in Addrs : HoldsIp(e, ip) => HoldsIp(f, ip)

\* e is f with another address of its own, for the same client or not yet
ClaimedFrom(e, f, ip) ==
    /\ e.active = f.active /\ e.registered = f.registered /\ e.auto = f.auto
    /\ e.id = f.id /\ e.psk = f.psk /\ e.ip = ip
    /\ e.pending = f.pending /\ e.prev_ip = f.prev_ip
    /\ e.cur = f.cur /\ e.next = f.next /\ e.prev = f.prev

\* e holds what f holds, and perhaps the address
HoldsAlso(e, f, own) == \A ip : HoldsIp(e, ip) => HoldsIp(f, ip) \/ ip = own

\* Every other entry of a claim's table is as it was, or wiped: then it was no
\* auto client's
OthersLeft(c) ==
    \A t \in Slots \ {c.slot} :
        \/ c.table[t] = clients[t]
        \/ c.table[t] = Free /\ ~(clients[t].registered /\ clients[t].auto)

\* No other entry of a claim's table has the ID
NotElsewhere(c, id) == \A t \in Slots \ {c.slot} : c.table[t].active => c.table[t].id # id

\* A new slot was free, or its client ends with the leases it leaves
Emptied(c) ==
    \/ ~clients[c.slot].active /\ c.leases = leases
    \/ ~Holding /\ c.leases \in EndLeases(conf, clients, leases, {c.slot})

\* Nobody is the client of the ID
Unknown(id) == \A t \in Slots : clients[t].active => clients[t].id # id

\* The entry a claim starts from
Base(c) == IF c.fresh THEN Blank ELSE clients[c.slot]

----------------------------------------------------------------------------
(* Tables *)

\* A wiped entry is nobody's and holds nothing, one just taken too.
LEMMA FreeHeld ==
    /\ KnownEntry(Free) /\ ~Free.active /\ ~Free.registered
    /\ \A ip : ~HoldsIp(Free, ip) /\ ~HoldsIp(Blank, ip)
    /\ Blank.active /\ ~Blank.registered /\ Blank.psk = NoKey /\ ~Blank.auto
    /\ Blank.ip = NoAddr /\ Blank.cur = NoAddr
<1>1. /\ Free.active = FALSE /\ Free.registered = FALSE /\ Free.auto = FALSE
      /\ Free.psk = NoKey
  BY DEF Free
<1>2. /\ Blank.active = TRUE /\ Blank.registered = FALSE /\ Blank.auto = FALSE
      /\ Blank.psk = NoKey /\ Blank.ip = NoAddr /\ Blank.cur = NoAddr
      /\ Blank.pending = NoAddr /\ Blank.prev = NoAddr
  BY DEF Free, Blank
<1> QED
  BY <1>1, <1>2 DEF KnownEntry, HoldsIp

\* A table of which each entry is left or wiped.
LEMMA LeftHeld ==
    ASSUME NEW E, HeldTable(E), NEW F,
           \A s \in Slots : F[s] = Free \/ LeftOf(F[s], E[s])
    PROVE  HeldTable(F)
<1>1. \A s \in Slots : KnownEntry(F[s])
  BY FreeHeld DEF HeldTable, LeftOf, KnownEntry
<1>2. OneId(F)
  <2> SUFFICES ASSUME NEW s \in Slots, NEW t \in Slots, F[s].active, F[t].active,
                      F[s].id = F[t].id, F[s].id \in AutoIds
               PROVE  s = t
    BY DEF OneId
  <2>1. LeftOf(F[s], E[s]) /\ LeftOf(F[t], E[t])
    BY FreeHeld
  <2> QED
    BY <2>1 DEF HeldTable, OneId, LeftOf
<1>3. Exclusive(F)
  <2> SUFFICES ASSUME NEW s \in Slots, NEW t \in Slots, NEW ip \in Addrs, s # t,
                      HoldsIp(F[s], ip), HoldsIp(F[t], ip)
               PROVE  Manual(F[s]) /\ Manual(F[t])
    BY DEF Exclusive
  <2>1. LeftOf(F[s], E[s]) /\ LeftOf(F[t], E[t])
    BY FreeHeld
  <2>2. HoldsIp(E[s], ip) /\ HoldsIp(E[t], ip)
    BY <2>1 DEF LeftOf
  <2>3. Manual(E[s]) /\ Manual(E[t])
    BY <2>2 DEF HeldTable, Exclusive
  <2> QED
    BY <2>1, <2>3 DEF Manual, LeftOf
<1> QED
  BY <1>1, <1>2, <1>3 DEF HeldTable

\* The table a handshake leaves: entry e is the claimed one, each other is as
\* it was or wiped.  An address of e that its slot did not hold is nobody
\* else's, but for manual clients.
LEMMA WrittenHeld ==
    ASSUME HeldTable(clients), NEW c \in ClaimType,
           \A t \in Slots \ {c.slot} : c.table[t] \in {clients[t], Free},
           NEW e, KnownEntry(e),
           e.active /\ e.id \in AutoIds =>
              \A t \in Slots \ {c.slot} : c.table[t].active => c.table[t].id # e.id,
           \A ip \in Addrs : HoldsIp(e, ip) =>
              \/ HoldsIp(clients[c.slot], ip) /\ (Manual(clients[c.slot]) => Manual(e))
              \/ \A t \in Slots \ {c.slot} :
                    HoldsIp(c.table[t], ip) => Manual(c.table[t]) /\ Manual(e)
    PROVE  HeldTable(WithEntry(c, e))
<1> DEFINE E == WithEntry(c, e)
<1>0. c.slot \in Slots
  BY DEF ClaimType
<1>1. \A t \in Slots : E[t] = IF t = c.slot THEN e ELSE c.table[t]
  BY DEF WithEntry, ClaimType
<1> HIDE DEF E
<1>2. \A t \in Slots \ {c.slot} : E[t] = c.table[t] /\ E[t] \in {clients[t], Free}
  BY <1>1
<1>3. \A s \in Slots : KnownEntry(E[s])
  BY <1>1, <1>2, FreeHeld DEF HeldTable
<1>4. OneId(E)
  <2> SUFFICES ASSUME NEW s \in Slots, NEW t \in Slots, E[s].active, E[t].active,
                      E[s].id = E[t].id, E[s].id \in AutoIds
               PROVE  s = t
    BY DEF OneId
  <2>1. CASE s = c.slot \/ t = c.slot
    BY <1>0, <1>1, <1>2, <2>1
  <2>2. CASE s # c.slot /\ t # c.slot
    <3>1. E[s] = clients[s] /\ E[t] = clients[t]
      BY <1>2, <2>2, FreeHeld
    <3> QED
      BY <3>1 DEF HeldTable, OneId
  <2> QED
    BY <2>1, <2>2
<1>5. ASSUME NEW t \in Slots, t # c.slot, NEW ip \in Addrs, HoldsIp(e, ip), HoldsIp(E[t], ip)
      PROVE  Manual(e) /\ Manual(E[t])
  <2>1. E[t] = c.table[t] /\ E[t] = clients[t]
    BY <1>2, <1>5, FreeHeld
  <2>2. CASE HoldsIp(clients[c.slot], ip) /\ (Manual(clients[c.slot]) => Manual(e))
    <3>1. Manual(clients[c.slot]) /\ Manual(clients[t])
      BY <1>0, <1>5, <2>1, <2>2 DEF HeldTable, Exclusive
    <3> QED
      BY <2>1, <2>2, <3>1
  <2>3. CASE HoldsIp(c.table[t], ip) => Manual(c.table[t]) /\ Manual(e)
    BY <1>5, <2>1, <2>3
  <2> QED
    BY <1>5, <2>2, <2>3
<1>6. Exclusive(E)
  <2> SUFFICES ASSUME NEW s \in Slots, NEW t \in Slots, NEW ip \in Addrs, s # t,
                      HoldsIp(E[s], ip), HoldsIp(E[t], ip)
               PROVE  Manual(E[s]) /\ Manual(E[t])
    BY DEF Exclusive
  <2>1. CASE s = c.slot
    BY <1>1, <1>5, <2>1
  <2>2. CASE t = c.slot
    BY <1>1, <1>5, <2>2
  <2>3. CASE s # c.slot /\ t # c.slot
    <3>1. E[s] = clients[s] /\ E[t] = clients[t]
      BY <1>2, <2>3, FreeHeld
    <3> QED
      BY <3>1 DEF HeldTable, Exclusive
  <2> QED
    BY <2>1, <2>2, <2>3
<1> QED
  BY <1>3, <1>4, <1>6 DEF HeldTable, E

----------------------------------------------------------------------------
(* Claims *)

\* server_find_by_ip(): a holder, or nobody holds the address.
LEMMA LookupHolder ==
    ASSUME NEW E, NEW ip
    PROVE  /\ FindByIp(E, ip) \in Slots => HoldsIp(E[FindByIp(E, ip)], ip)
           /\ FindByIp(E, ip) = NoSlot => \A s \in Slots : ~HoldsIp(E[s], ip)
<1> DEFINE owners == {s \in Slots : HoldsIp(E[s], ip) /\ E[s].ip = ip}
           holders == {s \in Slots : HoldsIp(E[s], ip)}
           S == IF owners # {} THEN owners ELSE holders
<1>1. FindByIp(E, ip) = SomeSlot(S)
  BY DEF FindByIp
<1>2. S \subseteq holders /\ (S = {} => holders = {})
  OBVIOUS
<1>3. NoSlot \notin Slots
  BY TableAssumption
<1>4. ASSUME FindByIp(E, ip) = NoSlot PROVE S = {}
  <2> HIDE DEF S
  <2> SUFFICES ASSUME S # {} PROVE FALSE
    OBVIOUS
  <2>1. SomeSlot(S) \in S
    BY DEF SomeSlot
  <2> QED
    BY <1>1, <1>2, <1>3, <1>4, <2>1
<1>5. ASSUME FindByIp(E, ip) \in Slots PROVE FindByIp(E, ip) \in S
  <2> HIDE DEF S
  <2> QED
    BY <1>1, <1>3, <1>5, SomeSlotType
<1> HIDE DEF S
<1> QED
  BY <1>2, <1>4, <1>5

\* server_alloc_client(): the slot is emptied, with the leases its client
\* leaves if there was one.
LEMMA AllocClientDoes ==
    ASSUME TypeOK, NEW c \in AllocClient
    PROVE  /\ c \in ClaimType /\ c.fresh /\ c.slot \in Slots
           /\ c.table = [clients EXCEPT ![c.slot] = Blank]
           /\ Emptied(c)
<1> DEFINE free == {s \in Slots : ~clients[s].active}
           oldest == {s \in Slots : \A t \in Slots :
                          clients[s].last_seen <= clients[t].last_seen}
           blank(s) == [clients EXCEPT ![s] = Blank]
<1>0. c \in ClaimType
  BY AllocClientType
<1>1. CASE free # {}
  <2>1. PICK s \in free : c = Claim(s, TRUE, blank(s), leases)
    BY <1>1 DEF AllocClient
  <2>2. /\ c.slot = s /\ c.fresh = TRUE /\ c.leases = leases /\ c.table = blank(s)
    <3> HIDE DEF blank
    <3> QED
      BY <2>1 DEF Claim
  <2> QED
    BY <1>0, <2>2 DEF Emptied
<1>2. CASE free = {}
  <2>1. /\ c \in UNION {{Claim(s, TRUE, blank(s), L) :
                        L \in EndLeases(conf, clients, leases, {s})} : s \in oldest}
        /\ ~Holding
    BY <1>2 DEF AllocClient
  <2>2. PICK s \in oldest : \E L \in EndLeases(conf, clients, leases, {s}) :
                                c = Claim(s, TRUE, blank(s), L)
    BY <2>1
  <2>3. PICK L \in EndLeases(conf, clients, leases, {s}) :
                 c = Claim(s, TRUE, blank(s), L)
    BY <2>2
  <2>4. c.slot = s /\ c.fresh = TRUE /\ c.leases = L /\ c.table = blank(s)
    <3> HIDE DEF blank
    <3> QED
      BY <2>3 DEF Claim
  <2> QED
    BY <1>0, <2>1, <2>4 DEF Emptied
<1> QED
  BY <1>1, <1>2

\* Each other entry is as it was, or it had the connection and is wiped
Adopted(c, from) ==
    \A t \in Slots \ {c.slot} :
        \/ c.table[t] = clients[t]
        \/ c.table[t] = Free /\ Tcp /\ clients[t].addr = from

\* Adopting a connection changes the source address alone.
LEMMA AdoptTcpDoes ==
    ASSUME HeldInv, NEW s \in Slots, clients[s].active, NEW from \in Peers
    PROVE  LET c == Claim(s, FALSE, AdoptTcp(s, from), leases)
           IN /\ c \in ClaimType /\ ~c.fresh /\ c.slot = s /\ c.leases = leases
              /\ ClaimedFrom(c.table[s], clients[s], clients[s].ip)
              /\ Adopted(c, from)
<1> DEFINE c == Claim(s, FALSE, AdoptTcp(s, from), leases)
           E == AdoptTcp(s, from)
<1>1. E \in [Slots -> Entry] /\ leases \in SUBSET Lease /\ clients \in [Slots -> Entry]
  BY AdoptTcpType DEF HeldInv, AddressInv, TypeOK
<1>2. c \in ClaimType
  BY <1>1, ClaimOfType
<1>3. c.slot = s /\ c.fresh = FALSE /\ c.leases = leases /\ c.table = E
  <2> HIDE DEF E
  <2> QED
    BY DEF Claim, E
<1>4. ClaimedFrom(clients[s], clients[s], clients[s].ip)
  BY DEF ClaimedFrom
<1>5. ClaimedFrom([clients[s] EXCEPT !.addr = from], clients[s], clients[s].ip)
  BY <1>1 DEF ClaimedFrom, Entry
<1>6. E[s] = clients[s] \/ E[s] = [clients[s] EXCEPT !.addr = from]
  BY DEF AdoptTcp
<1>7. \A t \in Slots \ {s} : E[t] = clients[t] \/ (E[t] = Free /\ Tcp /\ clients[t].addr = from)
  BY DEF AdoptTcp
<1> HIDE DEF E
<1> QED
  BY <1>2, <1>3, <1>4, <1>5, <1>6, <1>7 DEF Adopted

\* A claim on an entry as it is.
LEMMA AsItIs ==
    ASSUME HeldInv, NEW s \in Slots, NEW c, c = Claim(s, FALSE, clients, leases)
    PROVE  /\ c \in ClaimType /\ ~c.fresh /\ c.slot = s /\ c.leases = leases
           /\ c.table = clients
           /\ ClaimedFrom(c.table[s], clients[s], clients[s].ip)
<1>1. clients \in [Slots -> Entry] /\ leases \in SUBSET Lease
  BY DEF HeldInv, AddressInv, TypeOK
<1>2. c \in ClaimType
  BY <1>1, ClaimOfType
<1>3. c.slot = s /\ c.fresh = FALSE /\ c.leases = leases /\ c.table = clients
  BY DEF Claim
<1>4. ClaimedFrom(clients[s], clients[s], clients[s].ip)
  BY DEF ClaimedFrom
<1> QED
  BY <1>2, <1>3, <1>4

\* server_entry_for() for an auto client: its own entry, or one that is nobody's.
\* No other entry of the table it leaves is the client's.
LEMMA AutoClaim ==
    ASSUME HeldInv, NEW r \in Requests, r.auto, NEW from \in Peers, CanSend(r, from),
           NEW c \in AutoEntryFor(r.id, from)
    PROVE  /\ c \in ClaimType
           /\ ClaimedFrom(c.table[c.slot], Base(c), Base(c).ip)
           /\ Base(c).active /\ ~Manual(Base(c))
           /\ OthersLeft(c) /\ NotElsewhere(c, r.id)
           /\ IF c.fresh
              THEN Unknown(r.id) /\ Emptied(c)
              ELSE /\ c.leases = leases
                   /\ clients[c.slot].registered => clients[c.slot].id = r.id
<1> DEFINE known == FindById(clients, r.id)
           by_addr == FindByAddr(clients, from)
<1>1. /\ known \in Slots \cup {NoSlot} /\ by_addr \in Slots \cup {NoSlot}
      /\ known # NoSlot => clients[known].active /\ clients[known].id = r.id
      /\ by_addr # NoSlot => clients[by_addr].active /\ clients[by_addr].addr = from
      /\ known = NoSlot => \A s \in Slots : clients[s].active => clients[s].id # r.id
  BY LookupType, LookupActive, LookupKey, LookupNone
<1>2. \/ known \in Slots /\ known # NoSlot /\ c = Claim(known, FALSE, AdoptTcp(known, from), leases)
      \/ /\ known = NoSlot /\ Tcp /\ by_addr \in Slots /\ by_addr # NoSlot
         /\ c = Claim(by_addr, FALSE, clients, leases)
      \/ known = NoSlot /\ c \in AllocClient
  BY <1>1 DEF AutoEntryFor
<1>3. r.id \in AutoIds /\ ClaimedId(r) = r.id
  BY TableAssumption DEF Requests, Ids, ClaimedId
<1>4. /\ clients \in [Slots -> Entry] /\ HeldTable(clients) /\ TypeOK
      /\ \A s \in Slots : Addressed(clients[s])
  BY DEF HeldInv, AddressInv, TypeOK
\* Over TCP the connection's entry is the client's, or it has not registered
<1>5. ASSUME Tcp, NEW s \in Slots, clients[s].active, clients[s].addr = from, clients[s].registered
      PROVE  clients[s].id = r.id
  <2>1. PICK t \in Slots : /\ clients[t].active /\ clients[t].addr = from
                           /\ clients[t].registered => clients[t].id = r.id
    BY <1>3, <1>5 DEF CanSend
  <2>2. s = t
    BY <1>5, <2>1 DEF HeldInv, AddressInv, OneConnection
  <2> QED
    BY <1>5, <2>1, <2>2
<1>6. CASE known \in Slots /\ known # NoSlot /\ c = Claim(known, FALSE, AdoptTcp(known, from), leases)
  <2>1. /\ c \in ClaimType /\ ~c.fresh /\ c.slot = known /\ c.leases = leases
        /\ ClaimedFrom(c.table[known], clients[known], clients[known].ip)
        /\ Adopted(c, from)
    <3>1. known \in Slots /\ clients[known].active
      BY <1>1, <1>6
    <3> HIDE DEF known
    <3> QED
      BY <1>6, <3>1, AdoptTcpDoes
  <2>2. Base(c) = clients[known] /\ clients[known].active /\ clients[known].id = r.id
    BY <1>1, <1>6, <2>1 DEF Base
  <2> HIDE DEF known
  <2>3. ~Manual(clients[known])
    BY <1>3, <1>4, <1>6, <2>2 DEF Manual, Addressed
  <2>4. ASSUME NEW t \in Slots \ {known}, clients[t].active PROVE clients[t].id # r.id
    BY <1>3, <1>4, <1>6, <2>2, <2>4 DEF HeldTable, OneId
  <2>5. OthersLeft(c) /\ NotElsewhere(c, r.id)
    <3> SUFFICES ASSUME NEW t \in Slots \ {known}
                 PROVE  /\ c.table[t].active => c.table[t].id # r.id
                        /\ \/ c.table[t] = clients[t]
                           \/ c.table[t] = Free /\ ~(clients[t].registered /\ clients[t].auto)
      BY <2>1 DEF OthersLeft, NotElsewhere
    <3>1. CASE c.table[t] = clients[t]
      BY <2>4, <3>1
    <3>2. CASE c.table[t] = Free /\ Tcp /\ clients[t].addr = from
      <4>1. ~(clients[t].registered /\ clients[t].auto)
        <5>1. clients[t].registered => clients[t].active
          BY <1>4 DEF HeldTable, KnownEntry
        <5> QED
          BY <1>5, <2>4, <3>2, <5>1
      <4> QED
        BY <3>2, <4>1, FreeHeld
    <3> QED
      BY <2>1, <3>1, <3>2 DEF Adopted
  <2> QED
    BY <2>1, <2>2, <2>3, <2>5
<1>7. CASE /\ known = NoSlot /\ Tcp /\ by_addr \in Slots /\ by_addr # NoSlot
           /\ c = Claim(by_addr, FALSE, clients, leases)
  <2>1. /\ c \in ClaimType /\ ~c.fresh /\ c.slot = by_addr /\ c.leases = leases
        /\ c.table = clients
        /\ ClaimedFrom(c.table[by_addr], clients[by_addr], clients[by_addr].ip)
    BY <1>7, AsItIs
  <2>2. Base(c) = clients[by_addr] /\ clients[by_addr].active
    BY <1>1, <1>7, <2>1 DEF Base
  <2>3. ~clients[by_addr].registered
    BY <1>1, <1>5, <1>7
  <2> HIDE DEF known, by_addr
  <2> QED
    BY <1>1, <1>7, <2>1, <2>2, <2>3 DEF Manual, OthersLeft, NotElsewhere
<1>8. CASE known = NoSlot /\ c \in AllocClient
  <2>1. /\ c \in ClaimType /\ c.fresh /\ c.slot \in Slots
        /\ c.table = [clients EXCEPT ![c.slot] = Blank]
        /\ Emptied(c)
    BY <1>4, <1>8, AllocClientDoes
  <2>2. Base(c) = Blank /\ Blank.active /\ ~Manual(Blank)
    BY <2>1, FreeHeld DEF Base, Manual
  <2>3. /\ c.table[c.slot] = Blank
        /\ \A t \in Slots \ {c.slot} : c.table[t] = clients[t]
    BY <1>4, <2>1
  <2>4. ClaimedFrom(Blank, Blank, Blank.ip)
    BY DEF ClaimedFrom
  <2> HIDE DEF known, by_addr
  <2> QED
    BY <1>1, <1>8, <2>1, <2>2, <2>3, <2>4 DEF OthersLeft, NotElsewhere, Unknown
<1> QED
  BY <1>2, <1>6, <1>7, <1>8

\* The address is held by manual clients only; if it is at all, the claimed
\* slot is a new one or a registered client's
Shareable(c, ip) ==
    \A t \in Slots : HoldsIp(clients[t], ip) =>
        Manual(clients[t]) /\ (c.fresh \/ Base(c).registered)

\* A lease that is not past its time keeps the address for its own client
NotReserved(r) ==
    \A l \in LeasesOfIp(leases, r.want) : l.id # ClaimedId(r) => ~Young(l)

\* ... and for a manual one: an entry that is not an auto client's.  The
\* address it names is held by its slot, or by manual clients only; then the
\* slot is a new one or a registered client's.
LEMMA ManualClaim ==
    ASSUME HeldInv, NEW r \in Requests, ~r.auto, NEW from \in Peers, CanSend(r, from),
           NEW c \in ManualEntryFor(ClaimedId(r), r.key, r.want, from)
    PROVE  /\ c \in ClaimType
           /\ ClaimedFrom(c.table[c.slot], Base(c), r.want)
           /\ Base(c).active /\ ~(Base(c).registered /\ Base(c).auto)
           /\ OthersLeft(c)
           /\ HoldsIp(Base(c), r.want) \/ Shareable(c, r.want)
           /\ NotReserved(r)
           /\ IF c.fresh THEN Emptied(c) ELSE c.leases = leases
<1> DEFINE id == ClaimedId(r)
           want == r.want
           by_addr == FindByAddr(clients, from)
           by_ip == FindByIp(clients, want)
<1>0. want \in Addrs /\ want # NoAddr /\ r.key # NoKey /\ NoSlot \notin Slots
  BY TableAssumption DEF Requests
<1>1. /\ by_ip \in Slots \cup {NoSlot} /\ by_addr \in Slots \cup {NoSlot}
      /\ by_ip # NoSlot => clients[by_ip].active
      /\ by_addr # NoSlot => clients[by_addr].active /\ clients[by_addr].addr = from
  BY LookupType, LookupActive, LookupKey
<1>2. /\ clients \in [Slots -> Entry] /\ HeldTable(clients) /\ TypeOK
      /\ \A s \in Slots : Addressed(clients[s])
  BY DEF HeldInv, AddressInv, TypeOK
\* Over TCP the connection's entry is no auto client's
<1>3. ASSUME Tcp, NEW s \in Slots, clients[s].active, clients[s].addr = from
      PROVE  ~(clients[s].registered /\ clients[s].auto)
  <2>1. PICK t \in Slots : /\ clients[t].active /\ clients[t].addr = from
                           /\ clients[t].registered => clients[t].auto = r.auto
    BY <1>3 DEF CanSend
  <2>2. s = t
    BY <1>3, <2>1 DEF HeldInv, AddressInv, OneConnection
  <2> QED
    BY <2>1, <2>2
\* What the rejections leave
<1>4. /\ by_ip # NoSlot => /\ clients[by_ip].ip = want /\ ~clients[by_ip].auto
                           /\ by_ip # by_addr => clients[by_ip].psk = r.key
      /\ \A l \in LeasesOfIp(leases, want) : l.id # id => ~Young(l)
      /\ \E b : /\ \/ /\ by_ip # NoSlot
                      /\ b = Claim(by_ip, FALSE, AdoptTcp(by_ip, from), leases)
                   \/ /\ by_addr # NoSlot /\ (Tcp \/ clients[by_addr].cur = NoAddr)
                      /\ by_ip # NoSlot => by_ip # by_addr /\ ~(Tcp /\ ~clients[by_addr].registered)
                      /\ b = Claim(by_addr, FALSE, clients, leases)
                   \/ /\ by_ip # NoSlot => by_ip # by_addr
                      /\ b \in AllocClient
                /\ c = [b EXCEPT !.table[b.slot].ip = want]
  BY DEF ManualEntryFor, InUse
<1>5. by_ip # NoSlot => HoldsIp(clients[by_ip], want)
  BY <1>0, <1>1, <1>4 DEF HoldsIp
\* If somebody else has the address, only manual clients have it
<1>6. ASSUME by_ip # NoSlot => by_ip # by_addr, NEW t \in Slots, HoldsIp(clients[t], want)
      PROVE  by_ip # NoSlot /\ Manual(clients[t])
  <2>1. by_ip # NoSlot
    BY <1>6, LookupHolder
  <2>2. clients[by_ip].registered
    <3>1. clients[by_ip].psk # NoKey
      BY <1>0, <1>4, <1>6, <2>1
    <3> QED
      BY <1>1, <1>2, <2>1, <3>1 DEF HeldTable, KnownEntry
  <2>3. Manual(clients[by_ip])
    BY <1>4, <2>1, <2>2 DEF Manual
  <2> HIDE DEF by_ip
  <2>4. CASE t = by_ip
    BY <2>1, <2>3, <2>4
  <2>5. CASE t # by_ip
    BY <1>0, <1>1, <1>2, <1>5, <1>6, <2>1, <2>5 DEF HeldTable, Exclusive
  <2> QED
    BY <2>1, <2>4, <2>5
\* A claim before it is given the address
<1> DEFINE Fit(b) ==
       /\ b \in ClaimType
       /\ ClaimedFrom(b.table[b.slot], Base(b), Base(b).ip)
       /\ Base(b).active /\ ~(Base(b).registered /\ Base(b).auto)
       /\ OthersLeft(b)
       /\ HoldsIp(Base(b), want) \/ Shareable(b, want)
       /\ IF b.fresh THEN Emptied(b) ELSE b.leases = leases
<1>7. PICK b : /\ \/ /\ by_ip # NoSlot
                     /\ b = Claim(by_ip, FALSE, AdoptTcp(by_ip, from), leases)
                  \/ /\ by_addr # NoSlot /\ (Tcp \/ clients[by_addr].cur = NoAddr)
                     /\ by_ip # NoSlot => by_ip # by_addr /\ ~(Tcp /\ ~clients[by_addr].registered)
                     /\ b = Claim(by_addr, FALSE, clients, leases)
                  \/ /\ by_ip # NoSlot => by_ip # by_addr
                     /\ b \in AllocClient
               /\ c = [b EXCEPT !.table[b.slot].ip = want]
  BY <1>4
<1>8. ASSUME by_ip # NoSlot, b = Claim(by_ip, FALSE, AdoptTcp(by_ip, from), leases)
      PROVE  Fit(b)
  <2>1. /\ b \in ClaimType /\ ~b.fresh /\ b.slot = by_ip /\ b.leases = leases
        /\ ClaimedFrom(b.table[by_ip], clients[by_ip], clients[by_ip].ip)
        /\ Adopted(b, from)
    <3>1. by_ip \in Slots /\ clients[by_ip].active
      BY <1>1, <1>8
    <3> HIDE DEF by_ip
    <3> QED
      BY <1>8, <3>1, AdoptTcpDoes
  <2>2. Base(b) = clients[by_ip]
    BY <2>1 DEF Base
  <2>3. ASSUME NEW t \in Slots, Tcp, clients[t].addr = from
        PROVE  ~(clients[t].registered /\ clients[t].auto)
    <3>1. clients[t].registered => clients[t].active
      BY <1>2 DEF HeldTable, KnownEntry
    <3> QED
      BY <1>3, <2>3, <3>1
  <2> HIDE DEF by_ip
  <2> QED
    BY <1>1, <1>4, <1>5, <1>8, <2>1, <2>2, <2>3 DEF Adopted, OthersLeft
<1>9. ASSUME by_addr # NoSlot, Tcp \/ clients[by_addr].cur = NoAddr,
             by_ip # NoSlot => by_ip # by_addr /\ ~(Tcp /\ ~clients[by_addr].registered),
             b = Claim(by_addr, FALSE, clients, leases)
      PROVE  Fit(b)
  <2>1. /\ b \in ClaimType /\ ~b.fresh /\ b.slot = by_addr /\ b.leases = leases
        /\ b.table = clients
        /\ ClaimedFrom(b.table[by_addr], clients[by_addr], clients[by_addr].ip)
    BY <1>1, <1>9, AsItIs
  <2>2. Base(b) = clients[by_addr]
    BY <2>1 DEF Base
  <2>3. ~(clients[by_addr].registered /\ clients[by_addr].auto)
    <3>1. CASE Tcp
      BY <1>1, <1>3, <1>9, <3>1
    <3>2. CASE ~Tcp
      BY <1>1, <1>2, <1>9, <3>2 DEF Addressed, Agrees
    <3> QED
      BY <3>1, <3>2
  <2>4. by_ip # NoSlot => clients[by_addr].registered
    BY <1>1, <1>2, <1>9 DEF HeldTable, KnownEntry
  <2>5. \A t \in Slots : HoldsIp(clients[t], want) => Manual(clients[t]) /\ by_ip # NoSlot
    BY <1>6, <1>9
  <2> HIDE DEF by_ip, by_addr, want
  <2> QED
    BY <1>1, <1>9, <2>1, <2>2, <2>3, <2>4, <2>5 DEF OthersLeft, Shareable
<1>10. ASSUME by_ip # NoSlot => by_ip # by_addr, b \in AllocClient
       PROVE  Fit(b)
  <2>1. /\ b \in ClaimType /\ b.fresh /\ b.slot \in Slots
        /\ b.table = [clients EXCEPT ![b.slot] = Blank]
        /\ Emptied(b)
    BY <1>2, <1>10, AllocClientDoes
  <2>2. Base(b) = Blank /\ Blank.active /\ ~Blank.registered
    BY <2>1, FreeHeld DEF Base
  <2>3. /\ b.table[b.slot] = Blank
        /\ \A t \in Slots \ {b.slot} : b.table[t] = clients[t]
    BY <1>2, <2>1
  <2>4. ClaimedFrom(Blank, Blank, Blank.ip)
    BY DEF ClaimedFrom
  <2>5. \A t \in Slots : HoldsIp(clients[t], want) => Manual(clients[t])
    BY <1>6, <1>10
  <2> HIDE DEF by_ip, by_addr, want
  <2> QED
    BY <2>1, <2>2, <2>3, <2>4, <2>5 DEF OthersLeft, Shareable
<1>11. Fit(b)
  BY <1>7, <1>8, <1>9, <1>10
<1>12. c \in ClaimType
  BY <1>0, ManualEntryForType DEF HeldInv, AddressInv
<1>13. /\ c.slot = b.slot /\ c.fresh = b.fresh /\ c.leases = b.leases
       /\ b.slot \in Slots /\ b.table \in [Slots -> Entry]
       /\ c.table = [b.table EXCEPT ![b.slot].ip = want]
  <2> HIDE DEF want
  <2> QED
    BY <1>7, <1>11 DEF ClaimType
<1>14. /\ c.table[c.slot] = [b.table[b.slot] EXCEPT !.ip = want]
       /\ b.table[b.slot] \in Entry
       /\ \A t \in Slots \ {c.slot} : c.table[t] = b.table[t]
  BY <1>13
<1>15. Base(c) = Base(b)
  BY <1>13 DEF Base
<1>16. ClaimedFrom(c.table[c.slot], Base(c), want)
  <2> HIDE DEF want
  <2>1. ClaimedFrom(b.table[b.slot], Base(b), Base(b).ip)
    BY <1>11
  <2> QED
    BY <1>14, <1>15, <2>1 DEF ClaimedFrom, Entry
<1> HIDE DEF by_ip, by_addr
<1>17. OthersLeft(c) /\ (Emptied(b) => Emptied(c)) /\ (Shareable(b, want) => Shareable(c, want))
  <2> HIDE DEF want
  <2> QED
    BY <1>11, <1>13, <1>14, <1>15 DEF OthersLeft, Emptied, Shareable
<1> QED
  BY <1>4, <1>11, <1>12, <1>13, <1>15, <1>16, <1>17 DEF NotReserved

----------------------------------------------------------------------------
(* The entry a handshake writes *)

\* The claimed entry keeps its key.
LEMMA EnteredKey ==
    ASSUME TypeOK, NEW r \in Requests, NEW from \in Peers, NEW c \in ClaimType
    PROVE  Entered(c, r, from).psk = c.table[c.slot].psk
<1> DEFINE f == c.table[c.slot]
           a == IF f.cur = NoAddr \/ Tcp THEN from ELSE f.addr
<1>1. f \in Entry
  BY DEF ClaimType
<1>2. Entered(c, r, from) = [f EXCEPT !.addr = a, !.last_seen = now, !.auto = r.auto,
                                      !.id = ClaimedId(r)]
  BY DEF Entered
<1> HIDE DEF f, a
<1>3. Entered(c, r, from).psk = f.psk
  BY <1>1, <1>2 DEF Entry
<1> QED
  BY <1>3 DEF f

\* The claimed entry holds what its claim started from, and for a manual
\* client the address it names.
LEMMA EnteredHolds ==
    ASSUME HeldInv, NEW r \in Requests, NEW from \in Peers, NEW c \in ClaimType, NEW b,
           NEW own, ClaimedFrom(c.table[c.slot], b, own)
    PROVE  LET e == Entered(c, r, from)
           IN /\ e.active = b.active /\ e.registered = b.registered /\ e.psk = b.psk
              /\ e.auto = r.auto /\ e.id = ClaimedId(r) /\ e.ip = own /\ e.cur = b.cur
              /\ HoldsAlso(e, b, own)
<1> DEFINE e == Entered(c, r, from)
<1>1. /\ e.auto = r.auto /\ e.id = ClaimedId(r)
      /\ e.active = b.active /\ e.registered = b.registered
      /\ e.ip = own /\ e.pending = b.pending /\ e.prev_ip = b.prev_ip
      /\ e.cur = b.cur /\ e.prev = b.prev
  BY EnteredKeeps DEF HeldInv, ClaimedFrom
<1>2. e.psk = b.psk
  BY EnteredKey DEF HeldInv, AddressInv, ClaimedFrom
<1> HIDE DEF e
<1>3. HoldsAlso(e, b, own)
  BY <1>1 DEF HoldsIp, HoldsAlso
<1> QED
  BY <1>1, <1>2, <1>3 DEF e

\* The answered entry is the client's, under the handshake's key; an auto
\* client holds the address of the reply, a new one has it as its own.
LEMMA AnsweredHolds ==
    ASSUME HeldInv, NEW r \in Requests, NEW from \in Peers, NEW c \in ClaimType, NEW ip \in Addrs
    PROVE  LET e == Entered(c, r, from)
               x == Answered(c, r, from, ip)
           IN /\ x.active = e.active /\ x.registered /\ x.psk = r.key
              /\ x.auto = r.auto /\ x.id = ClaimedId(r)
              /\ \A j : HoldsIp(x, j) => HoldsIp(e, j) \/ (r.auto /\ j = ip)
              /\ x.ip \in {e.ip, ip} /\ (e.cur = NoAddr /\ r.auto => x.ip = ip)
<1> DEFINE e == Entered(c, r, from)
           a == IF r.auto THEN AssignIp(e, ip) ELSE [e EXCEPT !.pending = NoAddr]
           first == (e.cur = NoAddr)
           reg == [a EXCEPT !.registered = TRUE, !.psk = r.key]
           x == Answered(c, r, from, ip)
<1>1. e \in Entry /\ e.auto = r.auto /\ e.id = ClaimedId(r)
  BY EnteredKeeps DEF HeldInv
<1>2. x = IF first THEN [reg EXCEPT !.cur = ip] ELSE [reg EXCEPT !.next = ip, !.next_born = now]
  BY DEF Answered
<1>3. r.key \in Keys /\ now \in Nat /\ first \in BOOLEAN /\ r.auto \in BOOLEAN
  BY DEF Requests, HeldInv, AddressInv, TypeOK
<1>4. /\ a \in Entry /\ a.auto = e.auto /\ a.id = e.id /\ a.active = e.active
      /\ a.prev = e.prev /\ a.prev_ip = e.prev_ip
      /\ a.ip = e.ip \/ (r.auto /\ a.ip = ip)
      /\ a.pending = NoAddr \/ (r.auto /\ a.pending = ip)
      /\ first /\ r.auto => a.ip = ip
  <2> HIDE DEF e
  <2>1. CASE r.auto
    <3>1. AssignIp(e, ip).active = e.active
      BY <1>1 DEF AssignIp, Entry
    <3>2. a = AssignIp(e, ip)
      BY <2>1
    <3> HIDE DEF a
    <3> QED
      BY <1>1, <2>1, <3>1, <3>2, AssignIpDoes
  <2>2. CASE ~r.auto
    BY <1>1, <2>2 DEF Entry, AddrOrNone
  <2> QED
    BY <2>1, <2>2
<1> HIDE DEF a, e, x
<1>5. /\ x.registered /\ x.auto = a.auto /\ x.id = a.id
      /\ x.ip = a.ip /\ x.pending = a.pending /\ x.prev_ip = a.prev_ip /\ x.prev = a.prev
  <2> HIDE DEF first
  <2> QED
    BY <1>2, <1>3, <1>4, SessionMade
<1>6. x.active = a.active /\ x.psk = r.key
  <2> HIDE DEF first
  <2>1. reg \in Entry /\ reg.active = a.active /\ reg.psk = r.key
    BY <1>3, <1>4 DEF Entry
  <2> HIDE DEF reg
  <2> QED
    BY <1>2, <2>1 DEF Entry
<1>7. \A j : HoldsIp(x, j) => HoldsIp(e, j) \/ (r.auto /\ j = ip)
  BY <1>4, <1>5, <1>6 DEF HoldsIp
<1> QED
  BY <1>1, <1>4, <1>5, <1>6, <1>7 DEF e, x

\* server_ip_usable(), server_auto_pool_take(): an address of the pool that
\* has no block, held by nobody but the client, and leased to nobody else
\* but for a lease past its time.
LEMMA PoolGives ==
    ASSUME NEW c, NEW E, NEW r, NEW id, NEW ip \in PoolOffers(c, E, r, id)
    PROVE  /\ ip \in conf.pool /\ ProfileOwner(conf, ip) = NoId
           /\ FindByIp(E, ip) \in {NoSlot, c.slot}
           /\ \/ \A l \in LeasesOfIp(c.leases, ip) : l.id = id
              \/ \E l \in LeasesOfIp(c.leases, ip) : ~Young(l)
<1>1. ASSUME NEW j, IpUsable(c, E, id, j)
      PROVE  /\ j \in conf.pool /\ ProfileOwner(conf, j) = NoId
             /\ FindByIp(E, j) \in {NoSlot, c.slot}
             /\ \A l \in LeasesOfIp(c.leases, j) : l.id = id
  BY <1>1 DEF IpUsable
<1>2. ASSUME NEW j \in PoolTake(c, E, id)
      PROVE  \/ IpUsable(c, E, id, j)
             \/ /\ j \in conf.pool /\ ProfileOwner(conf, j) = NoId
                /\ FindByIp(E, j) \in {NoSlot, c.slot}
                /\ \E l \in LeasesOfIp(c.leases, j) : ~Young(l)
  <2> DEFINE free == {x \in conf.pool : IpUsable(c, E, id, x)}
             old == {l \in c.leases :
                   /\ l.ip \in conf.pool \ {TunnelIp} /\ ~Young(l)
                   /\ ProfileOwner(conf, l.ip) = NoId
                   /\ FindByIp(E, l.ip) \in {NoSlot, c.slot}}
  <2>1. j \in free \/ j \in {l.ip : l \in {o \in old : \A p \in old : o.since <= p.since}}
    BY <1>2 DEF PoolTake
  <2>2. CASE j \in free
    BY <2>2
  <2>3. CASE j \in {l.ip : l \in {o \in old : \A p \in old : o.since <= p.since}}
    <3>1. PICK l \in old : j = l.ip
      BY <2>3
    <3> QED
      BY <3>1 DEF LeasesOfIp
  <2> QED
    BY <2>1, <2>2, <2>3
<1> DEFINE start == StartIp(c, E, r, id)
           given == IF E[c.slot].pending # NoAddr THEN E[c.slot].pending ELSE start
<1>3. IpUsable(c, E, id, ip) \/ ip \in PoolTake(c, E, id)
  <2>1. \/ PoolOffers(c, E, r, id) = {given} /\ IpUsable(c, E, id, given)
        \/ PoolOffers(c, E, r, id) = {start} /\ IpUsable(c, E, id, start)
        \/ PoolOffers(c, E, r, id) \subseteq PoolTake(c, E, id)
    BY DEF PoolOffers
  <2> HIDE DEF start, given
  <2> QED
    BY <2>1
<1> QED
  BY <1>1, <1>2, <1>3

\* Nobody but the client holds the address of a reply to an auto client.
LEMMA OfferFree ==
    ASSUME HeldInv, NEW r \in Requests, r.auto, NEW from \in Peers, CanSend(r, from),
           NEW c \in EntryFor(r, from), NEW ip \in Offers(c, r, from), ip \in Addrs,
           NEW t \in Slots \ {c.slot}, HoldsIp(c.table[t], ip)
    PROVE  HoldsIp(Entered(c, r, from), ip)
<1>1. c \in AutoEntryFor(r.id, from) /\ ~ProfileIpInUse(r.id)
  BY DEF EntryFor
<1>2. /\ c \in ClaimType /\ c.slot \in Slots
      /\ c.table[t].active => c.table[t].id # r.id
      /\ c.table[t] = clients[t] \/ c.table[t] = Free
  BY <1>1, AutoClaim DEF ClaimType, OthersLeft, NotElsewhere
<1>3. c.table[t] = clients[t] /\ clients[t].active
  BY <1>2, FreeHeld DEF HoldsIp
<1>4. CASE ProfileIp(conf, r.id) # NoAddr
  <2>1. ip = ProfileIp(conf, r.id)
    BY <1>4 DEF Offers
  <2> DEFINE holder == FindByIp(clients, ip)
  <2>2. /\ holder \in Slots \cup {NoSlot}
        /\ holder # NoSlot => clients[holder].active /\ clients[holder].id = r.id
    BY <1>1, <2>1, LookupType, LookupActive DEF ProfileIpInUse
  <2>3. holder # NoSlot /\ HoldsIp(clients[holder], ip)
    BY <1>3, <2>2, LookupHolder
  <2> HIDE DEF holder
  <2>4. t # holder
    BY <1>2, <1>3, <2>2, <2>3
  <2>5. Manual(clients[holder])
    BY <1>3, <2>2, <2>3, <2>4 DEF HeldInv, HeldTable, Exclusive
  <2>6. r.id \in AutoIds
    BY TableAssumption DEF Requests
  <2> QED
    BY <2>2, <2>3, <2>5, <2>6 DEF HeldInv, AddressInv, Addressed, Manual
<1>5. CASE ProfileIp(conf, r.id) = NoAddr
  <2> DEFINE e == Entered(c, r, from)
             E == WithEntry(c, e)
  <2>1. ip \in PoolOffers(c, E, r, r.id)
    BY <1>5 DEF Offers
  <2>2. FindByIp(E, ip) \in {NoSlot, c.slot}
    <3> HIDE DEF E
    <3> QED
      BY <2>1, PoolGives
  <2>3. /\ E[c.slot] = e /\ E[t] = c.table[t]
    BY <1>2 DEF WithEntry, ClaimType
  <2> HIDE DEF E, e
  <2>4. FindByIp(E, ip) = c.slot
    BY <2>2, <2>3, LookupHolder
  <2> QED
    BY <1>2, <2>3, <2>4, LookupHolder DEF e
<1> QED
  BY <1>4, <1>5

\* The table after a handshake that fails.
LEMMA FailedHeld ==
    ASSUME HeldInv, NEW r \in Requests, NEW from \in Peers, CanSend(r, from),
           NEW c \in EntryFor(r, from)
    PROVE  HeldTable(WithEntry(c, IF c.fresh THEN Free ELSE Entered(c, r, from)))
<1> DEFINE e == Entered(c, r, from)
           x == IF c.fresh THEN Free ELSE e
           own == IF r.auto THEN Base(c).ip ELSE r.want
<1>1. /\ c \in ClaimType /\ OthersLeft(c) /\ Base(c).active
      /\ ClaimedFrom(c.table[c.slot], Base(c), own)
      /\ ~(Base(c).registered /\ Base(c).auto) \/ r.auto
      /\ r.auto => NotElsewhere(c, r.id) /\ ~Manual(Base(c))
      /\ ~r.auto => HoldsIp(Base(c), r.want) \/ Shareable(c, r.want)
  <2>1. CASE r.auto
    BY <2>1, AutoClaim DEF EntryFor
  <2>2. CASE ~r.auto
    BY <2>2, ManualClaim DEF EntryFor
  <2> QED
    BY <2>1, <2>2
<1> HIDE DEF own
<1>2. /\ e.active = Base(c).active /\ e.registered = Base(c).registered /\ e.psk = Base(c).psk
      /\ e.auto = r.auto /\ e.id = ClaimedId(r)
      /\ HoldsAlso(e, Base(c), own)
  BY ZenonT(40), <1>1, EnteredHolds
<1> HIDE DEF e
<1>3. /\ HeldTable(clients) /\ c.slot \in Slots /\ r.auto \in BOOLEAN
      /\ r.auto => r.id \in AutoIds /\ ClaimedId(r) = r.id
      /\ ~r.auto => ClaimedId(r) \notin AutoIds
  BY <1>1, TableAssumption DEF HeldInv, ClaimType, Requests, CanSend, ClaimedId, Ids
<1>4. ~c.fresh => Base(c) = clients[c.slot] /\ KnownEntry(clients[c.slot])
  BY <1>3 DEF Base, HeldTable
<1>5. KnownEntry(x)
  BY <1>1, <1>2, <1>3, <1>4, FreeHeld DEF KnownEntry
<1>6. x.active /\ x.id \in AutoIds =>
         \A t \in Slots \ {c.slot} : c.table[t].active => c.table[t].id # x.id
  BY <1>1, <1>2, <1>3, FreeHeld DEF NotElsewhere
<1>7. ASSUME NEW ip \in Addrs, HoldsIp(x, ip)
      PROVE  \/ HoldsIp(clients[c.slot], ip) /\ (Manual(clients[c.slot]) => Manual(x))
             \/ \A t \in Slots \ {c.slot} :
                   HoldsIp(c.table[t], ip) => Manual(c.table[t]) /\ Manual(x)
  <2>1. ~c.fresh /\ x = e
    BY <1>7, FreeHeld
  <2>2. Manual(clients[c.slot]) => Manual(x)
    BY <1>1, <1>2, <1>4, <2>1 DEF Manual
  <2>3. CASE HoldsIp(clients[c.slot], ip)
    BY <2>2, <2>3
  <2>4. CASE ~HoldsIp(clients[c.slot], ip)
    <3>1. ip = own
      BY <1>2, <1>4, <1>7, <2>1, <2>4 DEF HoldsAlso
    <3>2. ~r.auto
      BY <1>2, <1>4, <1>7, <2>1, <2>4, <3>1 DEF own, HoldsIp, HoldsAlso
    <3>3. ip = r.want /\ Shareable(c, r.want)
      BY <1>1, <1>4, <2>1, <2>4, <3>1, <3>2 DEF own
    <3>4. ASSUME NEW t \in Slots \ {c.slot}, HoldsIp(c.table[t], ip)
          PROVE  Manual(c.table[t]) /\ Manual(x)
      <4>1. c.table[t] = clients[t]
        BY <1>1, <3>4, FreeHeld DEF OthersLeft
      <4>2. Manual(clients[t]) /\ Base(c).registered
        BY <2>1, <3>3, <3>4, <4>1 DEF Shareable
      <4> QED
        BY <1>2, <2>1, <3>2, <4>1, <4>2 DEF Manual
    <3> QED
      BY <3>4
  <2> QED
    BY <2>3, <2>4
<1>8. \A t \in Slots \ {c.slot} : c.table[t] \in {clients[t], Free}
  BY <1>1 DEF OthersLeft
<1>9. HeldTable(WithEntry(c, x))
  <2> HIDE DEF x
  <2> QED
    BY <1>1, <1>3, <1>5, <1>6, <1>7, <1>8, WrittenHeld
<1> QED
  BY <1>9 DEF e

\* ... and after one that is answered.
LEMMA AnsweredHeld ==
    ASSUME HeldInv, NEW r \in Requests, NEW from \in Peers, CanSend(r, from),
           NEW c \in EntryFor(r, from), NEW ip \in Offers(c, r, from)
    PROVE  HeldTable(WithEntry(c, Answered(c, r, from, ip)))
<1> DEFINE e == Entered(c, r, from)
           x == Answered(c, r, from, ip)
           own == IF r.auto THEN Base(c).ip ELSE r.want
<1>1. /\ c \in ClaimType /\ OthersLeft(c) /\ Base(c).active
      /\ ClaimedFrom(c.table[c.slot], Base(c), own)
      /\ r.auto => NotElsewhere(c, r.id) /\ ~Manual(Base(c))
      /\ ~r.auto => HoldsIp(Base(c), r.want) \/ Shareable(c, r.want)
  <2>1. CASE r.auto
    BY <2>1, AutoClaim DEF EntryFor
  <2>2. CASE ~r.auto
    BY <2>2, ManualClaim DEF EntryFor
  <2> QED
    BY <2>1, <2>2
<1>0. ip \in Addrs
  BY <1>1, OffersType DEF HeldInv, AddressInv
<1> HIDE DEF own
<1>2. /\ e.active = Base(c).active
      /\ HoldsAlso(e, Base(c), own)
  BY <1>1, EnteredHolds
<1>3. /\ x.active = e.active /\ x.registered /\ x.psk = r.key
      /\ x.auto = r.auto /\ x.id = ClaimedId(r)
      /\ \A j : HoldsIp(x, j) => HoldsIp(e, j) \/ (r.auto /\ j = ip)
  BY <1>0, <1>1, AnsweredHolds
<1>4. ASSUME r.auto, NEW t \in Slots \ {c.slot}, HoldsIp(c.table[t], ip)
      PROVE  HoldsIp(e, ip)
  BY <1>0, <1>4, OfferFree
<1> HIDE DEF e, x
<1>5. /\ HeldTable(clients) /\ c.slot \in Slots /\ r.auto \in BOOLEAN
      /\ r.auto => r.id \in AutoIds /\ ClaimedId(r) = r.id
      /\ ~r.auto => ClaimedId(r) \notin AutoIds
  BY <1>1, TableAssumption DEF HeldInv, ClaimType, Requests, CanSend, ClaimedId, Ids
<1>6. \/ c.fresh /\ \A j : ~HoldsIp(Base(c), j)
      \/ ~c.fresh /\ Base(c) = clients[c.slot]
  BY FreeHeld DEF Base
<1>7. KnownEntry(x)
  BY <1>1, <1>2, <1>3, <1>5 DEF KnownEntry
<1>8. x.active /\ x.id \in AutoIds =>
         \A t \in Slots \ {c.slot} : c.table[t].active => c.table[t].id # x.id
  BY <1>1, <1>3, <1>5 DEF NotElsewhere
\* What the claim started from is not shared by an auto client
<1>9. ASSUME NEW j \in Addrs, HoldsIp(Base(c), j)
      PROVE  HoldsIp(clients[c.slot], j) /\ (Manual(clients[c.slot]) => Manual(x))
  BY <1>1, <1>3, <1>6, <1>9 DEF Manual
<1>10. ASSUME NEW j \in Addrs, HoldsIp(x, j)
       PROVE  \/ HoldsIp(clients[c.slot], j) /\ (Manual(clients[c.slot]) => Manual(x))
              \/ \A t \in Slots \ {c.slot} :
                    HoldsIp(c.table[t], j) => Manual(c.table[t]) /\ Manual(x)
  <2>1. CASE HoldsIp(Base(c), j)
    BY <1>9, <2>1
  <2>2. CASE ~HoldsIp(Base(c), j) /\ r.auto
    <3>1. ~HoldsIp(e, j)
      BY <1>2, <2>2 DEF own, HoldsIp, HoldsAlso
    <3>2. j = ip
      BY <1>3, <1>10, <3>1
    <3> QED
      BY <1>4, <2>2, <3>1, <3>2
  <2>3. CASE ~HoldsIp(Base(c), j) /\ ~r.auto
    <3>1. j = r.want /\ Shareable(c, r.want)
      BY <1>1, <1>2, <1>3, <1>10, <2>3 DEF own, HoldsAlso
    <3>2. ASSUME NEW t \in Slots \ {c.slot}, HoldsIp(c.table[t], j)
          PROVE  Manual(c.table[t]) /\ Manual(x)
      <4>1. c.table[t] = clients[t]
        BY <1>1, <3>2, FreeHeld DEF OthersLeft
      <4> QED
        BY <1>3, <2>3, <3>1, <3>2, <4>1 DEF Shareable, Manual
    <3> QED
      BY <3>2
  <2> QED
    BY <1>5, <2>1, <2>2, <2>3
<1>11. \A t \in Slots \ {c.slot} : c.table[t] \in {clients[t], Free}
  BY <1>1 DEF OthersLeft
<1>12. HeldTable(WithEntry(c, x))
  BY <1>1, <1>5, <1>7, <1>8, <1>10, <1>11, WrittenHeld
<1> QED
  BY <1>12 DEF x

----------------------------------------------------------------------------
(* The other steps give no client an address it did not hold *)

\* Ageing.
LEMMA AgedLeft ==
    ASSUME NEW e \in Entry
    PROVE  LeftOf(Aged(e), e) /\ Aged(e).ip = e.ip
<1> DEFINE none == [e EXCEPT !.prev = NoAddr, !.prev_until = 0, !.prev_ip = NoAddr]
           p == IF e.prev # NoAddr /\ now > e.prev_until THEN none ELSE e
           q == [p EXCEPT !.next = NoAddr, !.next_born = 0, !.pending = NoAddr]
<1>1. none \in Entry
  BY Zenon DEF Entry, AddrOrNone
<1>2. /\ none.active = e.active /\ none.registered = e.registered /\ none.auto = e.auto
      /\ none.id = e.id /\ none.psk = e.psk /\ none.ip = e.ip /\ none.pending = e.pending
      /\ none.prev = NoAddr
  BY <1>1, Zenon DEF Entry
<1>3. p \in Entry /\ LeftOf(p, e) /\ p.ip = e.ip
  <2> HIDE DEF none
  <2>1. LeftOf(none, e) /\ LeftOf(e, e)
    BY <1>2 DEF LeftOf, HoldsIp
  <2> QED
    BY <1>1, <1>2, <2>1
<1>4. Aged(e) \in {p, q}
  BY DEF Aged
<1> HIDE DEF p
<1>5. /\ q.active = p.active /\ q.registered = p.registered /\ q.auto = p.auto
      /\ q.id = p.id /\ q.psk = p.psk /\ q.ip = p.ip /\ q.pending = NoAddr
      /\ q.prev = p.prev /\ q.prev_ip = p.prev_ip
  BY <1>3 DEF Entry
<1> HIDE DEF q
<1>6. LeftOf(q, e)
  BY <1>3, <1>5 DEF LeftOf, HoldsIp
<1> QED
  BY <1>3, <1>4, <1>5, <1>6

\* An offer withdrawn.
LEMMA WithdrawnLeft ==
    ASSUME NEW e \in Entry, NEW c
    PROVE  LeftOf(Withdrawn(c, e), e) /\ Withdrawn(c, e).ip = e.ip
<1> DEFINE q == [e EXCEPT !.pending = NoAddr, !.next = NoAddr, !.next_born = 0]
<1>1. /\ q.active = e.active /\ q.registered = e.registered /\ q.auto = e.auto
      /\ q.id = e.id /\ q.psk = e.psk /\ q.ip = e.ip /\ q.pending = NoAddr
      /\ q.prev = e.prev /\ q.prev_ip = e.prev_ip
  BY DEF Entry
<1>2. Withdrawn(c, e) \in {e, q}
  BY DEF Withdrawn
<1> HIDE DEF q
<1>3. LeftOf(q, e) /\ LeftOf(e, e)
  BY <1>1 DEF LeftOf, HoldsIp
<1> QED
  BY <1>1, <1>2, <1>3

\* A packet.
LEMMA SeenLeft ==
    ASSUME NEW e \in Entry, NEW from \in Peers
    PROVE  LeftOf(Seen(e, from), e) /\ Seen(e, from).ip = e.ip
<1> DEFINE f == Seen(e, from)
<1>1. SameBut(f, e)
  BY DEF Seen, Entry, SameBut
<1>2. f.psk = e.psk
  BY SeenKeeps
<1> HIDE DEF f
<1>3. LeftOf(f, e) /\ f.ip = e.ip
  BY <1>1, <1>2 DEF SameBut, LeftOf, HoldsIp
<1> QED
  BY <1>3 DEF f

\* The first packet on the next session: the pending address counts now, the
\* one before it is the previous session's.
LEMMA FirstLeft ==
    ASSUME NEW e \in Entry, NEW from \in Peers, NEW until, now \in Nat
    PROVE  LET x == FirstOn(e, from, until)
           IN LeftOf(x, e) /\ x.ip = IF e.pending # NoAddr THEN e.pending ELSE e.ip
<1> DEFINE f == Seen(e, from)
           x == FirstOn(e, from, until)
           moved == IF e.pending # NoAddr THEN e.pending ELSE f.ip
<1>1. /\ f.ip = e.ip /\ f.active = e.active /\ f.registered = e.registered
      /\ f.auto = e.auto /\ f.id = e.id /\ f.psk = e.psk
  BY SeenLeft DEF LeftOf
<1>2. f \in Entry
  BY Zenon DEF Seen, Entry
<1>3. x = [f EXCEPT !.prev = e.cur, !.prev_until = until, !.prev_ip = e.ip,
                    !.cur = e.next, !.next = NoAddr, !.next_born = 0,
                    !.ip = moved, !.pending = NoAddr]
  BY DEF FirstOn
<1> HIDE DEF f, x, moved
<1>4. /\ x.prev_ip = e.ip /\ x.ip = moved /\ x.pending = NoAddr
      /\ x.active = f.active /\ x.registered = f.registered /\ x.auto = f.auto
      /\ x.id = f.id /\ x.psk = f.psk
  BY <1>2, <1>3 DEF Entry
<1>5. moved = IF e.pending # NoAddr THEN e.pending ELSE e.ip
  BY <1>1 DEF moved
<1>6. LeftOf(x, e)
  BY <1>1, <1>4, <1>5 DEF LeftOf, HoldsIp
<1> QED
  BY <1>4, <1>5, <1>6 DEF x

\* drain_tcp_server_accept(): the new connection holds nothing.
LEMMA AcceptDoes ==
    ASSUME HeldInv, NEW p \in Peers, AcceptTcp(p)
    PROVE  /\ HeldTable(clients')
           /\ \A t \in Slots : clients[t].registered => clients'[t] = clients[t]
           /\ \A t \in Slots : clients'[t].registered => clients'[t] = clients[t]
           /\ \A t \in Slots : \A ip : HoldsIp(clients'[t], ip) => clients'[t] = clients[t]
<1> DEFINE conn == [Blank EXCEPT !.addr = p, !.last_seen = now, !.connected = now]
<1>0. clients \in [Slots -> Entry] /\ HeldTable(clients)
  BY DEF HeldInv, AddressInv, TypeOK
<1>1. PICK closed \in SUBSET {s \in Slots : Preauth(clients[s])} :
         \E s \in {t \in Slots : ~Wiped(clients, closed)[t].active} :
            clients' = [Wiped(clients, closed) EXCEPT ![s] = conn]
  BY DEF AcceptTcp
<1>2. PICK s \in {t \in Slots : ~Wiped(clients, closed)[t].active} :
         clients' = [Wiped(clients, closed) EXCEPT ![s] = conn]
  BY <1>1
<1>3. /\ conn.active /\ ~conn.registered /\ conn.psk = NoKey /\ ~conn.auto /\ conn.id = NoId
      /\ \A ip : ~HoldsIp(conn, ip)
  <2>1. /\ conn.active = TRUE /\ conn.registered = FALSE /\ conn.psk = NoKey /\ conn.auto = FALSE
        /\ conn.id = NoId /\ conn.ip = NoAddr /\ conn.pending = NoAddr /\ conn.prev = NoAddr
    BY DEF Blank, Free
  <2> HIDE DEF conn
  <2> QED
    BY <2>1 DEF HoldsIp
<1> HIDE DEF conn
<1>4. /\ s \in Slots /\ closed \subseteq Slots
      /\ \A t \in Slots : Wiped(clients, closed)[t] = IF t \in closed THEN Free ELSE clients[t]
  BY DEF Wiped
<1>5. \A t \in Slots : clients'[t] = IF t = s THEN conn
                                     ELSE IF t \in closed THEN Free ELSE clients[t]
  BY <1>2, <1>4 DEF Wiped
<1>6. s \in closed \/ ~clients[s].active
  BY <1>2, <1>4, FreeHeld
<1>7. \A t \in Slots : clients[t].registered => clients[t].active /\ t # s /\ t \notin closed
  BY <1>0, <1>6 DEF HeldTable, KnownEntry, Preauth
<1>8. ASSUME NEW t \in Slots, t # s PROVE clients'[t] = Free \/ clients'[t] = clients[t]
  BY <1>5, <1>8
<1>9. HeldTable(clients')
  <2>1. \A t \in Slots : KnownEntry(clients'[t])
    BY <1>0, <1>3, <1>5, FreeHeld DEF AcceptTcp, HeldTable, KnownEntry
  <2>2. OneId(clients')
    <3> SUFFICES ASSUME NEW t \in Slots, NEW u \in Slots, clients'[t].active, clients'[u].active,
                        clients'[t].id = clients'[u].id, clients'[t].id \in AutoIds
                 PROVE  t = u
      BY DEF OneId
    <3>1. conn.id \notin AutoIds
      BY <1>3, TableAssumption DEF Ids
    <3>2. t # s /\ u # s
      BY <1>5, <3>1
    <3>3. clients'[t] = clients[t] /\ clients'[u] = clients[u]
      BY <1>8, <3>2, FreeHeld
    <3> QED
      BY <1>0, <3>3 DEF HeldTable, OneId
  <2>3. Exclusive(clients')
    <3> SUFFICES ASSUME NEW t \in Slots, NEW u \in Slots, NEW ip \in Addrs, t # u,
                        HoldsIp(clients'[t], ip), HoldsIp(clients'[u], ip)
                 PROVE  Manual(clients'[t]) /\ Manual(clients'[u])
      BY DEF Exclusive
    <3>1. t # s /\ u # s
      BY <1>3, <1>5
    <3>2. clients'[t] = clients[t] /\ clients'[u] = clients[u]
      BY <1>8, <3>1, FreeHeld
    <3> QED
      BY <1>0, <3>2 DEF HeldTable, Exclusive
  <2> QED
    BY <2>1, <2>2, <2>3 DEF HeldTable
<1> QED
  BY <1>3, <1>5, <1>7, <1>8, <1>9, FreeHeld

\* The strengthening is an invariant.
LEMMA HeldInvariant == Spec => []HeldInv
<1>1. Init => HeldTable(clients)
  <2> SUFFICES ASSUME Init PROVE HeldTable(clients)
    OBVIOUS
  <2>1. \A s \in Slots : clients[s] = Free
    BY DEF Init
  <2> QED
    BY <2>1, FreeHeld DEF HeldTable, OneId, Exclusive
<1>2. HeldInv /\ [Next]_vars => HeldTable(clients')
  <2> SUFFICES ASSUME HeldInv, [Next]_vars PROVE HeldTable(clients')
    OBVIOUS
  <2>0. clients \in [Slots -> Entry] /\ HeldTable(clients) /\ now \in Nat
    BY DEF HeldInv, AddressInv, TypeOK
  <2>1. ASSUME NEW r \in Requests, NEW from \in Peers, AnswerInit(r, from)
        PROVE  HeldTable(clients')
    <3>1. CanSend(r, from)
      BY <2>1 DEF AnswerInit
    <3>2. PICK c \in EntryFor(r, from) : \E ip \in Offers(c, r, from) :
             clients' = WithEntry(c, Answered(c, r, from, ip))
      BY <2>1 DEF AnswerInit
    <3>3. PICK ip \in Offers(c, r, from) : clients' = WithEntry(c, Answered(c, r, from, ip))
      BY <3>2
    <3> QED
      BY <3>1, <3>3, AnsweredHeld
  <2>2. ASSUME NEW r \in Requests, NEW from \in Peers, FailInit(r, from)
        PROVE  HeldTable(clients')
    <3>1. PICK c \in EntryFor(r, from) :
             clients' = WithEntry(c, IF c.fresh THEN Free ELSE Entered(c, r, from))
      BY <2>2 DEF FailInit
    <3> QED
      BY <2>2, <3>1, FailedHeld DEF FailInit
  \* The steps that only end what entries hold
  <2>3. ASSUME \A t \in Slots : clients'[t] = Free \/ LeftOf(clients'[t], clients[t])
        PROVE  HeldTable(clients')
    BY <2>0, <2>3, LeftHeld
  <2>4. \A t \in Slots : LeftOf(clients[t], clients[t])
    BY DEF LeftOf
  <2>5. ASSUME NEW s \in Slots, NEW from \in Peers, HandleData(s, from)
        PROVE  HeldTable(clients')
    <3>1. \A t \in Slots : clients'[t] = IF t = s THEN Seen(clients[s], from) ELSE clients[t]
      BY <2>0, <2>5 DEF HandleData
    <3> QED
      BY <2>0, <2>3, <2>4, <3>1, SeenLeft
  <2>6. ASSUME NEW s \in Slots, NEW from \in Peers, HandleFirstData(s, from)
        PROVE  HeldTable(clients')
    <3> DEFINE x == FirstOn(clients[s], from, now + Grace)
    <3>1. clients' = [clients EXCEPT ![s] = x]
      BY <2>6 DEF HandleFirstData, FirstOn
    <3>2. LeftOf(x, clients[s])
      BY <2>0, FirstLeft
    <3> HIDE DEF x
    <3>3. \A t \in Slots : clients'[t] = IF t = s THEN x ELSE clients[t]
      BY <2>0, <3>1
    <3> QED
      BY <2>3, <2>4, <3>2, <3>3
  <2>7. ASSUME NEW E, NEW S, NEW t \in Slots
        PROVE  Wiped(E, S)[t] = IF t \in S THEN Free ELSE E[t]
    BY DEF Wiped
  <2>8. CASE ExpireClients
    <3>1. PICK S : clients' = Wiped([s \in Slots |-> Aged(clients[s])], S)
      BY <2>8 DEF ExpireClients
    <3>2. \A t \in Slots : clients'[t] = IF t \in S THEN Free ELSE Aged(clients[t])
      BY <2>7, <3>1
    <3> QED
      BY <2>0, <2>3, <3>2, AgedLeft
  <2>9. ASSUME NEW p \in Peers, AcceptTcp(p)
        PROVE  HeldTable(clients')
    BY <2>9, AcceptDoes
  <2>10. ASSUME NEW s \in Slots, CloseTcp(s)
         PROVE  HeldTable(clients')
    BY <2>3, <2>4, <2>7, <2>10 DEF CloseTcp
  <2>11. ASSUME NEW c \in Configs, Reload(c)
         PROVE  HeldTable(clients')
    <3>1. PICK S : clients' = Wiped([s \in Slots |-> Withdrawn(c, clients[s])], S)
      BY <2>11 DEF Reload
    <3>2. \A t \in Slots : clients'[t] = IF t \in S THEN Free ELSE Withdrawn(c, clients[t])
      BY <2>7, <3>1
    <3> QED
      BY <2>0, <2>3, <3>2, WithdrawnLeft
  <2>12. CASE Tick
    BY <2>3, <2>4, <2>12 DEF Tick
  <2>13. CASE UNCHANGED vars
    BY <2>3, <2>4, <2>13 DEF vars
  <2> QED
    BY <2>1, <2>2, <2>5, <2>6, <2>8, <2>9, <2>10, <2>11, <2>12, <2>13 DEF Next
<1>3. HeldTable(clients') <=> HeldTable(clients)'
  BY DEF HeldTable, KnownEntry, OneId, Exclusive, HoldsIp, Manual
<1> QED
  BY <1>1, <1>2, <1>3, AddressInvariant, PTL DEF Spec, HeldInv

\* An address an auto client holds is held by nobody else, whoever comes,
\* moves to another address, fails a handshake or leaves, and whatever the
\* configurations say: the packets for it reach that client.
THEOREM HeldOnce == Spec => []AddressHeldOnce
<1>1. HeldInv => AddressHeldOnce
  BY DEF HeldInv, HeldTable, Exclusive, Manual, AddressHeldOnce
<1> QED
  BY <1>1, HeldInvariant, PTL

----------------------------------------------------------------------------
(* The leases *)

\* One lease for an address, one to return to for an ID
PairSound(L) ==
    \A l, m \in L : l # m => l.ip # m.ip /\ (l.id # m.id \/ l.prev \/ m.prev)

\* A live auto client has no lease
NoLease(L, e) ==
    e.registered /\ e.auto => LeasesOfId(L, e.id) = {} /\ LeasesOfIp(L, e.ip) = {}

LeaseInv == HeldInv /\ LeaseTableSound

\* server_lease_add(): the new leases are in, each other that stays has
\* another address and is not its ID's.
LEMMA LeaseAddsSound ==
    ASSUME NEW c, NEW L, PairSound(L), NEW new, PairSound(new), NEW M \in LeaseAdds(c, L, new)
    PROVE  PairSound(M) /\ M \subseteq L \cup new /\ new \subseteq M
<1> DEFINE kept == {l \in L : \A n \in new :
                       n.ip # l.ip /\ (n.prev \/ l.prev \/ n.id # l.id)}
<1>1. PICK K \in SUBSET kept : M = K \cup new
  BY DEF LeaseAdds
<1>2. ASSUME NEW l \in M, NEW m \in M, l # m
      PROVE  l.ip # m.ip /\ (l.id # m.id \/ l.prev \/ m.prev)
  <2>1. CASE l \in new /\ m \in new
    BY <1>2, <2>1 DEF PairSound
  <2>2. CASE l \in K /\ m \in new
    BY <2>2
  <2>3. CASE l \in new /\ m \in K
    BY <2>3
  <2>4. CASE l \in K /\ m \in K
    BY <1>2, <2>4 DEF PairSound
  <2> QED
    BY <1>1, <2>1, <2>2, <2>3, <2>4
<1> QED
  BY <1>1, <1>2 DEF PairSound

\* What a lease that a slot leaves says of the slot
LeaseOf(c, e, l) ==
    /\ e.active /\ e.registered /\ e.auto /\ e.id # NoId
    /\ l.id = e.id /\ l.since = now
    /\ l.ip \in c.pool /\ ProfileOwner(c, l.ip) = NoId /\ HoldsIp(e, l.ip)
    /\ l.prev \/ l.ip = e.ip

\* The leases a slot leaves are for its client, on addresses of the pool that
\* it holds and that have no block; one for its address and one for the
\* previous session's.
LEMMA LeavesLeases ==
    ASSUME NEW c \in Configs, NEW e
    PROVE  /\ \A l \in LeasesLeft(c, e) : LeaseOf(c, e, l)
           /\ PairSound(LeasesLeft(c, e))
           /\ e.active /\ e.registered /\ e.auto /\ e.id # NoId
                 /\ e.ip \in c.pool /\ ProfileOwner(c, e.ip) = NoId
              => \E l \in LeasesLeft(c, e) : l.id = e.id /\ l.ip = e.ip
<1> DEFINE keeps(ip) == ip \in c.pool /\ ProfileOwner(c, ip) = NoId
           lease(ip, prev) == [id |-> e.id, ip |-> ip, since |-> now, prev |-> prev]
           own == {lease(ip, FALSE) : ip \in {x \in {e.ip} : keeps(x)}}
           old == {lease(ip, TRUE) : ip \in {x \in {e.prev_ip} :
                       e.prev # NoAddr /\ x # e.ip /\ keeps(x)}}
           used == e.active /\ e.registered /\ e.auto /\ e.id # NoId
<1>1. LeasesLeft(c, e) = IF used THEN own \cup old ELSE {}
  BY DEF LeasesLeft
<1>2. NoAddr \notin c.pool
  BY TableAssumption DEF Config
<1>3. ASSUME NEW l \in own
      PROVE  l = lease(e.ip, FALSE) /\ keeps(e.ip)
  OBVIOUS
<1>4. ASSUME NEW l \in old
      PROVE  l = lease(e.prev_ip, TRUE) /\ e.prev # NoAddr /\ e.prev_ip # e.ip /\ keeps(e.prev_ip)
  OBVIOUS
<1>5. keeps(e.ip) => lease(e.ip, FALSE) \in own
  OBVIOUS
<1> HIDE DEF own, old
<1>6. ASSUME NEW l \in LeasesLeft(c, e) PROVE LeaseOf(c, e, l)
  <2>1. used /\ (l \in own \/ l \in old)
    BY <1>1
  <2>2. CASE l \in own
    BY <1>2, <1>3, <2>1, <2>2 DEF LeaseOf, HoldsIp
  <2>3. CASE l \in old
    BY <1>2, <1>4, <2>1, <2>3 DEF LeaseOf, HoldsIp
  <2> QED
    BY <2>1, <2>2, <2>3
<1>7. PairSound(LeasesLeft(c, e))
  <2> SUFFICES ASSUME NEW l \in LeasesLeft(c, e), NEW m \in LeasesLeft(c, e), l # m
               PROVE  l.ip # m.ip /\ (l.id # m.id \/ l.prev \/ m.prev)
    BY DEF PairSound
  <2>1. (l \in own \/ l \in old) /\ (m \in own \/ m \in old)
    BY <1>1
  <2>2. ~(l \in own /\ m \in own) /\ ~(l \in old /\ m \in old)
    BY <1>3, <1>4
  <2> QED
    BY <1>3, <1>4, <2>1, <2>2
<1>8. ASSUME used, keeps(e.ip)
      PROVE  \E l \in LeasesLeft(c, e) : l.id = e.id /\ l.ip = e.ip
  <2>1. lease(e.ip, FALSE) \in LeasesLeft(c, e)
    BY <1>1, <1>5, <1>8
  <2> QED
    BY <2>1
<1> QED
  BY <1>6, <1>7, <1>8

\* The leases the slots S leave, their clients ended under configuration c
NewLeases(c, E, S) == UNION {LeasesLeft(c, E[s]) : s \in S}

\* An auto client's addresses are its own, so the leases of several do not meet.
LEMMA NewSound ==
    ASSUME NEW c \in Configs, NEW E, HeldTable(E), NEW S \in SUBSET Slots
    PROVE  /\ PairSound(NewLeases(c, E, S))
           /\ \A l \in NewLeases(c, E, S) : \E s \in S : LeaseOf(c, E[s], l)
<1> DEFINE new == NewLeases(c, E, S)
<1>0. c.pool \subseteq Addrs
  BY TableAssumption DEF Config
<1>1. ASSUME NEW l \in new
      PROVE  \E s \in S : l \in LeasesLeft(c, E[s]) /\ LeaseOf(c, E[s], l)
  BY LeavesLeases DEF NewLeases
<1>2. PairSound(new)
  <2> SUFFICES ASSUME NEW l \in new, NEW m \in new, l # m
               PROVE  l.ip # m.ip /\ (l.id # m.id \/ l.prev \/ m.prev)
    BY DEF PairSound
  <2>1. PICK s \in S : l \in LeasesLeft(c, E[s]) /\ LeaseOf(c, E[s], l)
    BY <1>1
  <2>2. PICK t \in S : m \in LeasesLeft(c, E[t]) /\ LeaseOf(c, E[t], m)
    BY <1>1
  <2>3. CASE s = t
    <3>1. PairSound(LeasesLeft(c, E[s]))
      BY LeavesLeases
    <3> QED
      BY <2>1, <2>2, <2>3, <3>1 DEF PairSound
  <2>4. CASE s # t
    <3>1. ~Manual(E[s]) /\ E[s].active /\ E[t].active /\ E[s].id \in AutoIds
      BY <2>1, <2>2 DEF LeaseOf, Manual, HeldTable, KnownEntry
    <3>2. l.ip # m.ip
      BY <1>0, <2>1, <2>2, <2>4, <3>1 DEF LeaseOf, HeldTable, Exclusive
    <3>3. l.id # m.id
      BY <2>1, <2>2, <2>4, <3>1 DEF LeaseOf, HeldTable, OneId
    <3> QED
      BY <3>2, <3>3
  <2> QED
    BY <2>3, <2>4
<1> QED
  BY <1>1, <1>2

\* server_end_client() of several slots: the leases left do not meet, nor do
\* they meet a client that stays.
LEMMA EndLeasesSound ==
    ASSUME NEW c \in Configs, NEW E, HeldTable(E), NEW L, PairSound(L), NEW S \in SUBSET Slots,
           NEW M \in EndLeases(c, E, L, S)
    PROVE  /\ PairSound(M)
           /\ \A t \in Slots \ S : NoLease(L, E[t]) => NoLease(M, E[t])
<1> DEFINE new == NewLeases(c, E, S)
<1>0. c.pool \subseteq Addrs
  BY TableAssumption DEF Config
<1>1. \A l \in new : \E s \in S : LeaseOf(c, E[s], l)
  BY NewSound
<1>2. PairSound(new)
  BY NewSound
<1>3. M \in LeaseAdds(c, L, new)
  BY DEF EndLeases, NewLeases
<1>4. ASSUME NEW t \in Slots \ S, E[t].registered, E[t].auto, NEW l \in new
      PROVE  l.id # E[t].id /\ l.ip # E[t].ip
  <2>1. PICK s \in S : LeaseOf(c, E[s], l)
    BY <1>1
  <2>2. ~Manual(E[s]) /\ E[s].active /\ E[t].active /\ E[s].id \in AutoIds
    BY <1>4, <2>1 DEF LeaseOf, Manual, HeldTable, KnownEntry
  <2>3. l.id # E[t].id
    BY <2>1, <2>2 DEF LeaseOf, HeldTable, OneId
  <2>4. l.ip = E[t].ip => HoldsIp(E[t], l.ip)
    BY <2>1, <2>2 DEF LeaseOf, HoldsIp
  <2>5. l.ip # E[t].ip
    BY <1>0, <2>1, <2>2, <2>4 DEF LeaseOf, HeldTable, Exclusive
  <2> QED
    BY <2>3, <2>5
<1> HIDE DEF new
<1>5. PairSound(M) /\ M \subseteq L \cup new
  BY <1>2, <1>3, LeaseAddsSound
<1>6. ASSUME NEW t \in Slots \ S, NoLease(L, E[t]), E[t].registered, E[t].auto
      PROVE  LeasesOfId(M, E[t].id) = {} /\ LeasesOfIp(M, E[t].ip) = {}
  BY <1>4, <1>5, <1>6 DEF NoLease, LeasesOfId, LeasesOfIp
<1> QED
  BY <1>5, <1>6 DEF NoLease

\* An entry with the same client and the same address has no lease either.
LEMMA SameNoLease ==
    ASSUME NEW L, NEW f, NoLease(L, f), NEW e,
           e.registered /\ e.auto => f.registered /\ f.auto /\ e.id = f.id /\ e.ip = f.ip,
           NEW M, M \subseteq L
    PROVE  NoLease(M, e)
BY DEF NoLease, LeasesOfId, LeasesOfIp

\* Fewer leases of a sound table.
LEMMA FewerSound ==
    ASSUME NEW L, PairSound(L), NEW M, M \subseteq L PROVE PairSound(M)
BY DEF PairSound

\* The leases a claim leaves.
LEMMA ClaimLeases ==
    ASSUME LeaseInv, NEW r \in Requests, NEW from \in Peers, CanSend(r, from),
           NEW c \in EntryFor(r, from)
    PROVE  /\ PairSound(c.leases)
           /\ \A t \in Slots \ {c.slot} : NoLease(c.leases, c.table[t])
<1>1. /\ c \in ClaimType /\ OthersLeft(c)
      /\ IF c.fresh THEN Emptied(c) ELSE c.leases = leases
  <2>1. CASE r.auto
    BY <2>1, AutoClaim DEF EntryFor, LeaseInv
  <2>2. CASE ~r.auto
    BY <2>2, ManualClaim DEF EntryFor, LeaseInv
  <2> QED
    BY <2>1, <2>2
<1>2. /\ PairSound(leases) /\ \A s \in Slots : NoLease(leases, clients[s])
      /\ HeldTable(clients) /\ conf \in Configs /\ {c.slot} \in SUBSET Slots
  BY <1>1 DEF LeaseInv, LeaseTableSound, PairSound, NoLease, HeldInv, AddressInv, TypeOK, ClaimType
<1>3. PairSound(c.leases) /\ \A t \in Slots \ {c.slot} : NoLease(c.leases, clients[t])
  <2>1. CASE c.leases = leases
    BY <1>2, <2>1
  <2>2. CASE c.leases \in EndLeases(conf, clients, leases, {c.slot})
    BY <1>2, <2>2, EndLeasesSound
  <2> QED
    BY <1>1, <2>1, <2>2 DEF Emptied
<1> QED
  BY <1>1, <1>3, FreeHeld DEF OthersLeft, NoLease

\* A handshake that fails leaves the client it is for as it was.
LEMMA FailedNoLease ==
    ASSUME LeaseInv, NEW r \in Requests, NEW from \in Peers, CanSend(r, from),
           NEW c \in EntryFor(r, from)
    PROVE  NoLease(c.leases, IF c.fresh THEN Free ELSE Entered(c, r, from))
<1> DEFINE e == Entered(c, r, from)
<1>1. CASE c.fresh
  BY <1>1, FreeHeld DEF NoLease
<1>2. CASE ~c.fresh /\ ~r.auto
  <2>1. c \in ClaimType
    BY <1>2, ManualClaim DEF EntryFor, LeaseInv
  <2>2. e.auto = r.auto
    BY <2>1, EnteredKeeps DEF LeaseInv, HeldInv
  <2> HIDE DEF e
  <2>3. NoLease(c.leases, e)
    BY <1>2, <2>2 DEF NoLease
  <2> QED
    BY <1>2, <2>3 DEF e
<1>3. CASE ~c.fresh /\ r.auto
  <2>1. /\ c \in ClaimType /\ c.slot \in Slots /\ c.leases = leases
        /\ ClaimedFrom(c.table[c.slot], clients[c.slot], clients[c.slot].ip)
        /\ ~Manual(clients[c.slot])
        /\ clients[c.slot].registered => clients[c.slot].id = r.id
    BY <1>3, AutoClaim DEF EntryFor, LeaseInv, Base, ClaimType
  <2>2. /\ e.registered = clients[c.slot].registered /\ e.id = ClaimedId(r)
        /\ e.ip = clients[c.slot].ip
    <3> DEFINE b == clients[c.slot]
               own == b.ip
    <3>1. ClaimedFrom(c.table[c.slot], b, own)
      BY <2>1
    <3> HIDE DEF b, own
    <3>2. e.registered = b.registered /\ e.id = ClaimedId(r) /\ e.ip = own
      BY <2>1, <3>1, EnteredHolds DEF LeaseInv
    <3> QED
      BY <3>2 DEF b, own
  <2>3. ClaimedId(r) = r.id
    BY <1>3, TableAssumption DEF Requests, ClaimedId, Ids
  <2> HIDE DEF e
  <2>4. NoLease(leases, clients[c.slot])
    BY <2>1 DEF LeaseInv, LeaseTableSound, NoLease
  <2>5. NoLease(c.leases, e)
    BY <2>1, <2>2, <2>3, <2>4, SameNoLease DEF Manual
  <2> QED
    BY <1>3, <2>5 DEF e
<1>4. r.auto \in BOOLEAN
  BY DEF Requests
<1> QED
  BY <1>1, <1>2, <1>3, <1>4

\* The table after a handshake: the claim's with one entry written.
LEMMA WrittenSound ==
    ASSUME NEW c \in ClaimType, NEW L, L \subseteq c.leases, PairSound(c.leases),
           \A t \in Slots \ {c.slot} : NoLease(c.leases, c.table[t]),
           NEW e, NoLease(L, e)
    PROVE  PairSound(L) /\ \A t \in Slots : NoLease(L, WithEntry(c, e)[t])
<1>1. \A t \in Slots : WithEntry(c, e)[t] = IF t = c.slot THEN e ELSE c.table[t]
  BY DEF WithEntry, ClaimType
<1>2. \A t \in Slots \ {c.slot} : NoLease(L, c.table[t])
  BY SameNoLease
<1> QED
  BY <1>1, <1>2, FewerSound

\* The lease table is sound at all times: however clients come, return under
\* another address, are evicted or displaced, no live auto client has a lease
\* kept from it, no address two leases, no ID two addresses to return to.
THEOREM LeasesSound == Spec => []LeaseTableSound
<1>1. Init => LeaseTableSound
  <2> SUFFICES ASSUME Init PROVE LeaseTableSound
    OBVIOUS
  <2>1. leases = {} /\ \A s \in Slots : clients[s] = Free
    BY DEF Init
  <2> QED
    BY <2>1, FreeHeld DEF LeaseTableSound
<1>2. HeldInv /\ LeaseTableSound /\ [Next]_vars => LeaseTableSound'
  <2> SUFFICES ASSUME LeaseInv, [Next]_vars
               PROVE  PairSound(leases') /\ \A t \in Slots : NoLease(leases', clients'[t])
    BY DEF LeaseInv, LeaseTableSound, PairSound, NoLease, LeasesOfId, LeasesOfIp
  <2>0. /\ clients \in [Slots -> Entry] /\ HeldInv /\ HeldTable(clients) /\ now \in Nat
        /\ conf \in Configs
        /\ PairSound(leases) /\ \A t \in Slots : NoLease(leases, clients[t])
    BY DEF LeaseInv, LeaseTableSound, PairSound, NoLease, HeldInv, AddressInv, TypeOK
  <2>1. ASSUME NEW r \in Requests, NEW from \in Peers, AnswerInit(r, from)
        PROVE  PairSound(leases') /\ \A t \in Slots : NoLease(leases', clients'[t])
    <3>1. CanSend(r, from)
      BY <2>1 DEF AnswerInit
    <3>0. PICK c \in EntryFor(r, from) : \E e :
             clients' = WithEntry(c, e) /\ leases' = LeasesAnswered(c.leases, e)
      BY <2>1 DEF AnswerInit
    <3>2. PICK e : clients' = WithEntry(c, e) /\ leases' = LeasesAnswered(c.leases, e)
      BY <3>0
    <3>3. c \in ClaimType
      BY <2>0, EntryForType DEF HeldInv, AddressInv
    <3>4. leases' \subseteq c.leases /\ NoLease(leases', e)
      BY <3>2 DEF LeasesAnswered, NoLease, LeasesOfId, LeasesOfIp
    <3>5. /\ PairSound(c.leases)
          /\ \A t \in Slots \ {c.slot} : NoLease(c.leases, c.table[t])
      BY <3>1, ClaimLeases
    <3> QED
      BY <3>2, <3>3, <3>4, <3>5, WrittenSound
  <2>2. ASSUME NEW r \in Requests, NEW from \in Peers, FailInit(r, from)
        PROVE  PairSound(leases') /\ \A t \in Slots : NoLease(leases', clients'[t])
    <3>1. CanSend(r, from)
      BY <2>2 DEF FailInit
    <3>2. PICK c \in EntryFor(r, from) :
             /\ clients' = WithEntry(c, IF c.fresh THEN Free ELSE Entered(c, r, from))
             /\ leases' = c.leases
      BY <2>2 DEF FailInit
    <3>3. c \in ClaimType
      BY <2>0, EntryForType DEF HeldInv, AddressInv
    <3>4. NoLease(c.leases, IF c.fresh THEN Free ELSE Entered(c, r, from))
      BY <3>1, FailedNoLease
    <3>5. /\ PairSound(c.leases)
          /\ \A t \in Slots \ {c.slot} : NoLease(c.leases, c.table[t])
      BY <3>1, ClaimLeases
    <3> QED
      BY <3>2, <3>3, <3>4, <3>5, WrittenSound
  \* The steps that leave the leases alone
  <2>3. ASSUME leases' \subseteq leases,
               \A t \in Slots : \/ ~clients'[t].registered
                                \/ /\ LeftOf(clients'[t], clients[t])
                                   /\ \/ clients'[t].ip = clients[t].ip
                                      \/ LeasesOfIp(leases', clients'[t].ip) = {}
        PROVE  PairSound(leases') /\ \A t \in Slots : NoLease(leases', clients'[t])
    <3>1. ASSUME NEW t \in Slots PROVE NoLease(leases', clients'[t])
      <4>1. NoLease(leases, clients[t])
        BY <2>0
      <4>2. CASE ~clients'[t].registered
        BY <4>2 DEF NoLease
      <4>3. CASE LeftOf(clients'[t], clients[t])
        BY <2>3, <4>1, <4>3 DEF NoLease, LeftOf, LeasesOfId, LeasesOfIp
      <4> QED
        BY <2>3, <4>2, <4>3
    <3> QED
      BY <2>0, <2>3, <3>1, FewerSound
  <2>4. \A t \in Slots : LeftOf(clients[t], clients[t])
    BY DEF LeftOf
  <2>5. ASSUME NEW s \in Slots, NEW from \in Peers, HandleData(s, from)
        PROVE  PairSound(leases') /\ \A t \in Slots : NoLease(leases', clients'[t])
    <3>1. \A t \in Slots : clients'[t] = IF t = s THEN Seen(clients[s], from) ELSE clients[t]
      BY <2>0, <2>5 DEF HandleData
    <3>2. leases' = leases
      BY <2>5 DEF HandleData
    <3> QED
      BY <2>0, <2>3, <2>4, <3>1, <3>2, SeenLeft
  <2>6. ASSUME NEW s \in Slots, NEW from \in Peers, HandleFirstData(s, from)
        PROVE  PairSound(leases') /\ \A t \in Slots : NoLease(leases', clients'[t])
    <3> DEFINE e == clients[s]
               x == FirstOn(e, from, now + Grace)
    <3>1. clients' = [clients EXCEPT ![s] = x]
      BY <2>6 DEF HandleFirstData, FirstOn
    <3>2. LeftOf(x, e) /\ x.ip = IF e.pending # NoAddr THEN e.pending ELSE e.ip
      BY <2>0, FirstLeft
    <3>3. leases' = IF e.pending # NoAddr THEN leases \ LeasesOfIp(leases, e.pending) ELSE leases
      BY <2>6 DEF HandleFirstData
    <3> HIDE DEF x
    <3>4. leases' \subseteq leases /\ (x.ip = e.ip \/ LeasesOfIp(leases', x.ip) = {})
      BY <3>2, <3>3 DEF LeasesOfIp
    <3>5. \A t \in Slots : clients'[t] = IF t = s THEN x ELSE clients[t]
      BY <2>0, <3>1
    <3> QED
      BY <2>3, <2>4, <3>2, <3>4, <3>5
  \* The steps that end the clients of the slots S, a part of those wiped
  <2>7. ASSUME NEW c \in Configs, NEW E, HeldTable(E), NEW S \in SUBSET Slots,
               NEW W \in SUBSET Slots, S \subseteq W,
               leases' \in EndLeases(c, E, leases, S),
               \A t \in Slots : clients'[t] = Free \/ (t \notin W /\ NoLease(leases, E[t]) /\
                  clients'[t].id = E[t].id /\ clients'[t].ip = E[t].ip /\
                  clients'[t].registered = E[t].registered /\ clients'[t].auto = E[t].auto)
        PROVE  PairSound(leases') /\ \A t \in Slots : NoLease(leases', clients'[t])
    <3>1. PairSound(leases') /\ \A t \in Slots \ S : NoLease(leases, E[t]) => NoLease(leases', E[t])
      BY <2>0, <2>7, EndLeasesSound
    <3>2. ASSUME NEW t \in Slots PROVE NoLease(leases', clients'[t])
      <4>1. CASE clients'[t] = Free
        BY <4>1, FreeHeld DEF NoLease
      <4>2. CASE clients'[t] # Free
        <5>1. NoLease(leases', E[t])
          BY <2>7, <3>1, <4>2
        <5> QED
          BY <2>7, <4>2, <5>1 DEF NoLease
      <4> QED
        BY <4>1, <4>2
    <3> QED
      BY <3>1, <3>2
  <2>8. ASSUME NEW E, NEW S, NEW t \in Slots
        PROVE  Wiped(E, S)[t] = IF t \in S THEN Free ELSE E[t]
    BY DEF Wiped
  <2>9. CASE ExpireClients
    <3> DEFINE aged == [s \in Slots |-> Aged(clients[s])]
               dead == {s \in Slots : Silent(clients[s])}
    <3>1. /\ clients' = Wiped(aged, dead) /\ leases' \in EndLeases(conf, aged, leases, dead)
          /\ dead \in SUBSET Slots
      BY <2>9 DEF ExpireClients
    <3>2. \A t \in Slots : LeftOf(aged[t], clients[t]) /\ aged[t].ip = clients[t].ip
      BY <2>0, AgedLeft
    <3> HIDE DEF aged, dead
    <3>3. HeldTable(aged)
      BY <2>0, <3>2, LeftHeld
    <3>4. \A t \in Slots : NoLease(leases, aged[t])
      BY <2>0, <3>2 DEF NoLease, LeftOf
    <3>5. \A t \in Slots : clients'[t] = IF t \in dead THEN Free ELSE aged[t]
      BY <2>8, <3>1
    <3> QED
      BY <2>0, <2>7, <3>1, <3>3, <3>4, <3>5
  <2>10. ASSUME NEW p \in Peers, AcceptTcp(p)
         PROVE  PairSound(leases') /\ \A t \in Slots : NoLease(leases', clients'[t])
    <3>1. \A t \in Slots : clients'[t].registered => clients'[t] = clients[t]
      BY <2>0, <2>10, AcceptDoes
    <3>2. leases' = leases
      BY <2>10 DEF AcceptTcp
    <3> QED
      BY <2>3, <2>4, <3>1, <3>2
  <2>11. ASSUME NEW s \in Slots, CloseTcp(s)
         PROVE  PairSound(leases') /\ \A t \in Slots : NoLease(leases', clients'[t])
    <3>1. /\ clients' = Wiped(clients, {s}) /\ leases' \in EndLeases(conf, clients, leases, {s})
          /\ {s} \in SUBSET Slots
      BY <2>11 DEF CloseTcp
    <3>2. \A t \in Slots : clients'[t] = IF t \in {s} THEN Free ELSE clients[t]
      BY <2>8, <3>1
    <3> QED
      BY <2>0, <2>7, <3>1, <3>2
  <2>12. ASSUME NEW c \in Configs, Reload(c)
         PROVE  PairSound(leases') /\ \A t \in Slots : NoLease(leases', clients'[t])
    <3> DEFINE ended == {s \in Slots : Revoked(c, clients[s])}
               displaced == {s \in Slots : Displaced(c, clients[s])}
               W == ended \cup displaced
    <3>1. /\ clients' = Wiped([s \in Slots |-> Withdrawn(c, clients[s])], W)
          /\ leases' \in EndLeases(c, clients, leases, ended)
          /\ ended \in SUBSET Slots /\ W \in SUBSET Slots /\ ended \subseteq W
      BY <2>12 DEF Reload
    <3> HIDE DEF ended, W
    <3>2. \A t \in Slots : clients'[t] = IF t \in W THEN Free ELSE Withdrawn(c, clients[t])
      BY <2>8, <3>1
    <3>3. \A t \in Slots : /\ LeftOf(Withdrawn(c, clients[t]), clients[t])
                           /\ Withdrawn(c, clients[t]).ip = clients[t].ip
      BY <2>0, WithdrawnLeft
    <3>4. \A t \in Slots : clients'[t] = Free \/ (t \notin W /\ NoLease(leases, clients[t]) /\
                  clients'[t].id = clients[t].id /\ clients'[t].ip = clients[t].ip /\
                  clients'[t].registered = clients[t].registered /\
                  clients'[t].auto = clients[t].auto)
      BY <2>0, <3>2, <3>3 DEF LeftOf
    <3> QED
      BY <2>0, <2>7, <3>1, <3>4
  <2>13. CASE Tick
    BY <2>3, <2>4, <2>13 DEF Tick
  <2>14. CASE UNCHANGED vars
    BY <2>3, <2>4, <2>14 DEF vars
  <2> QED
    BY <2>1, <2>2, <2>5, <2>6, <2>9, <2>10, <2>11, <2>12, <2>13, <2>14 DEF Next
<1> QED
  BY <1>1, <1>2, HeldInvariant, PTL DEF Spec

----------------------------------------------------------------------------
(* The end of a client *)

\* The lease table keeps e's address for e's client, from now on
LeasedNow(L, e) == \E l \in L : l.id = e.id /\ l.ip = e.ip /\ l.since = now

\* An auto client with an address of the pool that no block has
Leaves(c, e) ==
    /\ e.active /\ e.registered /\ e.auto /\ e.id # NoId
    /\ e.ip \in c.pool /\ ProfileOwner(c, e.ip) = NoId

\* server_end_client() leaves such a client a lease.
LEMMA EndLeasesGives ==
    ASSUME NEW c \in Configs, NEW E, NEW L, NEW S, NEW s \in S, Leaves(c, E[s]),
           NEW M \in EndLeases(c, E, L, S)
    PROVE  LeasedNow(M, E[s])
<1> DEFINE e == E[s]
           new == UNION {LeasesLeft(c, E[t]) : t \in S}
<1>1. \E l \in LeasesLeft(c, e) : l.id = e.id /\ l.ip = e.ip /\ l.since = now
  BY LeavesLeases DEF Leaves, LeaseOf
<1>2. LeasesLeft(c, e) \subseteq new
  OBVIOUS
<1>3. M \in LeaseAdds(c, L, new)
  BY DEF EndLeases
<1> HIDE DEF new
<1>4. new \subseteq M
  BY <1>3 DEF LeaseAdds
<1> QED
  BY <1>1, <1>2, <1>4 DEF LeasedNow

\* The address of a block is its owner's.
LEMMA ProfileOwned ==
    ASSUME conf \in Configs, NEW id, ProfileIp(conf, id) # NoAddr
    PROVE  ProfileOwner(conf, ProfileIp(conf, id)) # NoId
<1> DEFINE ip == ProfileIp(conf, id)
<1>1. id \in conf.listed /\ conf.profile[id] = ip /\ conf.listed \subseteq Ids
  BY TableAssumption DEF ProfileIp, Config
<1>2. ProfileOwner(conf, ip) \in conf.listed
  BY <1>1 DEF ProfileOwner
<1> QED
  BY <1>1, <1>2, TableAssumption

\* A lease made this second is young.
LEMMA NewIsYoung ==
    ASSUME now \in Nat, NEW l, l.since = now PROVE Young(l)
<1>1. RekeyAfter \in Nat /\ ClientTimeout \in Nat /\ RekeyAfter > 0
  BY TableAssumption
<1> QED
  BY <1>1 DEF Young, LeaseMin

\* Whom a handshake takes the slot from, if from anyone: an auto client that
\* does not return with it is evicted, and leaves its leases.
LEMMA Evicted ==
    ASSUME HeldInv, NEW r \in Requests, NEW from \in Peers, CanSend(r, from),
           NEW c \in EntryFor(r, from), NEW s \in Slots,
           clients[s].registered, clients[s].auto
    PROVE  /\ s # c.slot => c.table[s] = clients[s]
           /\ s = c.slot /\ ~c.fresh =>
                 r.auto /\ ClaimedId(r) = clients[s].id /\ c.table[s].registered
           /\ s = c.slot /\ c.fresh => c.leases \in EndLeases(conf, clients, leases, {s})
<1>1. clients[s].active
  BY DEF HeldInv, HeldTable, KnownEntry
<1>2. /\ OthersLeft(c)
      /\ ClaimedFrom(c.table[c.slot], Base(c), IF r.auto THEN Base(c).ip ELSE r.want)
      /\ IF c.fresh THEN Emptied(c)
         ELSE \/ r.auto /\ (clients[c.slot].registered => clients[c.slot].id = r.id)
              \/ ~(Base(c).registered /\ Base(c).auto)
  <2>1. CASE r.auto
    BY <2>1, AutoClaim DEF EntryFor
  <2>2. CASE ~r.auto
    BY <2>2, ManualClaim DEF EntryFor
  <2> QED
    BY <2>1, <2>2
<1>3. r.auto => ClaimedId(r) = r.id
  BY TableAssumption DEF Requests, ClaimedId, Ids
<1>4. s # c.slot => c.table[s] = clients[s]
  BY <1>2 DEF OthersLeft
<1>5. ASSUME s = c.slot, ~c.fresh
      PROVE  r.auto /\ ClaimedId(r) = clients[s].id /\ c.table[s].registered
  BY <1>2, <1>3, <1>5 DEF Base, ClaimedFrom
<1>6. ASSUME s = c.slot, c.fresh
      PROVE  c.leases \in EndLeases(conf, clients, leases, {s})
  BY <1>1, <1>2, <1>6 DEF Emptied
<1> QED
  BY <1>4, <1>5, <1>6

\* The newcomer that gets the slot of an evicted client, if it is another one,
\* is not given the address that was just leased.
LEMMA NewcomerMoves ==
    ASSUME LeaseInv, NEW r \in Requests, NEW from \in Peers, CanSend(r, from),
           NEW c \in EntryFor(r, from), c.fresh, NEW ip \in Offers(c, r, from),
           NEW e, ClaimedId(r) # e.id, ProfileOwner(conf, e.ip) = NoId, LeasedNow(c.leases, e)
    PROVE  LeasedNow(LeasesAnswered(c.leases, Answered(c, r, from, ip)), e)
<1> DEFINE x == Answered(c, r, from, ip)
<1>0. TypeOK /\ conf \in Configs /\ now \in Nat /\ PairSound(c.leases) /\ c \in ClaimType
  BY ClaimLeases, EntryForType DEF LeaseInv, HeldInv, AddressInv, TypeOK
<1>1. PICK l \in c.leases : l.id = e.id /\ l.ip = e.ip /\ l.since = now
  BY DEF LeasedNow
<1>2. ip \in Addrs
  BY <1>0, OffersType
<1>3. x.auto = r.auto /\ x.id = ClaimedId(r)
  BY <1>0, <1>2, AnsweredHolds DEF LeaseInv
<1>4. ASSUME r.auto PROVE x.ip # e.ip
  <2>1. x.ip = ip
    <3> DEFINE b == Base(c)
               own == b.ip
    <3>1. ClaimedFrom(c.table[c.slot], b, own) /\ b.cur = NoAddr
      BY <1>4, AutoClaim, FreeHeld DEF EntryFor, LeaseInv, Base
    <3> HIDE DEF b, own
    <3>2. Entered(c, r, from).cur = NoAddr
      BY <1>0, <3>1, EnteredHolds DEF LeaseInv
    <3> QED
      BY <1>0, <1>2, <1>4, <3>2, AnsweredHolds DEF LeaseInv
  <2>2. CASE ProfileIp(conf, r.id) # NoAddr
    <3>1. ip = ProfileIp(conf, r.id)
      BY <1>4, <2>2 DEF Offers
    <3> QED
      BY <1>0, <2>1, <2>2, <3>1, ProfileOwned
  <2>3. CASE ProfileIp(conf, r.id) = NoAddr
    <3>1. \/ \A m \in LeasesOfIp(c.leases, ip) : m.id = r.id
          \/ \E m \in LeasesOfIp(c.leases, ip) : ~Young(m)
      <4> DEFINE E == WithEntry(c, Entered(c, r, from))
                 id == r.id
      <4>1. ip \in PoolOffers(c, E, r, id)
        BY <1>4, <2>3 DEF Offers
      <4> HIDE DEF E, id
      <4>2. \/ \A m \in LeasesOfIp(c.leases, ip) : m.id = id
            \/ \E m \in LeasesOfIp(c.leases, ip) : ~Young(m)
        BY <4>1, PoolGives
      <4> QED
        BY <4>2 DEF id
    <3>2. r.id # e.id
      BY <1>4, TableAssumption DEF Requests, ClaimedId, Ids
    <3>3. ASSUME ip = e.ip, NEW m \in LeasesOfIp(c.leases, ip) PROVE m = l
      BY <1>0, <1>1, <3>3 DEF LeasesOfIp, PairSound
    <3>4. l \in LeasesOfIp(c.leases, e.ip) /\ Young(l)
      BY <1>0, <1>1, NewIsYoung DEF LeasesOfIp
    <3> QED
      BY <1>1, <2>1, <3>1, <3>2, <3>3, <3>4
  <2> QED
    BY <2>2, <2>3
<1> HIDE DEF x
<1>5. l \in LeasesAnswered(c.leases, x)
  BY <1>1, <1>3, <1>4 DEF LeasesAnswered, LeasesOfId, LeasesOfIp
<1> QED
  BY <1>1, <1>5 DEF LeasedNow, x

\* The client of e has an entry after the step
Stays(e) == \E t \in Slots : clients'[t].registered /\ clients'[t].id = e.id

\* An auto client of the pool keeps an entry or leaves its lease
LeftLeased(s) ==
    clients[s].registered /\ clients[s].auto /\ clients[s].ip \in conf.pool \cap conf'.pool
    /\ ProfileOwner(conf', clients[s].ip) = NoId /\ ~Stays(clients[s])
    => \E l \in leases' : l.id = clients[s].id /\ l.ip = clients[s].ip

\* The steps of a handshake: the reply carries an address of Offers, or it fails.
LEMMA HandshakeLeavesLease ==
    ASSUME LeaseInv, NEW r \in Requests, NEW from \in Peers, CanSend(r, from),
           NEW c \in EntryFor(r, from), conf' = conf, NEW x, NEW ip, NEW s \in Slots,
           clients' = WithEntry(c, x),
           \/ x = (IF c.fresh THEN Free ELSE Entered(c, r, from)) /\ leases' = c.leases
           \/ /\ ip \in Offers(c, r, from) /\ x = Answered(c, r, from, ip)
              /\ leases' = LeasesAnswered(c.leases, x)
    PROVE  LeftLeased(s)
<1> SUFFICES ASSUME clients[s].registered, clients[s].auto, clients[s].ip \in conf.pool,
                    ProfileOwner(conf, clients[s].ip) = NoId, ~Stays(clients[s])
             PROVE  LeasedNow(leases', clients[s])
  BY DEF LeftLeased, LeasedNow
<1>0. TypeOK /\ conf \in Configs /\ c \in ClaimType /\ HeldInv /\ AddressInv
  BY EntryForType DEF LeaseInv, HeldInv, AddressInv, TypeOK
<1>1. Leaves(conf, clients[s])
  <2>1. clients[s].active /\ clients[s].id \in AutoIds
    BY <1>0 DEF HeldInv, HeldTable, KnownEntry
  <2> QED
    BY <2>1, TableAssumption DEF Leaves, Ids
<1>2. \A t \in Slots : clients'[t] = IF t = c.slot THEN x ELSE c.table[t]
  BY <1>0 DEF WithEntry, ClaimType
<1>3. /\ s # c.slot => c.table[s] = clients[s]
      /\ s = c.slot /\ ~c.fresh =>
            r.auto /\ ClaimedId(r) = clients[s].id /\ c.table[s].registered
      /\ s = c.slot /\ c.fresh => c.leases \in EndLeases(conf, clients, leases, {s})
  BY <1>0, Evicted
<1>4. s = c.slot
  BY <1>2, <1>3 DEF Stays
<1>5. ASSUME NEW j, j \in Offers(c, r, from), x = Answered(c, r, from, j)
      PROVE  x.registered /\ x.id = ClaimedId(r)
  <2>1. j \in Addrs
    BY <1>0, <1>5, OffersType
  <2> QED
    BY <1>0, <1>5, <2>1, AnsweredHolds
<1>6. c.fresh
  <2> SUFFICES ASSUME ~c.fresh PROVE FALSE
    OBVIOUS
  <2>1. Entered(c, r, from).registered = c.table[s].registered /\ Entered(c, r, from).id = ClaimedId(r)
    BY <1>0, <1>4, EnteredKeeps
  <2>2. x.registered /\ x.id = clients[s].id
    BY <1>3, <1>4, <1>5, <2>1
  <2> QED
    BY <1>2, <1>4, <2>2 DEF Stays
<1>7. LeasedNow(c.leases, clients[s])
  <2> DEFINE e == clients[s]
  <2>1. {s} \in SUBSET Slots /\ s \in {s} /\ c.leases \in EndLeases(conf, clients, leases, {s})
    BY <1>3, <1>4, <1>6
  <2> QED
    BY <1>0, <1>1, <2>1, EndLeasesGives
<1>8. CASE leases' = c.leases
  BY <1>7, <1>8
<1>9. CASE ip \in Offers(c, r, from) /\ x = Answered(c, r, from, ip)
              /\ leases' = LeasesAnswered(c.leases, x)
  <2>1. ClaimedId(r) # clients[s].id
    BY <1>2, <1>4, <1>5, <1>9 DEF Stays
  <2> QED
    BY <1>6, <1>7, <1>9, <2>1, NewcomerMoves
<1> QED
  BY <1>8, <1>9

\* However an auto client's entry ends (silence, eviction, a closed
\* connection, a reload), its pool address is leased to it, whatever the
\* newcomer that has its slot now was given.
THEOREM EndsLeased == Spec => EndLeavesLease
<1>1. LeaseInv /\ [Next]_vars => [\A s \in Slots : LeftLeased(s)]_vars
  <2> SUFFICES ASSUME LeaseInv, Next, NEW s \in Slots PROVE LeftLeased(s)
    OBVIOUS
  <2>0. /\ clients \in [Slots -> Entry] /\ HeldInv /\ HeldTable(clients) /\ now \in Nat
        /\ conf \in Configs /\ PairSound(leases)
        /\ clients[s].registered /\ clients[s].auto => clients[s].active /\ clients[s].id # NoId
    BY TableAssumption
    DEF LeaseInv, LeaseTableSound, PairSound, HeldInv, AddressInv, TypeOK, HeldTable, KnownEntry, Ids
  <2>1. ASSUME NEW r \in Requests, NEW from \in Peers, AnswerInit(r, from)
        PROVE  LeftLeased(s)
    BY <2>1, HandshakeLeavesLease DEF AnswerInit
  <2>2. ASSUME NEW r \in Requests, NEW from \in Peers, FailInit(r, from)
        PROVE  LeftLeased(s)
    BY <2>2, HandshakeLeavesLease DEF FailInit
  \* The steps after which the entry is still the client's
  <2>3. ASSUME LeftOf(clients'[s], clients[s]) PROVE LeftLeased(s)
    BY <2>3 DEF LeftLeased, Stays, LeftOf
  <2>4. LeftOf(clients[s], clients[s])
    BY DEF LeftOf
  <2>5. ASSUME NEW t \in Slots, NEW from \in Peers, HandleData(t, from) PROVE LeftLeased(s)
    <3>1. clients'[s] = IF s = t THEN Seen(clients[s], from) ELSE clients[s]
      BY <2>0, <2>5 DEF HandleData
    <3> QED
      BY <2>0, <2>3, <2>4, <3>1, SeenLeft
  <2>6. ASSUME NEW t \in Slots, NEW from \in Peers, HandleFirstData(t, from) PROVE LeftLeased(s)
    <3> DEFINE x == FirstOn(clients[t], from, now + Grace)
    <3>1. clients' = [clients EXCEPT ![t] = x]
      BY <2>6 DEF HandleFirstData, FirstOn
    <3>2. LeftOf(x, clients[t])
      BY <2>0, FirstLeft
    <3> HIDE DEF x
    <3> QED
      BY <2>0, <2>3, <2>4, <3>1, <3>2
  <2>7. ASSUME NEW E, NEW S, NEW t \in Slots
        PROVE  Wiped(E, S)[t] = IF t \in S THEN Free ELSE E[t]
    BY DEF Wiped
  \* The steps that end the clients of the slots S
  <2>8. ASSUME NEW c \in Configs, c = conf', NEW E, NEW S, s \in S, LeftOf(E[s], clients[s]),
               E[s].ip = clients[s].ip, leases' \in EndLeases(c, E, leases, S)
        PROVE  LeftLeased(s)
    <3> SUFFICES ASSUME clients[s].registered, clients[s].auto, clients[s].ip \in c.pool,
                        ProfileOwner(c, clients[s].ip) = NoId
                 PROVE  LeasedNow(leases', E[s])
      BY <2>8 DEF LeftLeased, LeasedNow, LeftOf
    <3>1. Leaves(c, E[s])
      BY <2>0, <2>8 DEF Leaves, LeftOf
    <3> QED
      BY <2>8, <3>1, EndLeasesGives
  <2>9. CASE ExpireClients
    <3> DEFINE aged == [t \in Slots |-> Aged(clients[t])]
               dead == {t \in Slots : Silent(clients[t])}
    <3>1. /\ clients' = Wiped(aged, dead) /\ leases' \in EndLeases(conf, aged, leases, dead)
          /\ conf' = conf
      BY <2>9 DEF ExpireClients
    <3>2. LeftOf(aged[s], clients[s]) /\ aged[s].ip = clients[s].ip
      BY <2>0, AgedLeft
    <3> HIDE DEF aged, dead
    <3>3. clients'[s] = IF s \in dead THEN Free ELSE aged[s]
      BY <2>7, <3>1
    <3> QED
      BY <2>0, <2>3, <2>8, <3>1, <3>2, <3>3
  <2>10. ASSUME NEW p \in Peers, AcceptTcp(p) PROVE LeftLeased(s)
    <3>1. clients[s].registered => clients'[s] = clients[s]
      BY <2>0, <2>10, AcceptDoes
    <3> QED
      BY <3>1 DEF LeftLeased, Stays
  <2>11. ASSUME NEW t \in Slots, CloseTcp(t) PROVE LeftLeased(s)
    <3>1. /\ clients' = Wiped(clients, {t}) /\ leases' \in EndLeases(conf, clients, leases, {t})
          /\ conf' = conf
      BY <2>11 DEF CloseTcp
    <3>2. clients'[s] = IF s \in {t} THEN Free ELSE clients[s]
      BY <2>7, <3>1
    <3> QED
      BY <2>0, <2>3, <2>4, <2>8, <3>1, <3>2
  <2>12. ASSUME NEW c \in Configs, Reload(c) PROVE LeftLeased(s)
    <3> DEFINE ended == {t \in Slots : Revoked(c, clients[t])}
               displaced == {t \in Slots : Displaced(c, clients[t])}
    <3>1. /\ clients' = Wiped([t \in Slots |-> Withdrawn(c, clients[t])], ended \cup displaced)
          /\ leases' \in EndLeases(c, clients, leases, ended) /\ conf' = c
      BY <2>12 DEF Reload
    <3>2. s \in displaced /\ clients[s].registered => ProfileOwner(c, clients[s].ip) # NoId
      BY DEF Displaced
    <3> HIDE DEF ended, displaced
    <3>3. s \notin ended \cup displaced => clients'[s] = Withdrawn(c, clients[s])
      BY <2>7, <3>1
    <3>4. CASE s \in ended
      BY <2>4, <2>8, <3>1, <3>4
    <3>5. CASE s \in displaced
      BY <3>1, <3>2, <3>5 DEF LeftLeased
    <3>6. CASE s \notin ended \cup displaced
      BY <2>0, <2>3, <3>3, <3>6, WithdrawnLeft
    <3> QED
      BY <3>4, <3>5, <3>6
  <2>13. CASE Tick
    BY <2>3, <2>4, <2>13 DEF Tick
  <2> QED
    BY <2>1, <2>2, <2>5, <2>6, <2>9, <2>10, <2>11, <2>12, <2>13 DEF Next
<1>2. (\A s \in Slots : LeftLeased(s)) =>
         (\A s \in Slots : LET e == clients[s] IN
          /\ e.registered /\ e.auto /\ e.ip \in conf.pool \cap conf'.pool
          /\ ProfileOwner(conf', e.ip) = NoId
          /\ ~\E t \in Slots : clients'[t].registered /\ clients'[t].id = e.id
          => \E l \in leases' : l.id = e.id /\ l.ip = e.ip)
  BY DEF LeftLeased, Stays
<1>3. Spec => []LeaseInv
  BY HeldInvariant, LeasesSound, PTL DEF LeaseInv
<1> QED
  BY <1>1, <1>2, <1>3, PTL DEF Spec, EndLeavesLease

----------------------------------------------------------------------------
(* The leases that stay *)

\* The leases are on addresses of c's pool
InPool(c, L) == \A m \in L : m.ip \in c.pool

\* Leases on addresses of the pool are no more than it has.
LEMMA FewLeases ==
    ASSUME NEW c \in Configs, NEW L, PairSound(L), InPool(c, L)
    PROVE  Cardinality(L) <= Cardinality(c.pool) /\ Cardinality(c.pool) \in Nat
           /\ Cardinality(L) \in Nat
<1>1. IsFiniteSet(Addrs) /\ c.pool \subseteq Addrs
  BY TableAssumption DEF Config
<1>2. IsFiniteSet(c.pool) /\ Cardinality(c.pool) \in Nat
  BY <1>1, FS_Subset, FS_CardinalityType
<1> DEFINE f == [l \in L |-> l.ip]
<1>3. f \in [L -> c.pool] /\ \A l, m \in L : l # m => f[l] # f[m]
  BY DEF InPool, PairSound
<1>4. f \in Injection(L, c.pool)
  BY <1>3 DEF Injection, IsInjective
<1> HIDE DEF f
<1>5. IsFiniteSet(L) /\ Cardinality(L) <= Cardinality(c.pool)
  BY <1>2, <1>4, FS_Injection
<1> QED
  BY <1>2, <1>5, FS_CardinalityType

\* When clients end, the pool has room for every young lease: it stays,
\* unless its address is one of theirs.
LEMMA YoungStays ==
    ASSUME NEW c \in Configs, NEW E, HeldTable(E), NEW L, PairSound(L), InPool(c, L),
           NEW S \in SUBSET Slots, \A s \in S : NoLease(L, E[s]),
           NEW M \in EndLeases(c, E, L, S), NEW l \in L, Young(l)
    PROVE  l \in M \/ \E s \in S : HoldsIp(E[s], l.ip)
<1> SUFFICES ASSUME \A s \in S : ~HoldsIp(E[s], l.ip) PROVE l \in M
  OBVIOUS
<1> DEFINE new == NewLeases(c, E, S)
           kept == {k \in L : \A n \in new :
                       n.ip # k.ip /\ (n.prev \/ k.prev \/ n.id # k.id)}
           size == Cardinality(kept \cup new)
<1>1. \A n \in new : \E s \in S : LeaseOf(c, E[s], n)
  BY NewSound
<1>2. ASSUME NEW n \in new PROVE n.ip # l.ip /\ (n.prev \/ l.prev \/ n.id # l.id)
  <2>1. PICK s \in S : LeaseOf(c, E[s], n)
    BY <1>1, <1>2
  <2>2. n.ip # l.ip
    BY <2>1 DEF LeaseOf
  <2>3. LeasesOfId(L, n.id) = {}
    BY <2>1 DEF LeaseOf, NoLease
  <2> QED
    BY <2>2, <2>3 DEF LeasesOfId
<1>3. l \in kept
  BY <1>2
<1>4. PairSound(kept \cup new) /\ InPool(c, kept \cup new)
  <2>2. PairSound(new)
    BY NewSound
  <2>3. \A k \in kept, n \in new : n.ip # k.ip /\ (n.prev \/ k.prev \/ n.id # k.id)
    OBVIOUS
  <2>4. PairSound(kept) /\ InPool(c, kept)
    BY DEF PairSound, InPool
  <2> HIDE DEF new
  <2>5. InPool(c, new)
    BY <1>1 DEF LeaseOf, InPool
  <2> HIDE DEF kept
  <2> QED
    BY <2>2, <2>3, <2>4, <2>5 DEF PairSound, InPool
<1>5. M \in LeaseAdds(c, L, new)
  BY DEF EndLeases, NewLeases
<1> HIDE DEF new
<1>6. ~(size > Cardinality(c.pool))
  <2> HIDE DEF kept
  <2> QED
    BY <1>4, FewLeases
<1>7. \/ M = kept \cup new
      \/ \E gone \in SUBSET {k \in kept : ~Young(k) \/ size > Cardinality(c.pool)} :
            M = (kept \ gone) \cup new
  BY <1>5 DEF LeaseAdds
<1> HIDE DEF kept, size
<1> QED
  BY <1>3, <1>6, <1>7

\* A young lease on an address that no block has
Honoured(l) == l \in leases /\ Young(l) /\ ProfileOwner(conf, l.ip) = NoId

\* The slot a handshake claims may be an evicted client's: a lease is lost to
\* it only on an address that client held.
LEMMA ClaimStays ==
    ASSUME LeaseInv, InPool(conf, leases), NEW r \in Requests, NEW from \in Peers,
           CanSend(r, from), NEW c \in EntryFor(r, from), NEW l, Honoured(l)
    PROVE  l \in c.leases \/ HoldsIp(clients[c.slot], l.ip)
<1>1. c \in ClaimType /\ (c.leases = leases \/ Emptied(c))
  <2>1. CASE r.auto
    BY <2>1, AutoClaim DEF EntryFor, LeaseInv
  <2>2. CASE ~r.auto
    BY <2>2, ManualClaim DEF EntryFor, LeaseInv
  <2> QED
    BY <2>1, <2>2
<1>2. /\ PairSound(leases) /\ \A s \in Slots : NoLease(leases, clients[s])
      /\ HeldTable(clients) /\ conf \in Configs /\ {c.slot} \in SUBSET Slots
  BY <1>1 DEF LeaseInv, LeaseTableSound, PairSound, NoLease, HeldInv, AddressInv, TypeOK, ClaimType
<1>3. ASSUME c.leases \in EndLeases(conf, clients, leases, {c.slot})
      PROVE  l \in c.leases \/ HoldsIp(clients[c.slot], l.ip)
  <2> DEFINE S == {c.slot}
             M == c.leases
  <2>1. S \in SUBSET Slots /\ \A s \in S : NoLease(leases, clients[s])
    BY <1>2
  <2>2. M \in EndLeases(conf, clients, leases, S)
    BY <1>3
  <2>3. \A s \in S : s = c.slot
    OBVIOUS
  <2> HIDE DEF S, M
  <2>4. l \in M \/ \E s \in S : HoldsIp(clients[s], l.ip)
    BY <1>2, <2>1, <2>2, YoungStays DEF Honoured
  <2> QED
    BY <2>3, <2>4 DEF M
<1> QED
  BY <1>1, <1>3 DEF Honoured, Emptied

\* server_build_config() gives an address that is leased, within LeaseMin, to
\* nobody but the lease's client.
LEMMA OfferHonours ==
    ASSUME LeaseInv, NEW r \in Requests, r.auto, NEW from \in Peers, CanSend(r, from),
           NEW c \in EntryFor(r, from), NEW ip \in Offers(c, r, from),
           NEW l \in c.leases, Young(l), l.ip = ip, ProfileOwner(conf, ip) = NoId
    PROVE  l.id = r.id
<1>0. conf \in Configs /\ PairSound(c.leases)
  BY ClaimLeases DEF LeaseInv, HeldInv, AddressInv, TypeOK
<1>1. CASE ProfileIp(conf, r.id) # NoAddr
  <2>1. ip = ProfileIp(conf, r.id)
    BY <1>1 DEF Offers
  <2> QED
    BY <1>0, <1>1, <2>1, ProfileOwned
<1>2. CASE ProfileIp(conf, r.id) = NoAddr
  <2> DEFINE E == WithEntry(c, Entered(c, r, from))
             id == r.id
  <2>1. ip \in PoolOffers(c, E, r, id)
    BY <1>2 DEF Offers
  <2> HIDE DEF E, id
  <2>2. \/ \A m \in LeasesOfIp(c.leases, ip) : m.id = id
        \/ \E m \in LeasesOfIp(c.leases, ip) : ~Young(m)
    BY <2>1, PoolGives
  <2>3. l \in LeasesOfIp(c.leases, ip) /\ \A m \in LeasesOfIp(c.leases, ip) : m = l
    BY <1>0 DEF LeasesOfIp, PairSound
  <2> QED
    BY <2>2, <2>3 DEF id
<1> QED
  BY <1>1, <1>2

\* The claimed entry, before its address is settled and after: an address
\* that came to it, if it is leased, is its own client's.
LEMMA EntryHonours ==
    ASSUME LeaseInv, InPool(conf, leases), NEW r \in Requests, NEW from \in Peers,
           CanSend(r, from), NEW c \in EntryFor(r, from), NEW l, Honoured(l),
           ~HoldsIp(clients[c.slot], l.ip)
    PROVE  /\ HoldsIp(Entered(c, r, from), l.ip) => l.id = ClaimedId(r)
           /\ \A ip \in Offers(c, r, from) :
                 HoldsIp(Answered(c, r, from, ip), l.ip) => l.id = ClaimedId(r)
<1> DEFINE e == Entered(c, r, from)
           b == Base(c)
           own == IF r.auto THEN b.ip ELSE r.want
<1>0. /\ c \in ClaimType /\ HeldInv /\ TypeOK /\ l.ip \in Addrs /\ l \in leases /\ Young(l)
      /\ ProfileOwner(conf, l.ip) = NoId
  BY EntryForType DEF LeaseInv, HeldInv, AddressInv, TypeOK, Honoured, Lease
<1>1. /\ ClaimedFrom(c.table[c.slot], b, own) /\ b.active
      /\ ~r.auto => NotReserved(r)
  <2>1. CASE r.auto
    BY <2>1, AutoClaim DEF EntryFor, LeaseInv
  <2>2. CASE ~r.auto
    BY <2>2, ManualClaim DEF EntryFor, LeaseInv
  <2> QED
    BY <2>1, <2>2
<1>2. ~HoldsIp(b, l.ip)
  BY <1>0, FreeHeld DEF Base
<1>3. own = l.ip => l.id = ClaimedId(r)
  <2>1. CASE r.auto
    <3>1. b.ip # l.ip
      BY <1>0, <1>1, <1>2, TableAssumption DEF HoldsIp
    <3> QED
      BY <2>1, <3>1
  <2>2. CASE ~r.auto
    BY <1>0, <1>1, <2>2 DEF NotReserved, LeasesOfIp
  <2> QED
    BY <2>1, <2>2
<1> HIDE DEF b, own
<1>4. HoldsAlso(e, b, own)
  BY <1>0, <1>1, EnteredHolds
<1>5. HoldsIp(e, l.ip) => l.id = ClaimedId(r)
  BY <1>2, <1>3, <1>4 DEF HoldsAlso
<1>6. ASSUME NEW ip \in Offers(c, r, from), HoldsIp(Answered(c, r, from, ip), l.ip)
      PROVE  l.id = ClaimedId(r)
  <2>1. ip \in Addrs
    BY <1>0, OffersType
  <2>2. HoldsIp(e, l.ip) \/ (r.auto /\ l.ip = ip)
    BY <1>0, <1>6, <2>1, AnsweredHolds
  <2>3. CASE r.auto /\ l.ip = ip
    <3>1. l \in c.leases
      BY ClaimStays
    <3>2. l.id = r.id
      BY <1>0, <2>3, <3>1, OfferHonours
    <3> QED
      BY <2>3, <3>2, TableAssumption DEF Requests, ClaimedId, Ids
  <2> QED
    BY <1>5, <2>2, <2>3
<1> QED
  BY <1>5, <1>6

\* After the step the lease's client, if anyone, has its address
Reserved(l) ==
    \A s \in Slots : HoldsIp(clients'[s], l.ip) /\ ~HoldsIp(clients[s], l.ip)
                        => clients'[s].id = l.id

\* ... and the lease is still there, or was of no use: somebody held the
\* address already, or the client is back
StillLeased(l) ==
    \/ \E m \in leases' : m.id = l.id /\ m.ip = l.ip
    \/ \E s \in Slots : HoldsIp(clients[s], l.ip)
    \/ \E s \in Slots : /\ clients'[s].id = l.id /\ clients'[s].auto
                        /\ clients'[s].registered

\* The steps of a handshake.
LEMMA HandshakeHonours ==
    ASSUME LeaseInv, InPool(conf, leases), NEW r \in Requests, NEW from \in Peers,
           CanSend(r, from), NEW c \in EntryFor(r, from), NEW x,
           clients' = WithEntry(c, x),
           \/ x = (IF c.fresh THEN Free ELSE Entered(c, r, from)) /\ leases' = c.leases
           \/ /\ \E ip \in Offers(c, r, from) : x = Answered(c, r, from, ip)
              /\ leases' = LeasesAnswered(c.leases, x),
           NEW l, Honoured(l)
    PROVE  Reserved(l) /\ StillLeased(l)
<1>0. /\ c \in ClaimType /\ c.slot \in Slots /\ HeldInv /\ AddressInv /\ TypeOK /\ l.ip \in Addrs
      /\ l \in leases
  BY EntryForType DEF LeaseInv, HeldInv, AddressInv, TypeOK, Honoured, Lease, ClaimType
<1>1. \A t \in Slots : clients'[t] = IF t = c.slot THEN x ELSE c.table[t]
  BY <1>0 DEF WithEntry, ClaimType
<1>2. OthersLeft(c)
  <2>1. CASE r.auto
    BY <1>0, <2>1, AutoClaim DEF EntryFor
  <2>2. CASE ~r.auto
    BY <1>0, <2>2, ManualClaim DEF EntryFor
  <2> QED
    BY <2>1, <2>2
<1>3. ASSUME NEW ip \in Offers(c, r, from), x = Answered(c, r, from, ip)
      PROVE  /\ x.registered /\ x.id = ClaimedId(r)
             /\ x.active = Entered(c, r, from).active
  <2>1. ip \in Addrs
    BY <1>0, OffersType
  <2> QED
    BY <1>0, <1>3, <2>1, AnsweredHolds
<1>4. Entered(c, r, from).id = ClaimedId(r) /\ Entered(c, r, from).active = c.table[c.slot].active
  BY <1>0, EnteredKeeps
<1>5. HoldsIp(x, l.ip) /\ ~HoldsIp(clients[c.slot], l.ip) => x.id = l.id
  <2> SUFFICES ASSUME HoldsIp(x, l.ip), ~HoldsIp(clients[c.slot], l.ip) PROVE x.id = l.id
    OBVIOUS
  <2>1. /\ HoldsIp(Entered(c, r, from), l.ip) => l.id = ClaimedId(r)
        /\ \A ip \in Offers(c, r, from) :
              HoldsIp(Answered(c, r, from, ip), l.ip) => l.id = ClaimedId(r)
    BY EntryHonours
  <2>2. x # Free
    BY FreeHeld
  <2> QED
    BY <1>3, <1>4, <2>1, <2>2
<1>6. Reserved(l)
  <2> SUFFICES ASSUME NEW t \in Slots, HoldsIp(clients'[t], l.ip), ~HoldsIp(clients[t], l.ip)
               PROVE  clients'[t].id = l.id
    BY DEF Reserved
  <2>1. t = c.slot
    BY <1>1, <1>2, FreeHeld DEF OthersLeft
  <2> QED
    BY <1>1, <1>5, <2>1
<1>7. ASSUME ~HoldsIp(clients[c.slot], l.ip) PROVE StillLeased(l)
  <2>1. l \in c.leases
    BY <1>7, ClaimStays
  <2>2. CASE l \in leases'
    BY <2>2 DEF StillLeased
  <2>3. CASE l \notin leases'
    <3>1. PICK ip \in Offers(c, r, from) : x = Answered(c, r, from, ip)
      BY <2>1, <2>3
    <3>2. leases' = LeasesAnswered(c.leases, x)
      BY <2>1, <2>3
    <3>3. x.registered /\ x.active = c.table[c.slot].active
      BY <1>3, <1>4, <3>1
    <3>4. x.auto /\ (l.id = x.id \/ l.ip = x.ip)
      BY <2>1, <2>3, <3>2 DEF LeasesAnswered, LeasesOfId, LeasesOfIp
    <3>5. c.table[c.slot].active
      <4> DEFINE b == Base(c)
      <4>1. b.active /\ c.table[c.slot].active = b.active
        <5>1. CASE r.auto
          BY <1>0, <5>1, AutoClaim DEF EntryFor, ClaimedFrom
        <5>2. CASE ~r.auto
          BY <1>0, <5>2, ManualClaim DEF EntryFor, ClaimedFrom
        <5> QED
          BY <5>1, <5>2
      <4> QED
        BY <4>1
    <3>6. l.ip = x.ip => HoldsIp(x, l.ip)
      BY <1>0, <3>3, <3>5, TableAssumption DEF HoldsIp
    <3>7. x.id = l.id
      BY <1>5, <1>7, <3>4, <3>6
    <3> QED
      BY <1>0, <1>1, <3>3, <3>4, <3>7 DEF StillLeased
  <2> QED
    BY <2>2, <2>3
<1>8. HoldsIp(clients[c.slot], l.ip) => StillLeased(l)
  BY <1>0 DEF StillLeased
<1> QED
  BY <1>6, <1>7, <1>8

\* The address of an auto client that is gone is kept for it: as long as its
\* lease is young nobody else comes to hold it, by a handshake of either mode,
\* a first packet, an eviction or a reload, and the lease goes only with the
\* client's return.
THEOREM LeasesHonoured == Spec => LeaseHonoured
<1> DEFINE Honours == InPool(conf', leases) =>
              \A l \in leases : Honoured(l) /\ ProfileOwner(conf', l.ip) = NoId
                 => Reserved(l) /\ StillLeased(l)
<1>1. LeaseInv /\ [Next]_vars => [Honours]_vars
  <2> SUFFICES ASSUME LeaseInv, Next, InPool(conf', leases), NEW l \in leases, Honoured(l)
               PROVE  Reserved(l) /\ StillLeased(l)
    OBVIOUS
  <2>0. /\ clients \in [Slots -> Entry] /\ HeldInv /\ HeldTable(clients) /\ now \in Nat
        /\ conf \in Configs /\ PairSound(leases) /\ \A s \in Slots : NoLease(leases, clients[s])
        /\ l.ip \in Addrs /\ l \in leases /\ Young(l)
    BY DEF LeaseInv, LeaseTableSound, PairSound, NoLease, HeldInv, AddressInv, TypeOK,
           Honoured, Lease
  <2>1. ASSUME NEW r \in Requests, NEW from \in Peers, AnswerInit(r, from)
        PROVE  Reserved(l) /\ StillLeased(l)
    BY <2>1, HandshakeHonours DEF AnswerInit
  <2>2. ASSUME NEW r \in Requests, NEW from \in Peers, FailInit(r, from)
        PROVE  Reserved(l) /\ StillLeased(l)
    BY <2>2, HandshakeHonours DEF FailInit
  \* The steps after which no entry holds a new address
  <2>3. ASSUME \A t \in Slots : clients'[t] = Free \/ LeftOf(clients'[t], clients[t])
        PROVE  Reserved(l)
    BY <2>0, <2>3, FreeHeld DEF Reserved, LeftOf
  <2>4. \A t \in Slots : LeftOf(clients[t], clients[t])
    BY DEF LeftOf
  <2>5. leases' = leases => StillLeased(l)
    BY DEF StillLeased
  <2>6. ASSUME NEW t \in Slots, NEW from \in Peers, HandleData(t, from)
        PROVE  Reserved(l) /\ StillLeased(l)
    <3>1. \A s \in Slots : clients'[s] = IF s = t THEN Seen(clients[t], from) ELSE clients[s]
      BY <2>0, <2>6 DEF HandleData
    <3>2. leases' = leases
      BY <2>6 DEF HandleData
    <3> QED
      BY <2>0, <2>3, <2>4, <2>5, <3>1, <3>2, SeenLeft
  <2>7. ASSUME NEW t \in Slots, NEW from \in Peers, HandleFirstData(t, from)
        PROVE  Reserved(l) /\ StillLeased(l)
    <3> DEFINE e == clients[t]
               x == FirstOn(e, from, now + Grace)
    <3>1. clients' = [clients EXCEPT ![t] = x]
      BY <2>7 DEF HandleFirstData, FirstOn
    <3>2. LeftOf(x, e)
      BY <2>0, FirstLeft
    <3>3. leases' = IF e.pending # NoAddr THEN leases \ LeasesOfIp(leases, e.pending) ELSE leases
      BY <2>7 DEF HandleFirstData
    <3>4. e.active
      BY <2>7 DEF HandleFirstData, DataOk
    <3> HIDE DEF x
    <3>5. \A s \in Slots : clients'[s] = IF s = t THEN x ELSE clients[s]
      BY <2>0, <3>1
    <3>6. l \notin leases' => e.pending = l.ip
      BY <2>0, <3>3 DEF LeasesOfIp
    <3>7. e.pending = l.ip => HoldsIp(e, l.ip)
      BY <2>0, <3>4, TableAssumption DEF HoldsIp
    <3> QED
      BY <2>3, <2>4, <3>2, <3>5, <3>6, <3>7 DEF StillLeased
  <2>8. ASSUME NEW E, NEW S, NEW t \in Slots
        PROVE  Wiped(E, S)[t] = IF t \in S THEN Free ELSE E[t]
    BY DEF Wiped
  \* The steps that end the clients of the slots S
  <2>9. ASSUME NEW c \in Configs, c = conf', NEW E, \A t \in Slots : LeftOf(E[t], clients[t]),
               \A t \in Slots : E[t].ip = clients[t].ip,
               NEW S \in SUBSET Slots, leases' \in EndLeases(c, E, leases, S)
        PROVE  StillLeased(l)
    <3>1. HeldTable(E)
      BY <2>0, <2>9, LeftHeld
    <3>2. \A t \in S : NoLease(leases, E[t])
      BY <2>0, <2>9 DEF NoLease, LeftOf
    <3>3. l \in leases' \/ \E t \in S : HoldsIp(E[t], l.ip)
      BY <2>0, <2>9, <3>1, <3>2, YoungStays
    <3> QED
      BY <2>0, <2>9, <3>3 DEF LeftOf, StillLeased
  <2>10. CASE ExpireClients
    <3> DEFINE aged == [t \in Slots |-> Aged(clients[t])]
               dead == {t \in Slots : Silent(clients[t])}
    <3>1. /\ clients' = Wiped(aged, dead) /\ leases' \in EndLeases(conf, aged, leases, dead)
          /\ conf' = conf /\ dead \in SUBSET Slots
      BY <2>10 DEF ExpireClients
    <3>2. \A t \in Slots : LeftOf(aged[t], clients[t]) /\ aged[t].ip = clients[t].ip
      BY <2>0, AgedLeft
    <3> HIDE DEF aged, dead
    <3>3. \A t \in Slots : clients'[t] = IF t \in dead THEN Free ELSE aged[t]
      BY <2>8, <3>1
    <3>4. Reserved(l)
      BY <2>3, <3>2, <3>3
    <3>5. StillLeased(l)
      BY <2>0, <2>9, <3>1, <3>2
    <3> QED
      BY <3>4, <3>5
  <2>11. ASSUME NEW p \in Peers, AcceptTcp(p) PROVE Reserved(l) /\ StillLeased(l)
    <3>1. \A t \in Slots : HoldsIp(clients'[t], l.ip) => clients'[t] = clients[t]
      BY <2>0, <2>11, AcceptDoes
    <3>2. leases' = leases
      BY <2>11 DEF AcceptTcp
    <3> QED
      BY <2>5, <3>1, <3>2 DEF Reserved
  <2>12. ASSUME NEW t \in Slots, CloseTcp(t) PROVE Reserved(l) /\ StillLeased(l)
    <3> DEFINE S == {t}
    <3>1. /\ clients' = Wiped(clients, S) /\ leases' \in EndLeases(conf, clients, leases, S)
          /\ conf' = conf /\ S \in SUBSET Slots
      BY <2>12 DEF CloseTcp
    <3> HIDE DEF S
    <3>2. \A s \in Slots : clients'[s] = IF s \in S THEN Free ELSE clients[s]
      BY <2>8, <3>1
    <3>3. Reserved(l)
      BY <2>3, <2>4, <3>2
    <3>4. StillLeased(l)
      BY <2>0, <2>4, <2>9, <3>1
    <3> QED
      BY <3>3, <3>4
  <2>13. ASSUME NEW c \in Configs, Reload(c) PROVE Reserved(l) /\ StillLeased(l)
    <3> DEFINE ended == {t \in Slots : Revoked(c, clients[t])}
               W == ended \cup {t \in Slots : Displaced(c, clients[t])}
    <3>1. /\ clients' = Wiped([t \in Slots |-> Withdrawn(c, clients[t])], W)
          /\ leases' \in EndLeases(c, clients, leases, ended) /\ conf' = c
          /\ ended \in SUBSET Slots
      BY <2>13 DEF Reload
    <3> HIDE DEF ended, W
    <3>2. \A t \in Slots : clients'[t] = IF t \in W THEN Free ELSE Withdrawn(c, clients[t])
      BY <2>8, <3>1
    <3>3. Reserved(l)
      BY <2>0, <2>3, <3>2, WithdrawnLeft
    <3>4. StillLeased(l)
      BY <2>4, <2>9, <3>1
    <3> QED
      BY <3>3, <3>4
  <2>14. CASE Tick
    BY <2>3, <2>4, <2>5, <2>14 DEF Tick
  <2> QED
    BY <2>1, <2>2, <2>6, <2>7, <2>10, <2>11, <2>12, <2>13, <2>14 DEF Next
<1>2. Honours =>
         ((\A m \in leases : m.ip \in conf'.pool) =>
          \A l \in leases :
            Young(l) /\ ProfileOwner(conf, l.ip) = NoId
                     /\ ProfileOwner(conf', l.ip) = NoId =>
              /\ \A s \in Slots :
                     HoldsIp(clients'[s], l.ip) /\ ~HoldsIp(clients[s], l.ip)
                        => clients'[s].id = l.id
              /\ \/ \E m \in leases' : m.id = l.id /\ m.ip = l.ip
                 \/ \E s \in Slots : HoldsIp(clients[s], l.ip)
                 \/ \E s \in Slots : /\ clients'[s].id = l.id /\ clients'[s].auto
                                     /\ clients'[s].registered)
  BY DEF InPool, Honoured, Reserved, StillLeased
<1>3. Spec => []LeaseInv
  BY HeldInvariant, LeasesSound, PTL DEF LeaseInv
<1> HIDE DEF Honours
<1> QED
  BY <1>1, <1>2, <1>3, PTL DEF Spec, LeaseHonoured

----------------------------------------------------------------------------
(***************************************************************************)
(* The hold after a start.  Two things the code does lead around it, and   *)
(* are ruled out by name.  Over UDP a manual client may take over an entry *)
(* by its source address alone, whatever ID it names.  And a manual        *)
(* handshake that fails on a connection that has not registered leaves its *)
(* address in the entry, where an auto client may start from it.           *)
(***************************************************************************)

\* A manual client over UDP names the ID its source address is registered for
SourceKept ==
    \A r \in Requests, from \in Peers : ~Tcp /\ ~r.auto /\ AnswerInit(r, from) =>
        \A s \in Slots : clients[s].registered /\ clients[s].addr = from
                            => clients[s].id = ClaimedId(r)

\* A connection that has not registered has no address
NoneBefore == \A s \in Slots : clients[s].active /\ ~clients[s].registered => clients[s].ip = NoAddr

\* A slot is in use or wiped
Vacant(E) == \A s \in Slots : E[s].active \/ E[s] = Free

\* What a claim does to the other entries, and to whom its own belongs: a new
\* slot is empty while the server holds back, another one is the client's, by
\* its ID or its source.
LEMMA ClaimIs ==
    ASSUME HeldInv, NEW r \in Requests, NEW from \in Peers, NEW c \in EntryFor(r, from)
    PROVE  /\ c \in ClaimType /\ Adopted(c, from)
           /\ IF c.fresh THEN Emptied(c)
              ELSE \/ clients[c.slot].id = ClaimedId(r)
                   \/ clients[c.slot].active /\ clients[c.slot].addr = from
<1> DEFINE id == ClaimedId(r)
           Mine(s) == clients[s].id = id \/ (clients[s].active /\ clients[s].addr = from)
           Fit(d) == /\ d \in ClaimType /\ Adopted(d, from)
                     /\ IF d.fresh THEN Emptied(d) ELSE Mine(d.slot)
           by_addr == FindByAddr(clients, from)
           known == FindById(clients, r.id)
           by_ip == FindByIp(clients, r.want)
<1>0. TypeOK /\ clients \in [Slots -> Entry]
  BY DEF HeldInv, AddressInv, TypeOK
<1>1. ASSUME NEW d \in AllocClient PROVE Fit(d)
  <2>1. /\ d \in ClaimType /\ d.fresh /\ d.slot \in Slots /\ Emptied(d)
        /\ d.table = [clients EXCEPT ![d.slot] = Blank]
    BY <1>0, AllocClientDoes
  <2>2. Adopted(d, from)
    BY <1>0, <2>1 DEF Adopted
  <2> QED
    BY <2>1, <2>2
<1>2. ASSUME NEW s \in Slots, clients[s].active, Mine(s)
      PROVE  Fit(Claim(s, FALSE, AdoptTcp(s, from), leases))
  BY <1>2, AdoptTcpDoes
<1>3. ASSUME NEW s \in Slots, Mine(s) PROVE Fit(Claim(s, FALSE, clients, leases))
  <2> DEFINE d == Claim(s, FALSE, clients, leases)
  <2>1. d \in ClaimType /\ ~d.fresh /\ d.slot = s /\ d.table = clients
    BY AsItIs
  <2>2. Adopted(d, from)
    BY <2>1 DEF Adopted
  <2> QED
    BY <1>3, <2>1, <2>2
<1>4. /\ known \in Slots \cup {NoSlot} /\ by_addr \in Slots \cup {NoSlot}
      /\ by_ip \in Slots \cup {NoSlot}
      /\ known # NoSlot => clients[known].active /\ clients[known].id = r.id
      /\ by_addr # NoSlot => clients[by_addr].active /\ clients[by_addr].addr = from
      /\ by_ip # NoSlot => clients[by_ip].active
  BY LookupType, LookupActive, LookupKey
<1>5. Fit(c)
  <2>1. CASE r.auto
    <3>1. r.id = id
      BY <2>1, TableAssumption DEF Requests, Ids, ClaimedId
    <3>2. \/ known \in Slots /\ known # NoSlot /\ c = Claim(known, FALSE, AdoptTcp(known, from), leases)
          \/ by_addr \in Slots /\ by_addr # NoSlot /\ c = Claim(by_addr, FALSE, clients, leases)
          \/ c \in AllocClient
      BY <1>4, <2>1 DEF EntryFor, AutoEntryFor
    <3> HIDE DEF known, by_addr, Fit, id
    <3>3. known # NoSlot => clients[known].active /\ Mine(known)
      BY <1>4, <3>1
    <3>4. by_addr # NoSlot => Mine(by_addr)
      BY <1>4
    <3> HIDE DEF Mine
    <3> QED
      BY <1>1, <1>2, <1>3, <3>2, <3>3, <3>4
  <2>2. CASE ~r.auto
    <3>0. c \in ManualEntryFor(id, r.key, r.want, from) /\ r.want \in Addrs
      BY <2>2 DEF EntryFor, Requests
    <3>1. PICK b : /\ \/ /\ by_ip # NoSlot /\ (by_ip = by_addr \/ clients[by_ip].id = id)
                         /\ b = Claim(by_ip, FALSE, AdoptTcp(by_ip, from), leases)
                      \/ by_addr # NoSlot /\ b = Claim(by_addr, FALSE, clients, leases)
                      \/ b \in AllocClient
                   /\ c = [b EXCEPT !.table[b.slot].ip = r.want]
      BY <3>0 DEF ManualEntryFor, InUse
    <3> HIDE DEF by_ip, by_addr, Fit, id
    <3>2. by_ip # NoSlot /\ (by_ip = by_addr \/ clients[by_ip].id = id)
             => by_ip \in Slots /\ clients[by_ip].active /\ Mine(by_ip)
      BY <1>4
    <3>3. by_addr # NoSlot => by_addr \in Slots /\ Mine(by_addr)
      BY <1>4
    <3>4. Fit(b)
      <4> HIDE DEF Mine
      <4> QED
        BY <1>1, <1>2, <1>3, <3>1, <3>2, <3>3
    <3>5. c \in ClaimType
      BY <1>0, <3>0, ManualEntryForType
    <3>6. /\ c.slot = b.slot /\ c.fresh = b.fresh /\ c.leases = b.leases
          /\ \A t \in Slots \ {c.slot} : c.table[t] = b.table[t]
      BY <3>1, <3>4 DEF Fit, ClaimType
    <3> QED
      BY <3>4, <3>5, <3>6 DEF Fit, Adopted, Emptied
  <2> QED
    BY <2>1, <2>2
<1> QED
  BY <1>5

\* While the server holds back, a handshake takes no registered client's slot.
LEMMA NobodyEvicted ==
    ASSUME HeldInv, Holding, NEW r \in Requests, NEW from \in Peers, AnswerInit(r, from), SourceKept,
           NEW s \in Slots, clients[s].registered
    PROVE  \E t \in Slots : clients'[t].registered /\ clients'[t].id = clients[s].id
<1>1. CanSend(r, from)
  BY DEF AnswerInit
<1>2. PICK c \in EntryFor(r, from) : \E ip \in Offers(c, r, from) :
         clients' = WithEntry(c, Answered(c, r, from, ip))
  BY DEF AnswerInit
<1>3. PICK ip \in Offers(c, r, from) : clients' = WithEntry(c, Answered(c, r, from, ip))
  BY <1>2
<1>4. /\ c \in ClaimType /\ Adopted(c, from)
      /\ IF c.fresh THEN Emptied(c)
         ELSE \/ clients[c.slot].id = ClaimedId(r)
              \/ clients[c.slot].active /\ clients[c.slot].addr = from
  BY ClaimIs
<1> DEFINE x == Answered(c, r, from, ip)
<1>5. x.registered /\ x.id = ClaimedId(r)
  <2>1. ip \in Addrs
    BY <1>4, OffersType DEF HeldInv, AddressInv
  <2> QED
    BY <1>4, <2>1, AnsweredHolds
<1> HIDE DEF x
<1>6. /\ c.slot \in Slots
      /\ \A t \in Slots : clients'[t] = IF t = c.slot THEN x ELSE c.table[t]
  BY <1>3, <1>4 DEF WithEntry, ClaimType, x
<1>7. clients[s].active
  BY DEF HeldInv, HeldTable, KnownEntry
\* Over TCP, and for a manual client, who has the source is the one that asks
<1>8. Tcp \/ ~r.auto => (clients[s].addr = from => clients[s].id = ClaimedId(r))
  <2>1. CASE Tcp
    <3>1. PICK t \in Slots : /\ clients[t].active /\ clients[t].addr = from
                             /\ clients[t].registered => clients[t].id = ClaimedId(r)
      BY <1>1, <2>1 DEF CanSend
    <3>2. clients[s].addr = from => s = t
      BY <1>7, <2>1, <3>1 DEF HeldInv, AddressInv, OneConnection
    <3> QED
      BY <3>1, <3>2
  <2>2. CASE ~Tcp /\ ~r.auto
    BY <2>2 DEF SourceKept
  <2> QED
    BY <2>1, <2>2
<1>9. CASE s # c.slot
  <2>1. \/ clients'[s] = clients[s]
        \/ Tcp /\ clients[s].addr = from
    BY <1>4, <1>6, <1>9 DEF Adopted
  <2> QED
    BY <1>5, <1>6, <1>8, <2>1
<1>10. CASE s = c.slot
  <2>1. ~c.fresh
    BY <1>4, <1>7, <1>10 DEF Emptied
  <2>2. clients[s].id = ClaimedId(r)
    <3>1. CASE r.auto
      <4>1. c \in AutoEntryFor(r.id, from) /\ ClaimedId(r) = r.id
        BY <3>1, TableAssumption DEF EntryFor, Requests, Ids, ClaimedId
      <4> QED
        BY <1>1, <1>10, <2>1, <3>1, <4>1, AutoClaim
    <3>2. CASE ~r.auto
      BY <1>4, <1>8, <1>10, <2>1, <3>2
    <3> QED
      BY <3>1, <3>2
  <2> QED
    BY <1>5, <1>6, <1>10, <2>2
<1> QED
  BY <1>9, <1>10

\* ... and a new client is given the address leased to it or the one it names.
LEMMA OnlyItsOwn ==
    ASSUME HeldInv, Vacant(clients), NoneBefore, Holding,
           NEW r \in Requests, r.auto, NEW from \in Peers, AnswerInit(r, from),
           ProfileIp(conf, r.id) = NoAddr, FindById(clients, r.id) = NoSlot,
           NEW t \in Slots, clients'[t].id = r.id
    PROVE  \/ clients'[t].ip = r.want
           \/ \E l \in leases : l.id = r.id /\ l.ip = clients'[t].ip
<1>1. CanSend(r, from)
  BY DEF AnswerInit
<1>2. PICK c \in EntryFor(r, from) : \E ip \in Offers(c, r, from) :
         clients' = WithEntry(c, Answered(c, r, from, ip))
  BY DEF AnswerInit
<1>3. PICK ip \in Offers(c, r, from) : clients' = WithEntry(c, Answered(c, r, from, ip))
  BY <1>2
<1>4. /\ c \in ClaimType /\ OthersLeft(c) /\ NotElsewhere(c, r.id)
      /\ ClaimedFrom(c.table[c.slot], Base(c), Base(c).ip) /\ Base(c).active
      /\ IF c.fresh THEN Emptied(c)
         ELSE c.leases = leases /\ (clients[c.slot].registered => clients[c.slot].id = r.id)
  BY <1>1, AutoClaim DEF EntryFor
<1>5. /\ r.id \in AutoIds /\ r.id # NoId /\ ip \in Addrs /\ ip # NoAddr
  <2>1. ip \in Addrs
    BY <1>4, OffersType DEF HeldInv, AddressInv
  <2> QED
    BY <2>1, TableAssumption DEF Requests, Ids
<1> DEFINE e == Entered(c, r, from)
           E == WithEntry(c, e)
           x == Answered(c, r, from, ip)
\* A new entry, or that of a connection that has not registered
<1>6. /\ Base(c).ip = NoAddr /\ Base(c).pending = NoAddr /\ Base(c).cur = NoAddr
      /\ c.leases = leases
  <2>1. CASE c.fresh
    <3>1. Blank.ip = NoAddr /\ Blank.pending = NoAddr /\ Blank.cur = NoAddr
      BY DEF Blank, Free
    <3> QED
      BY <1>4, <2>1, <3>1 DEF Base, Emptied
  <2>2. CASE ~c.fresh
    <3>1. Base(c) = clients[c.slot] /\ c.slot \in Slots
      BY <1>4, <2>2 DEF Base, ClaimType
    <3>2. clients[c.slot].id # r.id
      BY <1>4, <3>1, LookupNone
    <3>3. ~clients[c.slot].registered
      BY <1>4, <2>2, <3>2
    <3> QED
      BY <1>4, <2>2, <3>1, <3>3 DEF NoneBefore, HeldInv, AddressInv, Addressed, Sessionless
  <2> QED
    BY <2>1, <2>2
<1>7. e.ip = NoAddr /\ e.pending = NoAddr /\ e.cur = NoAddr
  BY <1>4, <1>6, EnteredKeeps DEF HeldInv, ClaimedFrom
<1>8. x.ip = ip
  BY <1>4, <1>5, <1>7, AnsweredHolds
<1>9. E[c.slot] = e /\ c.slot \in Slots
  BY <1>4 DEF WithEntry, ClaimType
<1>10. ip \in PoolOffers(c, E, r, r.id)
  BY <1>3 DEF Offers
<1> HIDE DEF e, E, x
<1>11. ip = StartIp(c, E, r, r.id)
  BY <1>7, <1>9, <1>10 DEF PoolOffers
<1>12. ip = r.want \/ \E l \in leases : l.id = r.id /\ l.ip = ip
  <2> DEFINE mine == {l.ip : l \in LeasesOfId(c.leases, r.id)}
             ok == {j \in mine : IpUsable(c, E, r.id, j)}
  <2>1. \/ ok # {} /\ ip = (CHOOSE j \in ok : TRUE)
        \/ ip = r.want
    BY <1>5, <1>7, <1>9, <1>11 DEF StartIp
  <2>2. ok # {} /\ ip = (CHOOSE j \in ok : TRUE) => ip \in mine
    OBVIOUS
  <2> QED
    BY <1>6, <2>1, <2>2 DEF LeasesOfId
\* The client has no other entry
<1>13. t = c.slot
  <2> SUFFICES ASSUME t # c.slot PROVE FALSE
    OBVIOUS
  <2>1. clients'[t] = c.table[t]
    BY <1>3, <1>4 DEF WithEntry, ClaimType
  <2>2. c.table[t] = clients[t] \/ c.table[t] = Free
    BY <1>4 DEF OthersLeft
  <2>3. Free.id = NoId /\ ~Free.active
    BY DEF Free
  <2>4. c.table[t].active => c.table[t].id # r.id
    BY <1>4 DEF NotElsewhere
  <2> QED
    BY <1>5, <2>1, <2>2, <2>3, <2>4 DEF Vacant
<1>14. clients'[t] = x
  BY <1>3, <1>4, <1>13 DEF WithEntry, ClaimType, x
<1> QED
  BY <1>8, <1>12, <1>14

\* Slots that are not in use are wiped.
LEMMA VacantInvariant == Spec => []Vacant(clients)
<1>1. Init => Vacant(clients)
  BY DEF Init, Vacant
<1>2. HeldInv /\ Vacant(clients) /\ [Next]_vars => Vacant(clients')
  <2> SUFFICES ASSUME HeldInv, Vacant(clients), [Next]_vars PROVE Vacant(clients')
    OBVIOUS
  <2>0. clients \in [Slots -> Entry] /\ now \in Nat
    BY DEF HeldInv, AddressInv, TypeOK
  <2>1. ASSUME \A t \in Slots : \/ clients'[t] = Free \/ clients'[t] = clients[t]
                                \/ clients'[t].active
        PROVE  Vacant(clients')
    BY <2>1 DEF Vacant
  \* A handshake writes one entry
  <2>2. ASSUME NEW r \in Requests, NEW from \in Peers, CanSend(r, from), NEW c \in EntryFor(r, from)
        PROVE  /\ c \in ClaimType /\ Entered(c, r, from).active
               /\ \A y, u : u \in Slots => LET v == WithEntry(c, y)[u]
                                           IN v = y \/ v = Free \/ v = clients[u]
    <3>1. /\ c \in ClaimType /\ OthersLeft(c) /\ Base(c).active
          /\ \E own : ClaimedFrom(c.table[c.slot], Base(c), own)
      <4>1. CASE r.auto
        BY <2>2, <4>1, AutoClaim DEF EntryFor
      <4>2. CASE ~r.auto
        BY <2>2, <4>2, ManualClaim DEF EntryFor
      <4> QED
        BY <4>1, <4>2
    <3>2. Entered(c, r, from).active
      BY <3>1, EnteredKeeps DEF HeldInv, ClaimedFrom
    <3>3. ASSUME NEW y, NEW u \in Slots
          PROVE  WithEntry(c, y)[u] \in {y, Free, clients[u]}
      BY <3>1 DEF WithEntry, ClaimType, OthersLeft
    <3> QED
      BY <3>1, <3>2, <3>3
  <2>3. ASSUME NEW r \in Requests, NEW from \in Peers, AnswerInit(r, from) PROVE Vacant(clients')
    <3>1. PICK c \in EntryFor(r, from) : \E ip \in Offers(c, r, from) :
             clients' = WithEntry(c, Answered(c, r, from, ip))
      BY <2>3 DEF AnswerInit
    <3>2. PICK ip \in Offers(c, r, from) : clients' = WithEntry(c, Answered(c, r, from, ip))
      BY <3>1
    <3>3. c \in ClaimType /\ Entered(c, r, from).active
      BY <2>2, <2>3 DEF AnswerInit
    <3>4. Answered(c, r, from, ip).active
      <4>1. ip \in Addrs
        BY <3>3, OffersType DEF HeldInv, AddressInv
      <4> QED
        BY <3>3, <4>1, AnsweredHolds
    <3> QED
      BY <2>1, <2>2, <2>3, <3>2, <3>4 DEF AnswerInit
  <2>4. ASSUME NEW r \in Requests, NEW from \in Peers, FailInit(r, from) PROVE Vacant(clients')
    <3>1. PICK c \in EntryFor(r, from) :
             clients' = WithEntry(c, IF c.fresh THEN Free ELSE Entered(c, r, from))
      BY <2>4 DEF FailInit
    <3> QED
      BY <2>1, <2>2, <2>4, <3>1 DEF FailInit
  <2>5. ASSUME NEW s \in Slots, NEW from \in Peers, HandleData(s, from) PROVE Vacant(clients')
    <3>1. \A t \in Slots : clients'[t] = IF t = s THEN Seen(clients[s], from) ELSE clients[t]
      BY <2>0, <2>5 DEF HandleData
    <3>2. Seen(clients[s], from).active
      BY <2>0, <2>5, SeenLeft DEF HandleData, DataOk, LeftOf
    <3> QED
      BY <2>1, <3>1, <3>2
  <2>6. ASSUME NEW s \in Slots, NEW from \in Peers, HandleFirstData(s, from) PROVE Vacant(clients')
    <3> DEFINE x == FirstOn(clients[s], from, now + Grace)
    <3>1. clients' = [clients EXCEPT ![s] = x]
      BY <2>6 DEF HandleFirstData, FirstOn
    <3>2. x.active
      BY <2>0, <2>6, FirstLeft DEF HandleFirstData, DataOk, LeftOf
    <3> HIDE DEF x
    <3>3. \A t \in Slots : clients'[t] = IF t = s THEN x ELSE clients[t]
      BY <2>0, <3>1
    <3> QED
      BY <2>1, <3>2, <3>3
  <2>7. ASSUME NEW E, NEW S, NEW t \in Slots PROVE Wiped(E, S)[t] = IF t \in S THEN Free ELSE E[t]
    BY DEF Wiped
  <2>8. CASE ExpireClients
    <3>1. PICK S : clients' = Wiped([s \in Slots |-> Aged(clients[s])], S)
      BY <2>8 DEF ExpireClients
    <3>2. \A t \in Slots : clients'[t] = IF t \in S THEN Free ELSE Aged(clients[t])
      BY <2>7, <3>1
    <3>3. Aged(Free) = Free
      BY DEF Aged, Free
    <3>4. \A t \in Slots : Aged(clients[t]).active = clients[t].active
      BY <2>0, AgedLeft DEF LeftOf
    <3> QED
      BY <2>1, <3>2, <3>3, <3>4 DEF Vacant
  <2>9. ASSUME NEW p \in Peers, AcceptTcp(p) PROVE Vacant(clients')
    <3> DEFINE conn == [Blank EXCEPT !.addr = p, !.last_seen = now, !.connected = now]
    <3>1. PICK closed \in SUBSET Slots : \E s \in Slots :
             clients' = [Wiped(clients, closed) EXCEPT ![s] = conn]
      BY <2>9 DEF AcceptTcp
    <3>2. PICK s \in Slots : clients' = [Wiped(clients, closed) EXCEPT ![s] = conn]
      BY <3>1
    <3>3. conn.active
      BY DEF Blank, Free
    <3> HIDE DEF conn
    <3>4. \A t \in Slots : clients'[t] = IF t = s THEN conn
                                         ELSE IF t \in closed THEN Free ELSE clients[t]
      BY <3>2 DEF Wiped
    <3> QED
      BY <2>1, <3>3, <3>4
  <2>10. ASSUME NEW s \in Slots, CloseTcp(s) PROVE Vacant(clients')
    BY <2>1, <2>7, <2>10 DEF CloseTcp
  <2>11. ASSUME NEW c \in Configs, Reload(c) PROVE Vacant(clients')
    <3>1. PICK S : clients' = Wiped([s \in Slots |-> Withdrawn(c, clients[s])], S)
      BY <2>11 DEF Reload
    <3>2. \A t \in Slots : clients'[t] = IF t \in S THEN Free ELSE Withdrawn(c, clients[t])
      BY <2>7, <3>1
    <3>3. \A t \in Slots : ~clients[t].active => Withdrawn(c, clients[t]) = clients[t]
      BY DEF Withdrawn
    <3>4. \A t \in Slots : Withdrawn(c, clients[t]).active = clients[t].active
      BY <2>0, WithdrawnLeft DEF LeftOf
    <3> QED
      BY <2>1, <3>2, <3>3, <3>4
  <2>12. CASE Tick \/ UNCHANGED vars
    BY <2>1, <2>12 DEF Tick, vars
  <2> QED
    BY <2>3, <2>4, <2>5, <2>6, <2>8, <2>9, <2>10, <2>11, <2>12 DEF Next
<1>3. Vacant(clients') <=> Vacant(clients)'
  BY DEF Vacant
<1> QED
  BY <1>1, <1>2, <1>3, HeldInvariant, PTL DEF Spec

\* server_pool_holding(): after a start nobody loses a slot to a handshake, and
\* the pool gives a new client no address but the one leased to it or the one
\* it had, if a manual client over UDP keeps to its ID and no connection
\* starts from the address of a handshake that failed.
THEOREM HoldKept == Spec /\ []NoneBefore /\ [][SourceKept]_vars => HoldRespected
<1> DEFINE A == now < PoolHold => \A r \in Requests, from \in Peers :
          AnswerInit(r, from) =>
             /\ \A s \in Slots : clients[s].registered =>
                   \E t \in Slots : clients'[t].registered /\ clients'[t].id = clients[s].id
             /\ r.auto /\ ProfileIp(conf, r.id) = NoAddr
                  /\ FindById(clients, r.id) = NoSlot
                => \A t \in Slots : clients'[t].id = r.id =>
                        \/ clients'[t].ip = r.want
                        \/ \E l \in leases : l.id = r.id /\ l.ip = clients'[t].ip
<1>1. HeldInv /\ Vacant(clients) /\ NoneBefore /\ SourceKept => A
  BY NobodyEvicted, OnlyItsOwn DEF Holding
<1>2. [][A]_vars => HoldRespected
  BY PTL DEF HoldRespected
<1> HIDE DEF A
<1>3. HeldInv /\ Vacant(clients) /\ NoneBefore /\ [SourceKept]_vars => [A]_vars
  BY <1>1
<1> QED
  BY <1>2, <1>3, HeldInvariant, VacantInvariant, PTL

=============================================================================
