---------------------------- MODULE Tables_proofs ----------------------------
(***************************************************************************)
(* The server's lookup tables and budgets: what holds of the tables        *)
(* ClientIndex, LeaseTable, SlotIdx and Budgets for tables of any size.    *)
(*                                                                         *)
(*   LookupRight                  the address index of the clients         *)
(*   LeasesFound, LeasesStay      the lease table and its indexes          *)
(*   FindsLowest, IndexIsSet      the hash index itself                    *)
(*   RekeysServed, NewcomersServed  handshake budgets and their shares     *)
(*                                                                         *)
(* The tables are independent, so each part has its invariant.  A number   *)
(* that is the least with a property (the lowest slot, the first free      *)
(* bucket, a counterexample to what a loop keeps) comes from Least.        *)
(***************************************************************************)
EXTENDS ClientIndex, LeaseTable, SlotIdx, Budgets, FiniteSetTheorems, TLAPS

\* A set of naturals that is not empty has a least element.
LEMMA Least ==
    ASSUME NEW T, T \subseteq Nat, T # {} PROVE \E x \in T : \A y \in T : x <= y
<1> DEFINE R == OpToRel(<,Nat)
<1>1. IsWellFoundedOn(R, Nat)
  BY NatLessThanWellFounded
<1>2. \A x, y \in Nat : <<y, x>> \in R <=> y < x
  BY DEF OpToRel
<1> HIDE DEF R
<1>3. PICK x \in T : \A y \in T : <<y, x>> \notin R
  BY <1>1, WFMin
<1>4. \A y \in T : ~(y < x) /\ y \in Nat /\ x \in Nat
  BY <1>2, <1>3
<1> QED
  BY <1>4

----------------------------------------------------------------------------
(* The address index of the clients need not be exact, only complete: a    *)
(* lookup believes no pair the entry does not bear out.  So the invariant  *)
(* says that every address an active entry holds is in the index.  A step  *)
(* that sets keys of one entry, one after the other, passes through states *)
(* in which some are still missing: Complete names those.                  *)

IpOrNone == Ips \cup {NoIp}
EntryType == [active : BOOLEAN, cur : BOOLEAN, prev : BOOLEAN,
              ip : IpOrNone, pending : IpOrNone, prev_ip : IpOrNone]
IndexType == [pairs : SUBSET (Ips \X ClientSlots), ok : BOOLEAN]
Table == [ClientSlots -> EntryType]

\* Index x has every address of es but, for slot s, some of `missing`
Complete(x, es, s, missing) ==
    x.ok => \A t \in ClientSlots : es[t].active =>
               \A ip \in Held(es[t]) : <<ip, t>> \in x.pairs \/ (t = s /\ ip \in missing)
Covers(x, es) ==
    x.ok => \A t \in ClientSlots : es[t].active => \A ip \in Held(es[t]) : <<ip, t>> \in x.pairs

IndexInv == entries \in Table /\ idx \in IndexType /\ Covers(idx, entries)

----------------------------------------------------------------------------
\* What an entry holds are addresses
LEMMA HeldType == ASSUME NEW e \in EntryType
                  PROVE  Held(e) \subseteq Ips /\ Current(e) \subseteq Held(e)
BY DEF Held, Current, EntryType, IpOrNone

\* A rebuilt index is complete
LEMMA RebuiltCovers ==
    ASSUME NEW es \in Table
    PROVE  /\ Rebuilt(es) \subseteq Ips \X ClientSlots
           /\ \A t \in ClientSlots : es[t].active => \A ip \in Held(es[t]) : <<ip, t>> \in Rebuilt(es)
<1>1. \A t \in ClientSlots : Held(es[t]) \subseteq Ips
  BY HeldType DEF Table
<1> QED
  BY <1>1 DEF Rebuilt

\* server_index_add() of some keys leaves the others missing, whichever of
\* its outcomes it has
LEMMA AddedCompletes ==
    ASSUME NEW x \in IndexType, NEW es \in Table, NEW s \in ClientSlots,
           NEW keys \in SUBSET Ips, NEW missing, NEW y \in Added(x, es, s, keys),
           Complete(x, es, s, keys \cup missing)
    PROVE  y \in IndexType /\ Complete(y, es, s, missing)
<1>1. CASE ~x.ok \/ keys = {}
  <2>1. y = x
    BY <1>1 DEF Added
  <2>2. Complete(x, es, s, missing)
    BY <1>1 DEF Complete
  <2> QED
    BY <2>1, <2>2
<1>2. CASE x.ok /\ keys # {}
  <2> DEFINE put == [x EXCEPT !.pairs = @ \cup {<<ip, s>> : ip \in keys}]
             again == [pairs |-> Rebuilt(es), ok |-> TRUE]
             lost == [pairs |-> {}, ok |-> FALSE]
  <2>1. y \in {put, again, lost}
    BY <1>2 DEF Added
  <2>2. put = [pairs |-> x.pairs \cup {<<ip, s>> : ip \in keys}, ok |-> x.ok]
    BY DEF IndexType
  <2>3. CASE y = put
    <3> HIDE DEF put
    <3>1. y.pairs = x.pairs \cup {<<ip, s>> : ip \in keys} /\ y.ok = x.ok
      BY <2>2, <2>3
    <3>2. y \in IndexType
      BY <2>2, <2>3 DEF IndexType
    <3> QED
      BY <1>2, <3>1, <3>2 DEF Complete
  <2>4. CASE y = again
    <3>1. y.pairs = Rebuilt(es) /\ y.ok = TRUE
      BY <2>4
    <3>2. y \in IndexType
      BY <2>4, RebuiltCovers DEF IndexType
    <3> QED
      BY <3>1, <3>2, RebuiltCovers DEF Complete
  <2>5. CASE y = lost
    BY <2>5 DEF Complete, IndexType
  <2> QED
    BY <2>1, <2>3, <2>4, <2>5
<1> QED
  BY <1>1, <1>2

\* An entry is written with keys that, with what it had, are all it holds
LEMMA WriteKeeps ==
    ASSUME IndexInv, NEW s \in ClientSlots, NEW e \in EntryType, NEW keys \in SUBSET Ips,
           NEW held, held = (IF entries[s].active THEN Held(entries[s]) ELSE {}),
           e.active => Held(e) \subseteq held \cup keys,
           Write(s, e, keys)
    PROVE  IndexInv'
<1> DEFINE es == [entries EXCEPT ![s] = e]
<1>1. es \in Table /\ es[s] = e /\ \A t \in ClientSlots \ {s} : es[t] = entries[t]
  BY DEF IndexInv, Table
<1>2. entries' = es /\ idx' \in Added(idx, es, s, keys)
  BY DEF Write
<1> HIDE DEF es
<1>3. Complete(idx, es, s, keys \cup {})
  BY <1>1 DEF IndexInv, Covers, Complete
<1>4. idx \in IndexType
  BY DEF IndexInv
<1>5. idx' \in IndexType /\ Complete(idx', es, s, {})
  BY <1>1, <1>2, <1>3, <1>4, AddedCompletes
<1> QED
  BY <1>1, <1>2, <1>5 DEF IndexInv, Covers, Complete

\* server_assign_ip(): what the entry then holds it held, or it is a new key
LEMMA AssignedHolds ==
    ASSUME NEW e \in EntryType, NEW ip \in Ips
    PROVE  /\ Assigned(e, ip) \in EntryType
           /\ Assigned(e, ip).active = e.active
           /\ Assigned(e, ip).prev = e.prev /\ Assigned(e, ip).prev_ip = e.prev_ip
           /\ AssignKeys(e, ip) \subseteq Ips
           /\ Held(Assigned(e, ip)) \subseteq Held(e) \cup AssignKeys(e, ip)
<1>0. ip # NoIp /\ ip \in IpOrNone /\ NoIp \in IpOrNone
  BY ClientIndexAssumption DEF IpOrNone
<1>1. CASE e.cur /\ e.ip # NoIp /\ e.ip # ip
  <2> DEFINE a == [e EXCEPT !.pending = ip]
  <2>1. Assigned(e, ip) = a
    BY <1>1 DEF Assigned
  <2>2. /\ a.active = e.active /\ a.prev = e.prev /\ a.prev_ip = e.prev_ip
        /\ a.ip = e.ip /\ a.pending = ip /\ a \in EntryType
    BY <1>0 DEF EntryType
  <2> HIDE DEF a
  <2>3. AssignKeys(e, ip) \subseteq Ips
    BY DEF AssignKeys
  <2>4. Held(a) \subseteq Held(e) \cup AssignKeys(e, ip)
    BY <1>0, <2>1, <2>2 DEF Held, AssignKeys
  <2> QED
    BY <2>1, <2>2, <2>3, <2>4
<1>2. CASE ~(e.cur /\ e.ip # NoIp /\ e.ip # ip)
  <2> DEFINE a == [e EXCEPT !.pending = NoIp, !.ip = ip]
  <2>1. Assigned(e, ip) = a
    BY <1>2 DEF Assigned
  <2>2. /\ a.active = e.active /\ a.prev = e.prev /\ a.prev_ip = e.prev_ip
        /\ a.ip = ip /\ a.pending = NoIp /\ a \in EntryType
    BY <1>0 DEF EntryType
  <2> HIDE DEF a
  <2>3. AssignKeys(e, ip) \subseteq Ips
    BY DEF AssignKeys
  <2>4. Held(a) \subseteq Held(e) \cup AssignKeys(e, ip)
    BY <1>0, <2>1, <2>2 DEF Held, AssignKeys, Current
  <2> QED
    BY <2>1, <2>2, <2>3, <2>4
<1> QED
  BY <1>1, <1>2

\* server_restore_ip(): through all its steps the entry's addresses of before
\* the handshake get back into the index, or the index is given up
LEMMA RestoreCovers ==
    ASSUME NEW x \in IndexType, entries \in Table, NEW s \in ClientSlots,
           NEW given \in EntryType, entries[s].active, given.active,
           given.prev = entries[s].prev, given.prev_ip = entries[s].prev_ip,
           Covers(x, [entries EXCEPT ![s] = given]),
           NEW y \in RestoreIp(x, s, given, entries[s])
    PROVE  y \in IndexType /\ Covers(y, entries)
<1> DEFINE before == entries[s]
           back == [given EXCEPT !.ip = before.ip]
           es(e) == [entries EXCEPT ![s] = e]
<1>1. before \in EntryType
  BY DEF Table
<1>2. /\ back \in EntryType /\ back.active = given.active /\ back.ip = before.ip
      /\ back.pending = given.pending /\ back.prev = given.prev /\ back.prev_ip = given.prev_ip
  BY <1>1 DEF EntryType
<1>3. \A e \in EntryType : /\ es(e) \in Table /\ es(e)[s] = e
                           /\ \A t \in ClientSlots \ {s} : es(e)[t] = entries[t]
  BY DEF Table
<1>4. es(before) = entries
  BY DEF Table
<1> DEFINE K1 == Current(back) \ Current(given)
           K2 == Current(before)
           K3 == {before.pending} \ {NoIp}
<1>5. PICK u \in Added(x, es(back), s, K1) : \E z \in Added(u, es(before), s, K2) :
         y \in Added(z, es(before), s, K3)
  <2>1. RestoreIp(x, s, given, before) =
           UNION {UNION {Added(z, es(before), s, K3) : z \in Added(u, es(before), s, K2)} :
                     u \in Added(x, es(back), s, K1)}
    BY DEF RestoreIp
  <2>2. PICK m \in {UNION {Added(z, es(before), s, K3) : z \in Added(u, es(before), s, K2)} :
                       u \in Added(x, es(back), s, K1)} : y \in m
    <3> HIDE DEF es, back, before, K1, K2, K3
    <3> QED
      BY <2>1 DEF before
  <2> HIDE DEF es, back, before, K1, K2, K3
  <2>3. PICK u \in Added(x, es(back), s, K1) :
           y \in UNION {Added(z, es(before), s, K3) : z \in Added(u, es(before), s, K2)}
    BY <2>2
  <2> QED
    BY <2>3
<1>6. PICK z \in Added(u, es(before), s, K2) : y \in Added(z, es(before), s, K3)
  BY <1>5
<1>7. K1 \in SUBSET Ips /\ K2 \in SUBSET Ips /\ K3 \in SUBSET Ips
  <2>1. Current(back) \subseteq Ips /\ Current(before) \subseteq Ips
    BY <1>1, <1>2, HeldType
  <2>2. before.pending \in IpOrNone
    BY <1>1 DEF EntryType
  <2> QED
    BY <2>1, <2>2 DEF IpOrNone
<1> HIDE DEF es, back, before
<1>8. Complete(x, es(back), s, K1 \cup {})
  <2>1. Held(back) \subseteq Held(given) \cup K1
    BY <1>2 DEF Held, Current
  <2>2. Complete(x, es(given), s, {})
    BY DEF Covers, Complete, es
  <2> HIDE DEF K1
  <2> QED
    BY <1>2, <1>3, <2>1, <2>2 DEF Complete
<1> HIDE DEF K1
<1>9. u \in IndexType /\ Complete(u, es(back), s, {})
  BY <1>2, <1>3, <1>5, <1>7, <1>8, AddedCompletes
<1>10. Complete(u, es(before), s, K2 \cup K3)
  <2>1. Held(before) \subseteq Held(back) \cup K2 \cup K3
    BY <1>2 DEF Held, Current, before
  <2>2. /\ es(before)[s] = before /\ es(back)[s] = back /\ back.active
        /\ \A t \in ClientSlots \ {s} : es(before)[t] = es(back)[t]
    BY <1>1, <1>2, <1>3
  <2> HIDE DEF K2, K3
  <2> QED
    BY <1>9, <2>1, <2>2 DEF Complete
<1> HIDE DEF K2, K3
<1>11. z \in IndexType /\ Complete(z, es(before), s, K3)
  BY <1>1, <1>3, <1>6, <1>7, <1>9, <1>10, AddedCompletes
<1>12. Complete(z, es(before), s, K3 \cup {})
  BY <1>11
<1>13. y \in IndexType /\ Complete(y, es(before), s, {})
  BY <1>1, <1>3, <1>6, <1>7, <1>11, <1>12, AddedCompletes
<1> QED
  BY <1>4, <1>13 DEF Covers, Complete

----------------------------------------------------------------------------
\* Every address an active entry holds is in the index, unless the index is
\* given up
LEMMA IndexComplete == ClientIndexSpec => []IndexInv
<1>1. ClientIndexInit => IndexInv
  <2> SUFFICES ASSUME ClientIndexInit PROVE IndexInv
    OBVIOUS
  <2>1. Unused \in EntryType /\ ~Unused.active
    BY DEF Unused, EntryType, IpOrNone
  <2>2. entries = [s \in ClientSlots |-> Unused]
    BY DEF ClientIndexInit
  <2>3. entries \in Table
    BY <2>1, <2>2, Zenon DEF Table
  <2>4. \A s \in ClientSlots : ~entries[s].active
    BY <2>1, <2>2
  <2>5. idx \in IndexType
    <3>1. [pairs |-> {}, ok |-> TRUE] \in IndexType
      BY DEF IndexType
    <3>2. [pairs |-> {}, ok |-> FALSE] \in IndexType
      BY DEF IndexType
    <3> QED
      BY <3>1, <3>2, Zenon DEF ClientIndexInit
  <2> QED
    BY <2>3, <2>4, <2>5 DEF IndexInv, Covers
<1>2. IndexInv /\ [ClientIndexNext]_indexVars => IndexInv'
  <2> SUFFICES ASSUME IndexInv, [ClientIndexNext]_indexVars PROVE IndexInv'
    OBVIOUS
  <2>0. \A s \in ClientSlots : entries[s] \in EntryType
    BY DEF IndexInv, Table
  <2>1. ASSUME NEW s \in ClientSlots, Alloc(s) PROVE IndexInv'
    <3> DEFINE e == [Unused EXCEPT !.active = TRUE]
    <3>1. e \in EntryType /\ Held(e) = {}
      BY DEF Unused, EntryType, IpOrNone, Held
    <3> HIDE DEF e
    <3>2. Write(s, e, {})
      BY <2>1 DEF Alloc, e
    <3> QED
      BY <3>1, <3>2, WriteKeeps
  <2>2. ASSUME NEW s \in ClientSlots, NEW ip \in Ips, Assign(s, ip) PROVE IndexInv'
    <3> DEFINE a == Assigned(entries[s], ip)
               e == [a EXCEPT !.cur = TRUE]
    <3>1. a \in EntryType /\ Held(a) \subseteq Held(entries[s]) \cup AssignKeys(entries[s], ip)
      BY <2>0, AssignedHolds
    <3>2. AssignKeys(entries[s], ip) \in SUBSET Ips
      BY <2>0, AssignedHolds
    <3>3. entries[s].active /\ Write(s, e, AssignKeys(entries[s], ip))
      BY <2>2 DEF Assign
    <3> HIDE DEF a
    <3>4. e \in EntryType /\ Held(e) = Held(a)
      BY <3>1 DEF EntryType, Held
    <3> HIDE DEF e
    <3> QED
      BY <3>1, <3>2, <3>3, <3>4, WriteKeeps
  <2>3. ASSUME NEW s \in ClientSlots, NEW ip \in Ips, AssignFails(s, ip) PROVE IndexInv'
    <3> DEFINE given == Assigned(entries[s], ip)
               keys == AssignKeys(entries[s], ip)
               es == [entries EXCEPT ![s] = given]
    <3>1. /\ given \in EntryType /\ given.active = entries[s].active
          /\ given.prev = entries[s].prev /\ given.prev_ip = entries[s].prev_ip
          /\ keys \in SUBSET Ips /\ Held(given) \subseteq Held(entries[s]) \cup keys
      BY <2>0, AssignedHolds
    <3>2. PICK x \in Added(idx, es, s, keys) : idx' \in RestoreIp(x, s, given, entries[s])
      BY <2>3 DEF AssignFails
    <3>3. entries[s].active /\ entries' = entries
      BY <2>3 DEF AssignFails
    <3> HIDE DEF given, keys
    <3>4. es \in Table /\ es[s] = given /\ \A t \in ClientSlots \ {s} : es[t] = entries[t]
      BY <3>1 DEF IndexInv, Table
    <3>5. Complete(idx, es, s, keys \cup {}) /\ idx \in IndexType /\ entries \in Table
      <4> HIDE DEF es
      <4> QED
        BY <3>1, <3>3, <3>4 DEF IndexInv, Covers, Complete
    <3>6. x \in IndexType /\ Complete(x, es, s, {})
      <4> HIDE DEF es
      <4> QED
        BY <3>1, <3>2, <3>4, <3>5, AddedCompletes
    <3>7. Covers(x, es)
      BY <3>6 DEF Complete, Covers
    <3>8. idx' \in IndexType /\ Covers(idx', entries)
      BY <3>1, <3>2, <3>3, <3>5, <3>6, <3>7, RestoreCovers
    <3> QED
      BY <3>3, <3>5, <3>8 DEF IndexInv, Covers
  <2>4. ASSUME NEW s \in ClientSlots, Promote(s) PROVE IndexInv'
    <3> DEFINE e == entries[s]
               moved == [e EXCEPT !.prev = TRUE, !.prev_ip = e.ip, !.pending = NoIp,
                                  !.ip = IF e.pending = NoIp THEN @ ELSE e.pending]
    <3>1. e \in EntryType
      BY <2>0
    <3>2. /\ moved \in EntryType /\ moved.pending = NoIp /\ moved.prev_ip = e.ip
          /\ moved.ip \in {e.ip, e.pending} /\ moved.active = e.active
      BY <3>1 DEF EntryType, IpOrNone
    <3>3. e.active /\ Write(s, moved, Current(moved) \ Current(e))
      BY <2>4 DEF Promote
    <3> HIDE DEF moved
    <3>4. Held(moved) \subseteq Held(e)
      BY <3>2 DEF Held
    <3>5. Current(moved) \ Current(e) \in SUBSET Ips
      BY <3>2, HeldType
    <3> QED
      BY <3>2, <3>3, <3>4, <3>5, WriteKeeps
  <2>5. ASSUME NEW s \in ClientSlots, Expire(s) PROVE IndexInv'
    <3> DEFINE e == entries[s]
               quiet == [e EXCEPT !.prev = FALSE, !.prev_ip = NoIp]
               kept == [e EXCEPT !.pending = NoIp]
    <3>1. e \in EntryType
      BY <2>0
    <3>2. quiet \in EntryType /\ Held(quiet) \subseteq Held(e)
      BY <3>1 DEF EntryType, IpOrNone, Held
    <3>3. kept \in EntryType /\ Held(kept) \subseteq Held(e)
      BY <3>1 DEF EntryType, IpOrNone, Held
    <3>4. e.active /\ (Write(s, quiet, {}) \/ Write(s, kept, {}))
      BY <2>5 DEF Expire
    <3> HIDE DEF quiet, kept
    <3> QED
      BY <3>2, <3>3, <3>4, WriteKeeps
  <2>6. ASSUME NEW s \in ClientSlots, DropEntry(s) PROVE IndexInv'
    <3>1. Unused \in EntryType /\ ~Unused.active
      BY DEF Unused, EntryType, IpOrNone
    <3>2. Write(s, Unused, {})
      BY <2>6 DEF DropEntry
    <3> QED
      BY <3>1, <3>2, WriteKeeps
  <2>7. CASE UNCHANGED indexVars
    BY <2>7 DEF indexVars, IndexInv, Covers
  <2> QED
    BY <2>1, <2>2, <2>3, <2>4, <2>5, <2>6, <2>7 DEF ClientIndexNext
<1> QED
  BY <1>1, <1>2, PTL DEF ClientIndexSpec

\* server_find_by_ip() answers from the index as a scan of the table would:
\* no reuse of slots, rebuild, failed handshake or lack of memory makes it
\* miss a client or name another one.
THEOREM LookupRight == ClientIndexSpec => []LookupExact
<1>1. IndexInv => LookupExact
  <2> SUFFICES ASSUME IndexInv, NEW ip \in Ips PROVE FindByIp(ip) = FindIn(ClientSlots, ip)
    BY DEF LookupExact
  <2>1. CASE ~idx.ok
    BY <2>1 DEF FindByIp
  <2>2. CASE idx.ok
    <3> DEFINE listed == {s \in ClientSlots : <<ip, s>> \in idx.pairs}
    <3>1. \A s \in ClientSlots : entries[s].active /\ ip \in Held(entries[s]) => s \in listed
      BY <2>2 DEF IndexInv, Covers
    <3>2. \A s \in ClientSlots : ip \in Current(entries[s]) => ip \in Held(entries[s])
      BY HeldType DEF IndexInv, Table
    <3>3. listed \subseteq ClientSlots
      OBVIOUS
    <3>4. FindByIp(ip) = FindIn(listed, ip)
      BY <2>2 DEF FindByIp
    <3> HIDE DEF listed
    <3>5. {s \in listed : entries[s].active /\ ip \in Current(entries[s])}
             = {s \in ClientSlots : entries[s].active /\ ip \in Current(entries[s])}
      BY <3>1, <3>2, <3>3
    <3>6. {s \in listed : entries[s].active /\ ip \in Held(entries[s])}
             = {s \in ClientSlots : entries[s].active /\ ip \in Held(entries[s])}
      BY <3>1, <3>3
    <3> QED
      BY <3>4, <3>5, <3>6 DEF FindIn
  <2> QED
    BY <2>1, <2>2
<1> QED
  BY <1>1, IndexComplete, PTL

----------------------------------------------------------------------------
(* The lease table keeps the leases LeaseSet promises.  Its slots hold     *)
(* different addresses, and, but for previous ones, different clients, so  *)
(* slots and leases are as many, and what a lookup finds is one slot.      *)

Slot == Lease \cup {FreeLease}
TableOk(t) == /\ \E n \in Nat \ {0} : DOMAIN t = 0 .. n - 1
              /\ \A k \in DOMAIN t : t[k] \in Slot
Distinct(t) ==
    \A j, k \in Taken(t) : j # k => /\ t[j].ip # t[k].ip
                                    /\ ~t[j].prev /\ ~t[k].prev => t[j].id # t[k].id
Finds(x, t) == x.ok => \A k \in Taken(t) : <<t[k].ip, k>> \in x.ips /\ <<t[k].id, k>> \in x.ids
Counted(t, n) == IsFiniteSet(Taken(t)) /\ n = Cardinality(Taken(t))
LeasesOf(t) == {t[k] : k \in Taken(t)}

LeaseInv ==
    /\ TableOk(slots) /\ Distinct(slots) /\ Finds(lookup, slots) /\ Counted(slots, used)
    /\ cursor \in Nat

\* What is in the way of a lease: Replaced of LeaseSet
InWay(l, id, ip, prev) == l.ip = ip \/ (~prev /\ ~l.prev /\ l.id = id)

\* A taken slot has a lease.
LEMMA LeaseIs ==
    ASSUME NEW t, TableOk(t), NEW k \in Taken(t)
    PROVE  k \in DOMAIN t /\ k \in Nat /\ t[k] \in Lease /\ t[k] # FreeLease
BY DEF TableOk, Slot, Taken

\* The slots are counted from 0 and finitely many.
LEMMA CapIs ==
    ASSUME NEW t, TableOk(t)
    PROVE  /\ Cap(t) \in Nat \ {0} /\ DOMAIN t = 0 .. Cap(t) - 1
           /\ IsFiniteSet(DOMAIN t) /\ IsFiniteSet(Taken(t))
<1>1. PICK n \in Nat \ {0} : DOMAIN t = 0 .. n - 1
  BY DEF TableOk
<1>2. IsFiniteSet(0 .. n - 1) /\ Cardinality(0 .. n - 1) = n
  BY FS_Interval
<1>3. Taken(t) \subseteq DOMAIN t
  BY DEF Taken
<1>4. IsFiniteSet(DOMAIN t) /\ Cap(t) = n
  BY <1>1, <1>2 DEF Cap
<1>5. IsFiniteSet(Taken(t))
  BY <1>3, <1>4, FS_Subset
<1> QED
  BY <1>1, <1>4, <1>5

\* With one that matches at most, the lowest is that one.
LEMMA OneIsLowest ==
    ASSUME NEW ks, ks \subseteq Nat, \A j, k \in ks : j = k
    PROVE  Lowermost(ks) = ks
<1>1. ASSUME NEW k \in ks PROVE k \in Lowermost(ks)
  <2> SUFFICES ASSUME NEW j \in ks PROVE k <= j
    BY DEF Lowermost
  <2>1. j = k /\ k \in Nat
    OBVIOUS
  <2> QED
    BY <2>1
<1>2. Lowermost(ks) \subseteq ks
  BY DEF Lowermost
<1> QED
  BY <1>1, <1>2

\* A lookup finds the lease of an address, and that of a client.
LEMMA LookupFinds ==
    ASSUME NEW t, TableOk(t), Distinct(t), Finds(lookup, t), NEW ip, NEW id
    PROVE  /\ ByIp(t, ip) = WithIp(t, ip) /\ ById(t, id) = WithId(t, id)
           /\ Lowermost(WithIp(t, ip)) = WithIp(t, ip) /\ Lowermost(WithId(t, id)) = WithId(t, id)
<1>1. {k \in WithIp(t, ip) : lookup.ok => <<ip, k>> \in lookup.ips} = WithIp(t, ip)
  BY DEF Finds, WithIp
<1>2. {k \in WithId(t, id) : lookup.ok => <<id, k>> \in lookup.ids} = WithId(t, id)
  BY DEF Finds, WithId
<1>3. WithIp(t, ip) \subseteq Nat /\ WithId(t, id) \subseteq Nat
  BY LeaseIs DEF WithIp, WithId
<1>4. Lowermost(WithIp(t, ip)) = WithIp(t, ip)
  BY <1>3, OneIsLowest DEF WithIp, Distinct
<1>5. Lowermost(WithId(t, id)) = WithId(t, id)
  BY <1>3, OneIsLowest DEF WithId, Distinct
<1> QED
  BY <1>1, <1>2, <1>4, <1>5 DEF ByIp, ById

\* server_lease_drop()
LEMMA DropIs ==
    ASSUME NEW t, NEW n, NEW ks, TableOk(t), Distinct(t), Counted(t, n), ks \subseteq Taken(t),
           NEW x, Finds(x, t), NEW d, d = Drop([table |-> t, count |-> n], ks)
    PROVE  /\ TableOk(d.table) /\ Distinct(d.table) /\ Counted(d.table, d.count)
           /\ Finds(x, d.table) /\ Taken(d.table) = Taken(t) \ ks
           /\ DOMAIN d.table = DOMAIN t /\ \A k \in Taken(d.table) : d.table[k] = t[k]
<1> DEFINE u == [k \in DOMAIN t |-> IF k \in ks THEN FreeLease ELSE t[k]]
<1>1. d.table = u /\ d.count = n - Cardinality(ks \cap Taken(t))
  BY DEF Drop
<1>2. DOMAIN u = DOMAIN t /\ \A k \in DOMAIN t : u[k] = IF k \in ks THEN FreeLease ELSE t[k]
  OBVIOUS
<1> HIDE DEF u
<1>3. TableOk(u)
  BY <1>2 DEF TableOk, Slot
<1>4. Taken(u) = Taken(t) \ ks /\ \A k \in Taken(u) : u[k] = t[k]
  BY <1>2 DEF Taken
<1>5. Distinct(u) /\ Finds(x, u)
  BY <1>4 DEF Distinct, Finds
<1>6. Counted(u, d.count)
  <2>1. IsFiniteSet(Taken(t)) /\ n = Cardinality(Taken(t))
    BY DEF Counted
  <2>2. /\ IsFiniteSet(Taken(t) \ ks)
        /\ Cardinality(Taken(t) \ ks) = Cardinality(Taken(t)) - Cardinality(Taken(t) \cap ks)
    BY <2>1, FS_Difference
  <2>3. Taken(t) \cap ks = ks \cap Taken(t)
    OBVIOUS
  <2> QED
    BY <1>1, <1>4, <2>1, <2>2, <2>3 DEF Counted
<1> QED
  BY <1>1, <1>2, <1>3, <1>4, <1>5, <1>6

----------------------------------------------------------------------------
\* The leases that are in nobody's way stay: r of server_lease_add() and of a
\* client that has its address again
Cleared(t, n, x, r, id, ip, prev) ==
    /\ TableOk(r.table) /\ Distinct(r.table) /\ Counted(r.table, r.count) /\ Finds(x, r.table)
    /\ DOMAIN r.table = DOMAIN t
    /\ Taken(r.table) = {k \in Taken(t) : ~InWay(t[k], id, ip, prev)}
    /\ \A k \in Taken(r.table) : r.table[k] = t[k]

\* server_lease_add() first drops what is in the way: the lease of the client
\* and that of the address.
LEMMA Clears ==
    ASSUME LeaseInv, NEW id, NEW ip, NEW prev, NEW gone, NEW r1, NEW r,
           gone = (IF prev THEN {} ELSE ById(slots, id)),
           r1 = Drop([table |-> slots, count |-> used], gone),
           r = Drop(r1, ByIp(r1.table, ip))
    PROVE  Cleared(slots, used, lookup, r, id, ip, prev)
<1>1. TableOk(slots) /\ Distinct(slots) /\ Finds(lookup, slots) /\ Counted(slots, used)
  BY DEF LeaseInv
<1>2. gone = {k \in Taken(slots) : ~prev /\ ~slots[k].prev /\ slots[k].id = id}
  BY <1>1, LookupFinds DEF WithId
<1>3. gone \subseteq Taken(slots)
  BY <1>2
<1>4. /\ TableOk(r1.table) /\ Distinct(r1.table) /\ Counted(r1.table, r1.count)
      /\ Finds(lookup, r1.table) /\ Taken(r1.table) = Taken(slots) \ gone
      /\ DOMAIN r1.table = DOMAIN slots /\ \A k \in Taken(r1.table) : r1.table[k] = slots[k]
  BY <1>1, <1>3, DropIs
<1>5. r1 = [table |-> r1.table, count |-> r1.count]
  BY DEF Drop
<1> DEFINE mine == ByIp(r1.table, ip)
<1>6. mine = WithIp(r1.table, ip)
  BY <1>4, LookupFinds
<1>7. mine \subseteq Taken(r1.table)
  BY <1>6 DEF WithIp
<1> HIDE DEF mine
<1>8. r = Drop([table |-> r1.table, count |-> r1.count], mine)
  BY <1>5 DEF mine
<1>9. /\ TableOk(r.table) /\ Distinct(r.table) /\ Counted(r.table, r.count)
      /\ Finds(lookup, r.table) /\ Taken(r.table) = Taken(r1.table) \ mine
      /\ DOMAIN r.table = DOMAIN r1.table /\ \A k \in Taken(r.table) : r.table[k] = r1.table[k]
  BY <1>4, <1>7, <1>8, DropIs
<1>10. Taken(r.table) = {k \in Taken(slots) : ~InWay(slots[k], id, ip, prev)}
  BY <1>2, <1>4, <1>6, <1>9 DEF WithIp, InWay
<1> QED
  BY <1>4, <1>9, <1>10 DEF Cleared

\* Slots and leases are as many.
LEMMA AsMany ==
    ASSUME NEW t, TableOk(t), Distinct(t)
    PROVE  Cardinality(LeasesOf(t)) = Cardinality(Taken(t)) /\ IsFiniteSet(LeasesOf(t))
<1> DEFINE f == [k \in Taken(t) |-> t[k]]
<1>1. IsFiniteSet(Taken(t))
  BY CapIs
<1>2. f \in Bijection(Taken(t), LeasesOf(t))
  BY Zenon DEF Bijection, Injection, Surjection, IsInjective, LeasesOf, Distinct
<1>3. ExistsBijection(Taken(t), LeasesOf(t))
  BY <1>2 DEF ExistsBijection
<1> QED
  BY <1>1, <1>3, FS_Bijection

\* An index that has all, or is not used, after a lease went into slot k
LEMMA IndexedFinds ==
    ASSUME NEW t, NEW u, NEW k, NEW ok, NEW y \in Indexed(ok, t, k),
           Taken(t) \subseteq Taken(u) \cup {k}, ok => Finds(lookup, u),
           \A j \in Taken(t) \ {k} : t[j] = u[j], ok = TRUE => lookup.ok = TRUE
    PROVE  Finds(y, t)
<1> DEFINE put == [ips |-> lookup.ips \cup {<<t[k].ip, k>>},
                   ids |-> lookup.ids \cup {<<t[k].id, k>>}, ok |-> TRUE]
<1>1. (ok /\ y = put) \/ y = Reindexed(t) \/ y = Unindexed
  BY DEF Indexed
<1>2. CASE y = Reindexed(t)
  BY <1>2 DEF Finds, Reindexed
<1>3. CASE y = Unindexed
  BY <1>3 DEF Finds, Unindexed
<1>4. CASE ok /\ y = put
  <2>1. /\ y.ips = lookup.ips \cup {<<t[k].ip, k>>} /\ y.ids = lookup.ids \cup {<<t[k].id, k>>}
    BY <1>4
  <2>2. ASSUME NEW j \in Taken(t) PROVE <<t[j].ip, j>> \in y.ips /\ <<t[j].id, j>> \in y.ids
    BY <1>4, <2>1 DEF Finds
  <2> QED
    BY <2>2 DEF Finds
<1> QED
  BY <1>1, <1>2, <1>3, <1>4

----------------------------------------------------------------------------
\* A new lease goes into a slot, in the place of what that held.
MayStore(t, n, k, new, ok, next) ==
    /\ k \in DOMAIN t /\ new \in Lease /\ next \in Nat
    /\ TableOk(t) /\ Distinct(t) /\ Counted(t, n)
    /\ ok => Finds(lookup, t) /\ lookup.ok = TRUE
    /\ \A j \in Taken(t) : ~InWay(t[j], new.id, new.ip, new.prev)

Stored(t, k, new) ==
    LeasesOf(slots') = (IF t[k] = FreeLease THEN LeasesOf(t) ELSE LeasesOf(t) \ {t[k]}) \cup {new}

\* A lease put in a slot, its pairs in the indexes or the indexes given up
LEMMA StoreKeeps ==
    ASSUME NEW r, NEW k, NEW new, NEW ok, NEW next,
           MayStore(r.table, r.count, k, new, ok, next), Store(r, k, new, ok, next)
    PROVE  LeaseInv' /\ Stored(r.table, k, new)
<1> DEFINE t == r.table
           n == r.count
<1>0. /\ k \in DOMAIN t /\ new \in Lease /\ next \in Nat
      /\ TableOk(t) /\ Distinct(t) /\ Counted(t, n)
      /\ ok => Finds(lookup, t) /\ lookup.ok = TRUE
      /\ \A j \in Taken(t) : ~InWay(t[j], new.id, new.ip, new.prev)
  BY DEF MayStore
<1> DEFINE u == [t EXCEPT ![k] = new]
<1>1. /\ slots' = u /\ used' = (IF t[k] = FreeLease THEN n + 1 ELSE n)
      /\ cursor' = next % Cap(u) /\ lookup' \in Indexed(ok, u, k)
  BY DEF Store
<1> HIDE DEF t, n
<1>2. DOMAIN u = DOMAIN t /\ u[k] = new /\ \A j \in DOMAIN t \ {k} : u[j] = t[j]
  BY <1>0
<1> HIDE DEF u
<1>3. new # FreeLease
  BY <1>0, LeaseAssumption DEF Lease, FreeLease
<1>4. TableOk(u)
  BY <1>0, <1>2 DEF TableOk, Slot
<1>5. Taken(u) = Taken(t) \cup {k} /\ k \in Taken(u)
  BY <1>0, <1>2, <1>3 DEF Taken
<1>6. Distinct(u)
  <2>1. \A j \in Taken(u) \ {k} : j \in Taken(t) /\ u[j] = t[j]
    BY <1>2, <1>5 DEF Taken
  <2> SUFFICES ASSUME NEW i \in Taken(u), NEW j \in Taken(u), i # j
               PROVE  u[i].ip # u[j].ip /\ (~u[i].prev /\ ~u[j].prev => u[i].id # u[j].id)
    BY DEF Distinct
  <2>2. CASE i # k /\ j # k
    BY <1>0, <2>1, <2>2 DEF Distinct
  <2>3. CASE i = k
    BY <1>0, <1>2, <2>1, <2>3 DEF InWay
  <2>4. CASE j = k
    BY <1>0, <1>2, <2>1, <2>4 DEF InWay
  <2> QED
    BY <2>2, <2>3, <2>4
<1>7. Finds(lookup', u)
  <2>1. Taken(u) \subseteq Taken(t) \cup {k} /\ \A j \in Taken(u) \ {k} : u[j] = t[j]
    BY <1>2, <1>5 DEF Taken
  <2>2. (ok => Finds(lookup, t)) /\ (ok = TRUE => lookup.ok = TRUE)
    BY <1>0
  <2> QED
    BY <1>1, <2>1, <2>2, IndexedFinds
<1>8. Counted(u, used')
  <2>1. IsFiniteSet(Taken(t)) /\ n = Cardinality(Taken(t))
    BY <1>0 DEF Counted
  <2>2. t[k] = FreeLease <=> k \notin Taken(t)
    BY <1>0 DEF Taken
  <2> QED
    BY <1>1, <1>5, <2>1, <2>2, FS_AddElement DEF Counted
<1>9. cursor' \in Nat
  BY <1>0, <1>1, <1>4, CapIs
<1>10. LeasesOf(u) = (IF t[k] = FreeLease THEN LeasesOf(t) ELSE LeasesOf(t) \ {t[k]}) \cup {new}
  <2>1. \A j \in Taken(t) \ {k} : u[j] = t[j] /\ j \in Taken(u)
    BY <1>2, <1>5 DEF Taken
  <2>2. CASE t[k] = FreeLease
    <3>1. k \notin Taken(t)
      BY <1>0, <2>2 DEF Taken
    <3> QED
      BY <1>2, <1>5, <2>1, <2>2, <3>1 DEF LeasesOf
  <2>3. CASE t[k] # FreeLease
    <3>1. k \in Taken(t)
      BY <1>0, <2>3 DEF Taken
    <3>2. \A j \in Taken(t) \ {k} : t[j] # t[k]
      BY <1>0, <3>1 DEF Distinct
    <3> QED
      BY <1>2, <1>5, <2>1, <2>3, <3>1, <3>2 DEF LeasesOf
  <2> QED
    BY <2>2, <2>3
<1> QED
  BY <1>1, <1>4, <1>6, <1>7, <1>8, <1>9, <1>10 DEF LeaseInv, Stored, t

\* realloc() adds free slots.
LEMMA BiggerIs ==
    ASSUME NEW t, NEW n, TableOk(t), Distinct(t), Counted(t, n), NewCap(t) > Cap(t)
    PROVE  /\ TableOk(Bigger(t)) /\ Distinct(Bigger(t)) /\ Counted(Bigger(t), n)
           /\ Cap(t) \in DOMAIN Bigger(t) /\ Bigger(t)[Cap(t)] = FreeLease
           /\ Taken(Bigger(t)) = Taken(t) /\ \A k \in Taken(t) : Bigger(t)[k] = t[k]
<1> DEFINE b == Bigger(t)
<1>1. /\ Cap(t) \in Nat \ {0} /\ DOMAIN t = 0 .. Cap(t) - 1 /\ NewCap(t) \in Nat \ {0}
  BY CapIs, LeaseAssumption DEF NewCap
<1>2. /\ DOMAIN b = 0 .. NewCap(t) - 1
      /\ \A k \in DOMAIN b : b[k] = IF k \in DOMAIN t THEN t[k] ELSE FreeLease
  BY DEF Bigger
<1> HIDE DEF b
<1>3. DOMAIN t \subseteq DOMAIN b /\ Cap(t) \in DOMAIN b /\ Cap(t) \notin DOMAIN t
  BY <1>1, <1>2
<1>4. TableOk(b)
  BY <1>1, <1>2 DEF TableOk, Slot
<1>5. Taken(b) = Taken(t) /\ \A k \in Taken(t) : b[k] = t[k]
  BY <1>2, <1>3 DEF Taken
<1>6. Distinct(b) /\ Counted(b, n)
  BY <1>5 DEF Distinct, Counted
<1>7. b[Cap(t)] = FreeLease
  BY <1>2, <1>3
<1> QED
  BY <1>3, <1>4, <1>5, <1>6, <1>7 DEF b

\* When the code takes the place of a lease, no slot is free.
LEMMA NoneFree ==
    ASSUME NEW r, TableOk(r.table), Counted(r.table, r.count), cursor \in Nat,
           r.count >= Cap(r.table) \/ FreeSlot(r) = {}
    PROVE  Taken(r.table) = DOMAIN r.table
<1> DEFINE t == r.table
           free == DOMAIN t \ Taken(t)
           way(k) == (k + Cap(t) - cursor) % Cap(t)
<1>1. /\ Cap(t) \in Nat \ {0} /\ DOMAIN t = 0 .. Cap(t) - 1
      /\ IsFiniteSet(DOMAIN t) /\ IsFiniteSet(Taken(t)) /\ Taken(t) \subseteq DOMAIN t
  BY CapIs DEF Taken
<1>2. CASE r.count >= Cap(t)
  <2>1. Cardinality(Taken(t)) >= Cardinality(DOMAIN t)
    BY <1>2 DEF Counted, Cap
  <2>2. /\ Cardinality(Taken(t)) \in Nat /\ Cardinality(DOMAIN t) \in Nat
        /\ Cardinality(Taken(t)) <= Cardinality(DOMAIN t)
    BY <1>1, FS_Subset, FS_CardinalityType
  <2>3. Cardinality(DOMAIN t) = Cardinality(Taken(t))
    BY <2>1, <2>2
  <2> QED
    BY <1>1, <2>3, FS_Subset
<1>3. CASE free # {} /\ FreeSlot(r) = {}
  <2> DEFINE ways == {way(k) : k \in free}
  <2>1. \A k \in free : way(k) \in Nat
    BY <1>1
  <2>2. PICK w \in ways : \A v \in ways : w <= v
    <3>1. ways \subseteq Nat /\ ways # {}
      BY <1>3, <2>1
    <3> HIDE DEF ways
    <3> QED
      BY <3>1, Least
  <2>3. PICK k \in free : w = way(k)
    BY <2>2
  <2>4. k \in FreeSlot(r)
    BY <2>2, <2>3 DEF FreeSlot
  <2> QED
    BY <1>3, <2>4
<1> QED
  BY <1>1, <1>2, <1>3

----------------------------------------------------------------------------
\* The slots cleared hold the leases LeaseSet keeps.
LEMMA KeptAre ==
    ASSUME NEW n, NEW x, NEW r, NEW id, NEW ip, NEW prev,
           Cleared(slots, n, x, r, id, ip, prev)
    PROVE  LeasesOf(r.table) =
             LeasesOf(slots) \ {l \in LeasesOf(slots) : InWay(l, id, ip, prev)}
BY DEF Cleared, LeasesOf

\* A step of LeaseSet's Keep
KeepsIn(new, id, ip, prev) ==
    LET kept == LeasesOf(slots) \ {l \in LeasesOf(slots) : InWay(l, id, ip, prev)}
    IN \/ LeasesOf(slots') = kept \cup {new}
       \/ \E l \in kept : /\ \/ l.age >= LeaseMin
                             \/ ~memory
                             \/ Cardinality(kept) >= LeaseLimit
                          /\ LeasesOf(slots') = (kept \ {l}) \cup {new}

\* server_lease_add()
LEMMA AddKeeps ==
    ASSUME LeaseInv, NEW id \in LeaseIds, NEW ip \in LeaseIps, NEW prev \in BOOLEAN,
           LeaseAdd(id, ip, prev)
    PROVE  LeaseInv' /\ KeepsIn([id |-> id, ip |-> ip, prev |-> prev, age |-> 0], id, ip, prev)
<1> DEFINE new == [id |-> id, ip |-> ip, prev |-> prev, age |-> 0]
           gone == IF prev THEN {} ELSE ById(slots, id)
           r1 == Drop([table |-> slots, count |-> used], gone)
           r == Drop(r1, ByIp(r1.table, ip))
           kept == LeasesOf(slots) \ {l \in LeasesOf(slots) : InWay(l, id, ip, prev)}
           full == r.count >= Cap(r.table) \/ FreeSlot(r) = {}
<1>1. \/ \E k \in FreeSlot(r) : Store(r, k, new, lookup.ok, k + 1)
      \/ /\ full
         /\ \E k \in Oldest(r) :
               \/ /\ memory /\ MustGrow(r.table, k)
                  /\ Store([r EXCEPT !.table = Bigger(r.table)], Cap(r.table), new, FALSE,
                           Cap(r.table) + 1)
               \/ ~(memory /\ MustGrow(r.table, k)) /\ Store(r, k, new, lookup.ok, cursor)
  BY Zenon DEF LeaseAdd
<1>2. Cleared(slots, used, lookup, r, id, ip, prev)
  BY Clears
<1>3. LeasesOf(r.table) = kept
  BY <1>2, KeptAre
<1>4. r = [table |-> r.table, count |-> r.count]
  BY DEF Drop
<1> HIDE DEF r
<1> DEFINE t == r.table
<1>5. /\ TableOk(t) /\ Distinct(t) /\ Counted(t, r.count) /\ Finds(lookup, t)
      /\ \A j \in Taken(t) : ~InWay(t[j], id, ip, prev)
      /\ Cap(t) \in Nat \ {0} /\ DOMAIN t = 0 .. Cap(t) - 1 /\ cursor \in Nat
  BY <1>2, CapIs DEF Cleared, LeaseInv
<1>6. new \in Lease /\ new.id = id /\ new.ip = ip /\ new.prev = prev
  BY LeaseAssumption DEF Lease
<1> HIDE DEF new
<1>7. ASSUME NEW k \in FreeSlot(r), Store(r, k, new, lookup.ok, k + 1)
      PROVE  LeaseInv' /\ LeasesOf(slots') = kept \cup {new}
  <2>1. k \in DOMAIN t /\ k + 1 \in Nat /\ t[k] = FreeLease
    BY <1>5 DEF FreeSlot, Taken
  <2>2. MayStore(t, r.count, k, new, lookup.ok, k + 1)
    BY <1>5, <1>6, <2>1 DEF MayStore
  <2>3. LeaseInv' /\ Stored(t, k, new)
    BY <1>7, <2>2, StoreKeeps
  <2> QED
    BY <1>3, <2>1, <2>3 DEF Stored
<1>8. ASSUME full, NEW k \in Oldest(r), memory, MustGrow(t, k),
             Store([r EXCEPT !.table = Bigger(t)], Cap(t), new, FALSE, Cap(t) + 1)
      PROVE  LeaseInv' /\ LeasesOf(slots') = kept \cup {new}
  <2> DEFINE b == Bigger(t)
             q == [r EXCEPT !.table = b]
  <2>1. NewCap(t) > Cap(t)
    BY <1>8 DEF MustGrow
  <2>2. /\ TableOk(b) /\ Distinct(b) /\ Counted(b, r.count) /\ Cap(t) \in DOMAIN b
        /\ b[Cap(t)] = FreeLease /\ Taken(b) = Taken(t) /\ \A j \in Taken(t) : b[j] = t[j]
    BY <1>5, <2>1, BiggerIs
  <2>3. LeasesOf(b) = LeasesOf(t)
    BY <2>2 DEF LeasesOf
  <2>4. q.table = b /\ q.count = r.count
    BY <1>4
  <2>5. Store(q, Cap(t), new, FALSE, Cap(t) + 1)
    BY <1>8
  <2>6. \A j \in Taken(b) : ~InWay(b[j], id, ip, prev)
    BY <1>5, <2>2
  <2> HIDE DEF b, q, t
  <2>7. PICK no, at, next : no = FALSE /\ at = Cap(t) /\ next = Cap(t) + 1
    OBVIOUS
  <2>8. Store(q, at, new, no, next)
    BY Zenon, <2>5, <2>7
  <2>9. at \in DOMAIN b /\ next \in Nat /\ b[at] = FreeLease
    BY <1>5, <2>2, <2>7 DEF t
  <2>10. MayStore(q.table, q.count, at, new, no, next)
    BY <1>6, <2>2, <2>4, <2>6, <2>7, <2>9 DEF MayStore
  <2>11. LeaseInv' /\ Stored(q.table, at, new)
    BY <2>8, <2>10, StoreKeeps
  <2> QED
    BY <1>3, <2>3, <2>4, <2>9, <2>11 DEF t, Stored
<1>9. ASSUME full, NEW k \in Oldest(r), ~(memory /\ MustGrow(t, k)),
             Store(r, k, new, lookup.ok, cursor)
      PROVE  /\ LeaseInv' /\ t[k] \in kept /\ LeasesOf(slots') = (kept \ {t[k]}) \cup {new}
             /\ t[k].age >= LeaseMin \/ ~memory \/ Cardinality(kept) >= LeaseLimit
  <2>1. k \in Taken(t) /\ k \in DOMAIN t /\ t[k] # FreeLease /\ t[k] \in Lease
    BY <1>5, LeaseIs DEF Oldest
  <2>2. LeaseInv' /\ LeasesOf(slots') = (LeasesOf(t) \ {t[k]}) \cup {new}
    <3>1. MayStore(t, r.count, k, new, lookup.ok, cursor)
      BY <1>5, <1>6, <2>1 DEF MayStore
    <3> QED
      BY <1>9, <2>1, <3>1, StoreKeeps DEF Stored
  <2>3. t[k] \in LeasesOf(t)
    BY <2>1 DEF LeasesOf
  <2>4. CASE memory /\ t[k].age < LeaseMin
    <3>1. NewCap(t) <= Cap(t)
      BY <1>5, <1>9, <2>4, LeaseAssumption DEF MustGrow, NewCap
    <3>2. LeaseLimit <= Cap(t)
      BY <1>5, <3>1, LeaseAssumption DEF NewCap
    <3>3. Taken(t) = DOMAIN t
      BY <1>5, <1>9, NoneFree
    <3>4. Cardinality(LeasesOf(t)) = Cap(t)
      BY <1>5, <3>3, AsMany DEF Cap
    <3> QED
      BY <1>3, <1>5, <2>2, <2>3, <3>2, <3>4
  <2>5. t[k].age \in Nat /\ LeaseMin \in Nat
    BY <2>1, LeaseAssumption DEF Lease
  <2> QED
    BY <1>3, <2>2, <2>3, <2>4, <2>5
<1> QED
  BY <1>1, <1>7, <1>8, <1>9 DEF KeepsIn, new

\* server_handle_init(), server_handle_data(): the client has it again
LEMMA ReturnKeeps ==
    ASSUME LeaseInv, NEW id \in LeaseIds, NEW ip \in LeaseIps, NEW back \in BOOLEAN,
           LeaseReturn(id, ip, back)
    PROVE  /\ LeaseInv'
           /\ LeasesOf(slots') = LeasesOf(slots) \ {l \in LeasesOf(slots) : InWay(l, id, ip, ~back)}
<1> DEFINE gone == IF ~back THEN {} ELSE ById(slots, id)
           r1 == Drop([table |-> slots, count |-> used], gone)
           r == Drop(r1, ByIp(r1.table, ip))
<1>1. slots' = r.table /\ used' = r.count /\ UNCHANGED <<cursor, lookup>>
  <2>1. gone = IF back THEN ById(slots, id) ELSE {}
    OBVIOUS
  <2> HIDE DEF gone
  <2> QED
    BY <2>1 DEF LeaseReturn
<1>3. Cleared(slots, used, lookup, r, id, ip, ~back)
  BY Clears
<1> HIDE DEF r
<1>4. LeasesOf(r.table) = LeasesOf(slots) \ {l \in LeasesOf(slots) : InWay(l, id, ip, ~back)}
  BY <1>3, KeptAre
<1>5. LeaseInv'
  BY <1>1, <1>3 DEF Cleared, LeaseInv
<1> QED
  BY <1>1, <1>4, <1>5

Aged(l) == [l EXCEPT !.age = IF @ < LeaseMin THEN @ + 1 ELSE @]

\* Time passes for every lease alike.
LEMMA TickKeeps ==
    ASSUME LeaseInv, LeaseTick
    PROVE  LeaseInv' /\ LeasesOf(slots') = {Aged(l) : l \in LeasesOf(slots)}
<1>1. /\ TableOk(slots) /\ DOMAIN slots' = DOMAIN slots /\ UNCHANGED <<cursor, used, lookup>>
      /\ \A k \in DOMAIN slots :
            slots'[k] = IF slots[k] = FreeLease \/ slots[k].age = LeaseMin THEN slots[k]
                        ELSE [slots[k] EXCEPT !.age = @ + 1]
  BY DEF LeaseTick, LeaseInv
<1>2. ASSUME NEW l \in Lease
      PROVE  /\ Aged(l) = IF l.age = LeaseMin THEN l ELSE [l EXCEPT !.age = @ + 1]
             /\ Aged(l) \in Lease /\ Aged(l).ip = l.ip /\ Aged(l).id = l.id
             /\ Aged(l).prev = l.prev /\ Aged(l) # FreeLease
  <2>1. l.age \in 0 .. LeaseMin /\ LeaseMin \in Nat
    BY LeaseAssumption DEF Lease
  <2>2. CASE l.age = LeaseMin
    <3>1. Aged(l) = [l EXCEPT !.age = l.age]
      BY <2>1, <2>2 DEF Aged
    <3>2. [l EXCEPT !.age = l.age] = l
      BY DEF Lease
    <3>3. l # FreeLease
      BY LeaseAssumption DEF Lease, FreeLease
    <3> QED
      BY <2>2, <3>1, <3>2, <3>3
  <2>3. CASE l.age # LeaseMin
    <3>1. Aged(l) = [l EXCEPT !.age = @ + 1] /\ l.age + 1 \in 0 .. LeaseMin
      BY <2>1, <2>3 DEF Aged
    <3>2. /\ Aged(l) \in Lease /\ Aged(l).ip = l.ip /\ Aged(l).id = l.id
          /\ Aged(l).prev = l.prev
      BY <3>1 DEF Lease
    <3>3. Aged(l) # FreeLease
      BY <3>2, LeaseAssumption DEF Lease, FreeLease
    <3> QED
      BY <2>3, <3>1, <3>2, <3>3
  <2> QED
    BY <2>2, <2>3
<1>3. \A k \in Taken(slots) :
         /\ slots'[k] = Aged(slots[k]) /\ slots'[k] \in Lease /\ slots'[k] # FreeLease
         /\ slots'[k].ip = slots[k].ip /\ slots'[k].id = slots[k].id
         /\ slots'[k].prev = slots[k].prev
  <2> SUFFICES ASSUME NEW k \in Taken(slots)
               PROVE  /\ slots'[k] = Aged(slots[k]) /\ slots'[k] \in Lease /\ slots'[k] # FreeLease
                      /\ slots'[k].ip = slots[k].ip /\ slots'[k].id = slots[k].id
                      /\ slots'[k].prev = slots[k].prev
    OBVIOUS
  <2>1. k \in DOMAIN slots /\ slots[k] \in Lease /\ slots[k] # FreeLease
    BY <1>1, LeaseIs
  <2>2. slots'[k] = Aged(slots[k])
    BY <1>1, <1>2, <2>1
  <2> QED
    BY <1>2, <2>1, <2>2
<1>4. \A k \in DOMAIN slots \ Taken(slots) : slots'[k] = FreeLease
  BY <1>1 DEF Taken
<1> DEFINE t == slots'
<1>5. Taken(t) = Taken(slots)
  BY <1>1, <1>3, <1>4 DEF Taken
<1>6. TableOk(t)
  <2>1. \A k \in DOMAIN t : t[k] \in Slot
    BY <1>1, <1>3, <1>4 DEF Slot
  <2> QED
    BY <1>1, <2>1 DEF TableOk
<1>7. Distinct(t)
  BY <1>3, <1>5 DEF Distinct, LeaseInv
<1>8. Finds(lookup, t) /\ Counted(t, used)
  BY <1>3, <1>5 DEF Finds, Counted, LeaseInv
<1>9. LeasesOf(t) = {Aged(l) : l \in LeasesOf(slots)}
  BY <1>3, <1>5 DEF LeasesOf
<1> QED
  BY <1>1, <1>6, <1>7, <1>8, <1>9 DEF LeaseInv

\* A table that was just allocated has no lease.
LEMMA FirstTable == LeaseInit => LeaseInv /\ LeasesOf(slots) = {} /\ memory = TRUE
<1> SUFFICES ASSUME LeaseInit PROVE LeaseInv /\ LeasesOf(slots) = {} /\ memory = TRUE
  OBVIOUS
<1>1. FirstCap \in Nat \ {0} /\ DOMAIN slots = 0 .. FirstCap - 1
  BY LeaseAssumption DEF LeaseInit
<1>2. \A k \in DOMAIN slots : slots[k] = FreeLease
  BY DEF LeaseInit
<1>3. Taken(slots) = {}
  BY <1>2 DEF Taken
<1>4. TableOk(slots)
  BY <1>1, <1>2 DEF TableOk, Slot
<1>5. Counted(slots, used)
  BY <1>3, FS_EmptySet DEF Counted, LeaseInit
<1> QED
  BY <1>3, <1>4, <1>5 DEF LeaseInv, Distinct, Finds, LeasesOf, LeaseInit

----------------------------------------------------------------------------
\* Every step keeps the invariant and is a step of LeaseSet, or a stutter.
SetStep ==
    \/ /\ \E id \in LeaseIds, ip \in LeaseIps, b \in BOOLEAN :
             \/ KeepsIn([id |-> id, ip |-> ip, prev |-> b, age |-> 0], id, ip, b)
             \/ LeasesOf(slots') = LeasesOf(slots) \ {l \in LeasesOf(slots) : InWay(l, id, ip, ~b)}
       /\ memory' = memory
    \/ LeasesOf(slots') = {Aged(l) : l \in LeasesOf(slots)} /\ memory' = memory
    \/ LeasesOf(slots') = LeasesOf(slots) /\ memory' = ~memory
    \/ LeasesOf(slots') = LeasesOf(slots) /\ memory' = memory

\* Every step keeps the invariant and is one of LeaseSet or a stutter.
LEMMA LeaseStep ==
    ASSUME LeaseInv, [LeaseNext]_leaseVars
    PROVE  LeaseInv' /\ SetStep
<1>1. ASSUME NEW id \in LeaseIds, NEW ip \in LeaseIps, NEW b \in BOOLEAN, LeaseAdd(id, ip, b)
      PROVE  LeaseInv' /\ SetStep
  <2>1. memory' = memory
    BY <1>1 DEF LeaseAdd
  <2>2. LeaseInv' /\ KeepsIn([id |-> id, ip |-> ip, prev |-> b, age |-> 0], id, ip, b)
    BY <1>1, AddKeeps
  <2> QED
    BY <2>1, <2>2 DEF SetStep
<1>2. ASSUME NEW id \in LeaseIds, NEW ip \in LeaseIps, NEW b \in BOOLEAN, LeaseReturn(id, ip, b)
      PROVE  LeaseInv' /\ SetStep
  <2>1. memory' = memory
    BY <1>2 DEF LeaseReturn
  <2>2. /\ LeaseInv'
        /\ LeasesOf(slots') = LeasesOf(slots) \ {l \in LeasesOf(slots) : InWay(l, id, ip, ~b)}
    BY <1>2, ReturnKeeps
  <2> QED
    BY <2>1, <2>2 DEF SetStep
<1>3. CASE LeaseTick
  BY <1>3, TickKeeps DEF SetStep, LeaseTick
<1>4. CASE LeaseMemory
  BY <1>4 DEF LeaseMemory, LeaseInv, SetStep
<1>5. CASE UNCHANGED leaseVars
  BY <1>5 DEF leaseVars, LeaseInv, SetStep
<1> QED
  BY <1>1, <1>2, <1>3, <1>4, <1>5 DEF LeaseNext

\* Through growth, drops that leave stale pairs, crowding and failures of
\* memory, server_lease_by_ip() and server_lease_by_id() find what a scan of
\* the table would, and server_lease_used counts the leases there are.
THEOREM LeasesFound == LeaseSpec => []LeaseLookupExact
<1>1. LeaseInit => LeaseInv
  BY FirstTable
<1>2. LeaseInv /\ [LeaseNext]_leaseVars => LeaseInv'
  BY LeaseStep
<1>3. LeaseInv => LeaseLookupExact
  <2> SUFFICES ASSUME LeaseInv PROVE LeaseLookupExact
    OBVIOUS
  <2>1. TableOk(slots) /\ Distinct(slots) /\ Finds(lookup, slots) /\ Counted(slots, used)
    BY DEF LeaseInv
  <2>2. \A ip, id : /\ ByIp(slots, ip) = Lowermost(WithIp(slots, ip))
                    /\ ById(slots, id) = Lowermost(WithId(slots, id))
    BY <2>1, LookupFinds
  <2> QED
    BY <2>1, <2>2 DEF LeaseLookupExact, Counted
<1> QED
  BY <1>1, <1>2, <1>3, PTL DEF LeaseSpec

\* The slots, the cursor, growth and the indexes implement the set of leases
\* LeaseSet promises: server_lease_add() loses none but to a newer lease of
\* its client or address, for age, or where the table cannot grow.
THEOREM LeasesStay == LeaseSpec => LeasesKept
<1>1. LeaseInit => LeaseInv
  BY FirstTable
<1>2. LeaseInv /\ [LeaseNext]_leaseVars => LeaseInv'
  BY LeaseStep
<1>3. LeaseInit => Kept!LeaseSetInit
  BY FirstTable DEF Kept!LeaseSetInit, LeasesOf
<1>4. LeaseInv /\ [LeaseNext]_leaseVars => [Kept!LeaseSetNext]_(Kept!setVars)
  <2> SUFFICES ASSUME LeaseInv, [LeaseNext]_leaseVars PROVE [Kept!LeaseSetNext]_(Kept!setVars)
    OBVIOUS
  <2> DEFINE ls == LeasesOf(slots)
  <2>1. SetStep
    BY LeaseStep
  <2>2. ASSUME NEW id \in LeaseIds, NEW ip \in LeaseIps, NEW b \in BOOLEAN, memory' = memory,
               KeepsIn([id |-> id, ip |-> ip, prev |-> b, age |-> 0], id, ip, b)
        PROVE  Kept!Keep(id, ip, b)
    <3> DEFINE new == [id |-> id, ip |-> ip, prev |-> b, age |-> 0]
               kept == ls \ {l \in ls : InWay(l, id, ip, b)}
    <3>1. kept = ls \ Kept!Replaced(id, ip, b)
      BY DEF Kept!Replaced, LeasesOf, InWay
    <3>2. \/ LeasesOf(slots') = kept \cup {new}
          \/ \E l \in Kept!Spare(kept) : LeasesOf(slots') = (kept \ {l}) \cup {new}
      <4>1. \/ LeasesOf(slots') = kept \cup {new}
            \/ \E l \in kept : /\ \/ l.age >= LeaseMin
                                  \/ ~memory
                                  \/ Cardinality(kept) >= LeaseLimit
                               /\ LeasesOf(slots') = (kept \ {l}) \cup {new}
        BY Zenon, <2>2 DEF KeepsIn
      <4> HIDE DEF kept, new
      <4>2. CASE LeasesOf(slots') = kept \cup {new}
        BY <4>2
      <4>3. ASSUME NEW l \in kept,
                   l.age >= LeaseMin \/ ~memory \/ Cardinality(kept) >= LeaseLimit,
                   LeasesOf(slots') = (kept \ {l}) \cup {new}
            PROVE  l \in Kept!Spare(kept)
        <5>1. Kept!Cardinality(kept) = Cardinality(kept)
          BY DEF Kept!Cardinality, Cardinality
        <5> QED
          BY <4>3, <5>1 DEF Kept!Spare
      <4> QED
        BY <4>1, <4>2, <4>3
    <3> HIDE DEF kept, new
    <3>3. \/ LeasesOf(slots') = (ls \ Kept!Replaced(id, ip, b)) \cup {new}
          \/ \E l \in Kept!Spare(ls \ Kept!Replaced(id, ip, b)) :
                LeasesOf(slots') = ((ls \ Kept!Replaced(id, ip, b)) \ {l}) \cup {new}
      BY <3>1, <3>2
    <3> QED
      BY Zenon, <2>2, <3>3 DEF LeasesOf, Kept!Keep, new
  <2>3. ASSUME NEW id \in LeaseIds, NEW ip \in LeaseIps, NEW b \in BOOLEAN, memory' = memory,
               LeasesOf(slots') = ls \ {l \in ls : InWay(l, id, ip, ~b)}
        PROVE  Kept!Return(id, ip, b)
    BY <2>3 DEF InWay, LeasesOf, Kept!Return, Kept!Replaced
  <2>4. ASSUME LeasesOf(slots') = {Aged(l) : l \in ls}, memory' = memory
        PROVE  Kept!Age
    BY <2>4 DEF Aged, LeasesOf, Kept!Age
  <2>5. ASSUME LeasesOf(slots') = ls, memory' = ~memory
        PROVE  Kept!Memory
    BY <2>5 DEF LeasesOf, Kept!Memory
  <2>6. ASSUME LeasesOf(slots') = ls, memory' = memory
        PROVE  UNCHANGED Kept!setVars
    BY <2>6 DEF LeasesOf, Kept!setVars
  <2> QED
    BY <2>1, <2>2, <2>3, <2>4, <2>5, <2>6 DEF SetStep, Kept!LeaseSetNext
<1> QED
  BY <1>1, <1>2, <1>3, <1>4, PTL DEF LeaseSpec, LeasesKept, Kept!LeaseSetSpec

----------------------------------------------------------------------------
(* The hash index: every pair is on the path a search for its hash takes,  *)
(* with no free bucket before it.                                          *)

Buckets == {EmptyBucket} \cup (Hashes \X IdxSlots)
TabOk(x) == \E n \in Nat : DOMAIN x = 0 .. n - 1 /\ \A i \in DOMAIN x : x[i] \in Buckets
HasFree(x) == \E i \in DOMAIN x : x[i] = EmptyBucket
OnPath(x, h, i) == \E k \in DOMAIN x : /\ At(x, h, k) = i
                                       /\ \A j \in 0 .. k - 1 : x[At(x, h, j)] # EmptyBucket
Reach(x) == \A i \in DOMAIN x : x[i] # EmptyBucket => OnPath(x, x[i][1], i)
PairsOf(x) == {x[i] : i \in DOMAIN x} \ {EmptyBucket}

\* A table has its buckets from 0, and a free one unless all are used.
LEMMA SizeIs ==
    ASSUME NEW x, TabOk(x)
    PROVE  /\ Size(x) \in Nat /\ DOMAIN x = 0 .. Size(x) - 1 /\ IsFiniteSet(DOMAIN x)
           /\ Used(x) \in Nat /\ Used(x) <= Size(x)
           /\ Used(x) < Size(x) => HasFree(x)
<1>1. PICK n \in Nat : DOMAIN x = 0 .. n - 1
  BY DEF TabOk
<1>2. IsFiniteSet(0 .. n - 1) /\ Cardinality(0 .. n - 1) = n
  BY FS_Interval
<1> DEFINE taken == {i \in DOMAIN x : x[i] # EmptyBucket}
<1>3. IsFiniteSet(taken) /\ Cardinality(taken) <= Cardinality(DOMAIN x)
  BY <1>1, <1>2, FS_Subset
<1>4. Cardinality(taken) \in Nat
  BY <1>3, FS_CardinalityType
<1>5. ~HasFree(x) => taken = DOMAIN x
  BY DEF HasFree
<1>6. Used(x) = Cardinality(taken)
  BY DEF Used
<1> HIDE DEF taken
<1>7. Size(x) = n /\ Used(x) \in Nat /\ Used(x) <= Size(x)
  BY <1>1, <1>2, <1>3, <1>4, <1>6 DEF Size
<1>8. ~HasFree(x) => Used(x) = Size(x)
  BY <1>5, <1>6 DEF Size
<1> QED
  BY <1>1, <1>2, <1>7, <1>8

\* A used bucket has a pair
LEMMA BucketIs ==
    ASSUME NEW b \in Buckets, b # EmptyBucket
    PROVE  b[1] \in Hashes /\ b[2] \in IdxSlots /\ b = <<b[1], b[2]>>
BY DEF Buckets

\* ... and a pair is not what marks a free one.
LEMMA PairIs ==
    ASSUME NEW h \in Hashes, NEW s \in IdxSlots
    PROVE  /\ <<h, s>> \in Buckets /\ <<h, s>> # EmptyBucket
           /\ <<h, s>>[1] = h /\ <<h, s>>[2] = s /\ h \in Nat
BY IdxAssumption DEF Buckets, EmptyBucket

\* Probing visits every bucket.
LEMMA Round ==
    ASSUME NEW n \in Nat \ {0}, NEW h \in Nat, NEW e \in 0 .. n - 1
    PROVE  \E k \in 0 .. n - 1 : (h + k) % n = e
<1> DEFINE q == h \div n
           r == h % n
<1>1. h = q * n + r /\ q \in Nat /\ r \in 0 .. n - 1
  OBVIOUS
<1>2. ASSUME NEW a \in Nat, NEW p \in Nat, a = p * n + e PROVE a % n = e
  BY <1>2
<1> HIDE DEF q, r
<1>3. CASE e >= r
  <2>1. e - r \in 0 .. n - 1 /\ h + (e - r) \in Nat /\ h + (e - r) = q * n + e
    BY <1>1, <1>3
  <2> QED
    BY <1>1, <1>2, <2>1
<1>4. CASE e < r
  <2>1. (q + 1) * n = q * n + n
    BY <1>1
  <2>2. e + n - r \in 0 .. n - 1 /\ h + (e + n - r) \in Nat /\ h + (e + n - r) = (q + 1) * n + e
    BY <1>1, <1>4, <2>1
  <2>3. q + 1 \in Nat
    BY <1>1
  <2> QED
    BY <1>2, <2>2, <2>3
<1> QED
  BY <1>1, <1>3, <1>4

\* Where probing is: in the table
LEMMA AtIs ==
    ASSUME NEW x, TabOk(x), DOMAIN x # {}, NEW h \in Nat, NEW k \in Nat
    PROVE  At(x, h, k) \in DOMAIN x
<1>1. Size(x) \in Nat \ {0} /\ DOMAIN x = 0 .. Size(x) - 1
  BY SizeIs
<1> QED
  BY <1>1 DEF At

\* A search ends, at the first free bucket.
LEMMA LengthIs ==
    ASSUME NEW x, TabOk(x), HasFree(x), NEW h \in Nat
    PROVE  /\ Length(x, h) \in DOMAIN x /\ x[At(x, h, Length(x, h))] = EmptyBucket
           /\ \A j \in 0 .. Length(x, h) - 1 : x[At(x, h, j)] # EmptyBucket
<1>1. Size(x) \in Nat \ {0} /\ DOMAIN x = 0 .. Size(x) - 1
  BY SizeIs DEF HasFree
<1> DEFINE free == {k \in DOMAIN x : x[At(x, h, k)] = EmptyBucket}
<1>2. PICK e \in DOMAIN x : x[e] = EmptyBucket
  BY DEF HasFree
<1>3. PICK d \in 0 .. Size(x) - 1 : (h + d) % Size(x) = e
  BY <1>1, <1>2, Round
<1>4. free # {} /\ free \subseteq Nat
  BY <1>1, <1>2, <1>3 DEF At
<1>5. PICK k \in free : \A j \in free : k <= j
  <2> HIDE DEF free
  <2> QED
    BY <1>4, Least
<1>6. \A j \in 0 .. k - 1 : j \in DOMAIN x /\ j \notin free
  BY <1>1, <1>4, <1>5
<1>7. /\ k \in DOMAIN x /\ x[At(x, h, k)] = EmptyBucket
      /\ \A j \in 0 .. k - 1 : x[At(x, h, j)] # EmptyBucket
  BY <1>5, <1>6
<1> QED
  BY <1>7 DEF Length

\* What it looks at: the taken buckets on the path of the hash
LEMMA ProbedAre ==
    ASSUME NEW x, TabOk(x), HasFree(x), NEW h \in Nat
    PROVE  Probed(x, h) = {i \in DOMAIN x : x[i] # EmptyBucket /\ OnPath(x, h, i)}
<1> DEFINE len == Length(x, h)
<1>1. /\ len \in DOMAIN x /\ x[At(x, h, len)] = EmptyBucket
      /\ \A j \in 0 .. len - 1 : x[At(x, h, j)] # EmptyBucket
  BY LengthIs
<1>2. Size(x) \in Nat \ {0} /\ DOMAIN x = 0 .. Size(x) - 1 /\ DOMAIN x # {}
  BY SizeIs DEF HasFree
<1> HIDE DEF len
<1>3. ASSUME NEW k \in 0 .. len - 1
      PROVE  /\ At(x, h, k) \in DOMAIN x /\ x[At(x, h, k)] # EmptyBucket
             /\ OnPath(x, h, At(x, h, k))
  <2>1. k \in DOMAIN x /\ k \in Nat /\ \A j \in 0 .. k - 1 : j \in 0 .. len - 1
    BY <1>1, <1>2
  <2> QED
    BY <1>1, <1>2, <2>1, AtIs DEF OnPath
<1>4. ASSUME NEW i \in DOMAIN x, x[i] # EmptyBucket, OnPath(x, h, i)
      PROVE  i \in Probed(x, h)
  <2>1. PICK k \in DOMAIN x : /\ At(x, h, k) = i
                              /\ \A j \in 0 .. k - 1 : x[At(x, h, j)] # EmptyBucket
    BY <1>4 DEF OnPath
  <2>2. k # len
    BY <1>1, <1>4, <2>1
  <2>3. len \notin 0 .. k - 1
    BY <1>1, <2>1
  <2>4. k \in 0 .. len - 1
    BY <1>1, <1>2, <2>2, <2>3
  <2> QED
    BY <2>1, <2>4 DEF Probed, len
<1> QED
  BY <1>3, <1>4 DEF Probed, len

----------------------------------------------------------------------------
\* put() adds the pair, in reach, and takes one bucket at most.
PutOk(x, h, s, y) ==
    /\ TabOk(y) /\ DOMAIN y = DOMAIN x /\ Reach(y)
    /\ PairsOf(y) = PairsOf(x) \cup {<<h, s>>} /\ Used(y) <= Used(x) + 1

\* slotidx_put(): the pair takes the free bucket its search ends at, which is
\* on no other path but at its end.
LEMMA PutIs ==
    ASSUME NEW x, TabOk(x), HasFree(x), Reach(x), NEW h \in Hashes, NEW s \in IdxSlots
    PROVE  PutOk(x, h, s, Put(x, h, s))
<1>1. /\ <<h, s>> \in Buckets /\ <<h, s>> # EmptyBucket
      /\ <<h, s>>[1] = h /\ h \in Nat
  BY PairIs
<1>2. CASE \E i \in Probed(x, h) : x[i] = <<h, s>>
  <2>1. PICK i \in DOMAIN x : x[i] = <<h, s>>
    BY <1>1, <1>2, ProbedAre
  <2>2. PairsOf(x) = PairsOf(x) \cup {<<h, s>>}
    BY <1>1, <2>1 DEF PairsOf
  <2>3. Used(x) <= Used(x) + 1
    BY SizeIs
  <2>4. Put(x, h, s) = x
    BY <1>2 DEF Put
  <2> QED
    BY <2>2, <2>3, <2>4 DEF PutOk
<1>3. CASE ~\E i \in Probed(x, h) : x[i] = <<h, s>>
  <2> DEFINE len == Length(x, h)
             e == At(x, h, len)
             y == [x EXCEPT ![e] = <<h, s>>]
  <2>1. /\ len \in DOMAIN x /\ x[e] = EmptyBucket
        /\ \A j \in 0 .. len - 1 : x[At(x, h, j)] # EmptyBucket
    BY <1>1, LengthIs
  <2>2. Put(x, h, s) = y
    BY <1>3 DEF Put
  <2>3. Size(x) \in Nat /\ DOMAIN x = 0 .. Size(x) - 1 /\ DOMAIN x # {} /\ len \in Nat
    BY <2>1, SizeIs
  <2>4. e \in DOMAIN x
    <3> HIDE DEF len
    <3> QED
      BY <1>1, <2>3, AtIs
  <2> HIDE DEF len, e
  <2>5. /\ DOMAIN y = DOMAIN x /\ y[e] = <<h, s>>
        /\ \A i \in DOMAIN x \ {e} : y[i] = x[i]
    BY <2>4
  <2> HIDE DEF y
  <2>6. TabOk(y)
    BY <1>1, <2>5 DEF TabOk
  <2>7. \A g, k : At(y, g, k) = At(x, g, k)
    BY <2>5 DEF At, Size
  <2>8. \A i \in DOMAIN x : x[i] # EmptyBucket => y[i] # EmptyBucket
    BY <1>1, <2>5
  <2>9. Reach(y)
    <3> SUFFICES ASSUME NEW i \in DOMAIN y, y[i] # EmptyBucket PROVE OnPath(y, y[i][1], i)
      BY DEF Reach
    <3>1. PICK g, k : /\ g = y[i][1] /\ g \in Nat /\ k \in DOMAIN x /\ At(x, g, k) = i
                      /\ \A j \in 0 .. k - 1 : x[At(x, g, j)] # EmptyBucket
      <4>1. CASE i = e
        BY <1>1, <2>1, <2>5, <4>1 DEF e
      <4>2. CASE i # e
        <5>1. x[i] # EmptyBucket /\ y[i] = x[i] /\ i \in DOMAIN x
          BY <2>5, <4>2
        <5>2. x[i][1] \in Nat
          BY <5>1, BucketIs, IdxAssumption DEF TabOk
        <5> QED
          BY <5>1, <5>2 DEF Reach, OnPath
      <4> QED
        BY <4>1, <4>2
    <3>2. ASSUME NEW j \in 0 .. k - 1 PROVE At(x, g, j) \in DOMAIN x
      <4>1. j \in Nat
        BY <2>3, <3>1
      <4> QED
        BY <2>3, <3>1, <4>1, AtIs
    <3>3. \A j \in 0 .. k - 1 : y[At(y, g, j)] # EmptyBucket
      BY <2>7, <2>8, <3>1, <3>2
    <3> QED
      BY <2>5, <2>7, <3>1, <3>3 DEF OnPath
  <2>10. PairsOf(y) = PairsOf(x) \cup {<<h, s>>}
    BY <1>1, <2>1, <2>4, <2>5 DEF PairsOf, e
  <2>11. Used(y) <= Used(x) + 1
    <3> DEFINE taken == {i \in DOMAIN x : x[i] # EmptyBucket}
    <3>1. {i \in DOMAIN y : y[i] # EmptyBucket} = taken \cup {e}
      BY <1>1, <2>4, <2>5
    <3>2. IsFiniteSet(taken) /\ Cardinality(taken) \in Nat
      BY SizeIs, FS_Subset, FS_CardinalityType
    <3>3. Cardinality(taken \cup {e}) <= Cardinality(taken) + 1
      <4> HIDE DEF taken
      <4>1. Cardinality(taken \cup {e}) = IF e \in taken THEN Cardinality(taken)
                                          ELSE Cardinality(taken) + 1
        BY <3>2, FS_AddElement
      <4> QED
        BY <3>2, <4>1
    <3> QED
      BY <3>1, <3>3 DEF Used
  <2> QED
    BY <2>2, <2>5, <2>6, <2>9, <2>10, <2>11 DEF PutOk
<1> QED
  BY <1>2, <1>3

----------------------------------------------------------------------------
\* The tables on the way to one twice as big: f[i] has the first i buckets
PutNext(x, q, i) == IF x[i - 1] = EmptyBucket THEN q ELSE Put(q, x[i - 1][1], x[i - 1][2])
Builds(x, f, m) == f = [i \in 0 .. m |-> IF i = 0 THEN Blank(2 * Size(x)) ELSE PutNext(x, f[i - 1], i)]

\* The tables a growth goes through, one a bucket of the old one, exist: a
\* least bucket up to which they do not has one before it up to which they do.
LEMMA BuildsOne == ASSUME NEW x, NEW m \in Nat PROVE \E f : Builds(x, f, m)
<1> DEFINE none == {k \in Nat : ~\E f : Builds(x, f, k)}
<1> SUFFICES ASSUME m \in none PROVE FALSE
  OBVIOUS
<1>1. PICK k \in none : \A j \in none : k <= j
  <2>1. none \subseteq Nat /\ none # {}
    OBVIOUS
  <2> HIDE DEF none
  <2> QED
    BY <2>1, Least
<1>2. CASE k = 0
  <2> DEFINE f == [i \in 0 .. 0 |-> Blank(2 * Size(x))]
  <2>1. f = [i \in 0 .. 0 |-> IF i = 0 THEN Blank(2 * Size(x)) ELSE PutNext(x, f[i - 1], i)]
    OBVIOUS
  <2> HIDE DEF f
  <2>2. Builds(x, f, 0)
    BY <2>1 DEF Builds
  <2> QED
    BY <1>1, <1>2, <2>2
<1>3. CASE k # 0
  <2>1. k - 1 \in Nat /\ k - 1 \notin none
    BY <1>1, <1>3
  <2>2. PICK f : Builds(x, f, k - 1)
    BY <2>1
  <2> DEFINE g == [i \in 0 .. k |-> IF i = k THEN PutNext(x, f[k - 1], k) ELSE f[i]]
  <2>3. \A i \in 0 .. k : g[i] = IF i = k THEN PutNext(x, f[k - 1], k) ELSE f[i]
    OBVIOUS
  <2>4. \A i \in 0 .. k - 1 : f[i] = IF i = 0 THEN Blank(2 * Size(x)) ELSE PutNext(x, f[i - 1], i)
    BY <2>2 DEF Builds
  <2>5. ASSUME NEW i \in 0 .. k
        PROVE  g[i] = IF i = 0 THEN Blank(2 * Size(x)) ELSE PutNext(x, g[i - 1], i)
    <3> HIDE DEF g
    <3>1. CASE i = 0
      BY <1>1, <1>3, <2>3, <2>4, <3>1
    <3>2. CASE i # 0
      <4>1. i - 1 \in 0 .. k /\ i - 1 # k /\ i - 1 \in 0 .. k - 1
        BY <1>1, <3>2
      <4>2. g[i - 1] = f[i - 1]
        BY <2>3, <4>1
      <4>3. CASE i = k
        BY <2>3, <3>2, <4>2, <4>3
      <4>4. CASE i # k
        <5>1. i \in 0 .. k - 1
          BY <1>1, <4>4
        <5> QED
          BY <2>3, <2>4, <3>2, <4>2, <4>4, <5>1
      <4> QED
        BY <4>3, <4>4
    <3> QED
      BY <3>1, <3>2
  <2>6. g = [i \in 0 .. k |-> g[i]]
    OBVIOUS
  <2> HIDE DEF g
  <2>7. Builds(x, g, k)
    BY <2>5, <2>6 DEF Builds
  <2> QED
    BY <1>1, <2>7
<1> QED
  BY <1>2, <1>3

\* slotidx_grow() gives the last of them.
LEMMA GrownBuilds ==
    ASSUME NEW x, TabOk(x) PROVE \E f : Builds(x, f, Size(x)) /\ Grown(x) = f[Size(x)]
<1> DEFINE put == CHOOSE f : Builds(x, f, Size(x))
<1>1. Builds(x, put, Size(x))
  BY SizeIs, BuildsOne
<1>2. Grown(x) = put[Size(x)]
  BY DEF Grown, Builds, PutNext
<1> QED
  BY <1>1, <1>2

\* An empty table
LEMMA BlankIs ==
    ASSUME NEW n \in Nat
    PROVE  /\ TabOk(Blank(n)) /\ DOMAIN Blank(n) = 0 .. n - 1 /\ Reach(Blank(n))
           /\ PairsOf(Blank(n)) = {} /\ Used(Blank(n)) = 0
<1>1. DOMAIN Blank(n) = 0 .. n - 1 /\ \A i \in 0 .. n - 1 : Blank(n)[i] = EmptyBucket
  BY DEF Blank
<1>2. {i \in DOMAIN Blank(n) : Blank(n)[i] # EmptyBucket} = {}
  BY <1>1
<1>3. Used(Blank(n)) = 0
  BY <1>2, FS_EmptySet DEF Used
<1> QED
  BY <1>1, <1>3 DEF TabOk, Reach, PairsOf, Buckets

\* What the first i buckets of x are put into
Holds(x, q, i) ==
    /\ TabOk(q) /\ DOMAIN q = 0 .. 2 * Size(x) - 1 /\ Reach(q)
    /\ PairsOf(q) = {x[j] : j \in 0 .. i - 1} \ {EmptyBucket}
    /\ Used(q) <= Cardinality({j \in 0 .. i - 1 : x[j] # EmptyBucket})

\* Each of them holds the pairs of the buckets that were gone through.
LEMMA NextHolds ==
    ASSUME NEW x, TabOk(x), NEW i \in 1 .. Size(x), NEW q, Holds(x, q, i - 1)
    PROVE  Holds(x, PutNext(x, q, i), i)
<1>1. /\ Size(x) \in Nat /\ DOMAIN x = 0 .. Size(x) - 1 /\ i - 1 \in DOMAIN x /\ i - 1 \in Nat
      /\ i \in Nat /\ \A j : j \in 0 .. i - 1 <=> j \in 0 .. (i - 1) - 1 \/ j = i - 1
  BY SizeIs
<1> DEFINE before == {j \in 0 .. (i - 1) - 1 : x[j] # EmptyBucket}
           upto == {j \in 0 .. i - 1 : x[j] # EmptyBucket}
<1>2. IsFiniteSet(before) /\ Cardinality(before) \in Nat /\ Cardinality(before) <= i - 1
  <2>1. IsFiniteSet(0 .. (i - 1) - 1) /\ Cardinality(0 .. (i - 1) - 1) = i - 1
    <3>1. PICK b \in Int : b = (i - 1) - 1
      BY <1>1
    <3>2. IsFiniteSet(0 .. b) /\ Cardinality(0 .. b) = IF 0 > b THEN 0 ELSE b - 0 + 1
      BY <3>1, FS_Interval
    <3>3. (IF 0 > b THEN 0 ELSE b - 0 + 1) = i - 1
      BY <1>1, <3>1
    <3> QED
      BY <3>1, <3>2, <3>3
  <2> QED
    BY <2>1, FS_Subset, FS_CardinalityType
<1>3. CASE x[i - 1] = EmptyBucket
  <2>1. upto = before
    BY <1>1, <1>3
  <2>2. {x[j] : j \in 0 .. i - 1} \ {EmptyBucket} = {x[j] : j \in 0 .. (i - 1) - 1} \ {EmptyBucket}
    BY <1>1, <1>3
  <2>3. PutNext(x, q, i) = q
    BY <1>3 DEF PutNext
  <2> QED
    BY <2>1, <2>2, <2>3 DEF Holds
<1>4. CASE x[i - 1] # EmptyBucket
  <2>1. PICK b : b = x[i - 1]
    OBVIOUS
  <2>2. b[1] \in Hashes /\ b[2] \in IdxSlots /\ b = <<b[1], b[2]>>
    BY <1>1, <1>4, <2>1, BucketIs DEF TabOk
  <2>3. Size(q) = 2 * Size(x) /\ Used(q) < Size(q) /\ Used(q) \in Nat
    <3>1. Size(q) \in Nat /\ DOMAIN q = 0 .. Size(q) - 1 /\ Used(q) \in Nat
      BY SizeIs DEF Holds
    <3>2. Size(q) = 2 * Size(x)
      <4>1. Cardinality(0 .. 2 * Size(x) - 1) = 2 * Size(x)
        BY <1>1, FS_Interval
      <4> QED
        BY <4>1 DEF Holds, Size
    <3>3. Used(q) <= Cardinality(before)
      BY DEF Holds
    <3> QED
      BY <1>1, <1>2, <3>1, <3>2, <3>3
  <2>4. HasFree(q)
    BY <2>3, SizeIs DEF Holds
  <2>5. PICK y : y = Put(q, b[1], b[2])
    OBVIOUS
  <2>6. PutOk(q, b[1], b[2], y)
    BY <2>2, <2>4, <2>5, PutIs DEF Holds
  <2>7. PutNext(x, q, i) = y
    BY <1>4, <2>1, <2>5 DEF PutNext
  <2>8. PairsOf(y) = {x[j] : j \in 0 .. i - 1} \ {EmptyBucket}
    <3>1. PairsOf(y) = PairsOf(q) \cup {b}
      BY <2>2, <2>6 DEF PutOk
    <3>2. PairsOf(q) = {x[j] : j \in 0 .. (i - 1) - 1} \ {EmptyBucket}
      BY DEF Holds
    <3> QED
      BY <1>1, <1>4, <2>1, <3>1, <3>2
  <2>9. Used(y) <= Cardinality(upto)
    <3>1. upto = before \cup {i - 1} /\ i - 1 \notin before
      BY <1>1, <1>4
    <3>2. Cardinality(upto) = Cardinality(before) + 1
      <4> HIDE DEF before, upto
      <4> QED
        BY <1>2, <3>1, FS_AddElement
    <3>3. Used(q) <= Cardinality(before) /\ Used(q) \in Nat /\ Used(y) <= Used(q) + 1
      BY <2>3, <2>6 DEF Holds, PutOk
    <3>4. Used(y) \in Nat
      BY <2>6, SizeIs DEF PutOk
    <3> HIDE DEF before, upto
    <3> QED
      BY <1>2, <3>2, <3>3, <3>4
  <2> QED
    BY <2>6, <2>7, <2>8, <2>9 DEF Holds, PutOk
<1> QED
  BY <1>3, <1>4

\* grow(): every pair is in reach again, and no more buckets are taken.
LEMMA GrownIs ==
    ASSUME NEW x, TabOk(x)
    PROVE  Holds(x, Grown(x), Size(x))
<1>1. Size(x) \in Nat
  BY SizeIs
<1>2. PICK f : Builds(x, f, Size(x)) /\ Grown(x) = f[Size(x)]
  BY GrownBuilds
<1>3. /\ f[0] = Blank(2 * Size(x))
      /\ \A i \in 1 .. Size(x) : f[i] = PutNext(x, f[i - 1], i)
  BY <1>1, <1>2 DEF Builds
<1> DEFINE bad == {i \in 0 .. Size(x) : ~Holds(x, f[i], i)}
<1>4. ASSUME bad # {} PROVE FALSE
  <2>1. PICK i \in bad : \A j \in bad : i <= j
    <3>1. bad \subseteq Nat
      BY <1>1
    <3> HIDE DEF bad
    <3> QED
      BY <1>4, <3>1, Least
  <2>2. CASE i = 0
    <3>1. 2 * Size(x) \in Nat
      BY <1>1
    <3>2. {j \in 0 .. 0 - 1 : x[j] # EmptyBucket} = {} /\ {x[j] : j \in 0 .. 0 - 1} = {}
      OBVIOUS
    <3>3. Cardinality({}) = 0
      BY FS_EmptySet
    <3> QED
      BY <1>3, <2>1, <2>2, <3>1, <3>2, <3>3, BlankIs DEF Holds
  <2>3. CASE i # 0
    <3>1. i \in 1 .. Size(x) /\ i - 1 \in 0 .. Size(x) /\ i - 1 < i
      BY <1>1, <2>1, <2>3
    <3>2. i - 1 \notin bad
      BY <1>1, <2>1, <3>1
    <3>3. Holds(x, f[i - 1], i - 1)
      BY <3>1, <3>2
    <3> QED
      BY <1>3, <2>1, <3>1, <3>3, NextHolds
  <2> QED
    BY <2>2, <2>3
<1> QED
  BY <1>1, <1>2, <1>4

----------------------------------------------------------------------------
\* buckets_for(): the sizes up to a bound from which all is as it defines it
Doubles(f, many, n) == f[n] = IF n >= 2 * many THEN n ELSE f[2 * n]

\* The doubling of slotidx_reset() has a result for every size to start with:
\* from some size on it does, and so from the least such size on.
LEMMA DoublesOne ==
    ASSUME NEW many \in Nat
    PROVE  \E f : f = [n \in Nat |-> IF n >= 2 * many THEN n ELSE f[2 * n]]
<1> DEFINE from(f, m) == \A n \in Nat : n >= m => Doubles(f, many, n)
           some == {m \in Nat : \E f \in [Nat -> Nat] : from(f, m)}
<1>1. 2 * many \in some
  <2> DEFINE f == [n \in Nat |-> n]
  <2>1. f \in [Nat -> Nat] /\ \A n \in Nat : f[n] = n
    OBVIOUS
  <2> HIDE DEF f
  <2>2. from(f, 2 * many)
    BY <2>1 DEF Doubles
  <2> QED
    BY <2>1, <2>2
<1>2. PICK m \in some : \A k \in some : m <= k
  <2>1. some # {} /\ some \subseteq Nat
    BY <1>1
  <2> HIDE DEF some
  <2> QED
    BY <2>1, Least
<1>3. PICK f \in [Nat -> Nat] : from(f, m)
  BY <1>2
<1>4. ASSUME m # 0 PROVE FALSE
  <2>1. m - 1 \in Nat /\ m \in Nat
    BY <1>2, <1>4
  <2> DEFINE v == IF m - 1 >= 2 * many THEN m - 1 ELSE f[2 * (m - 1)]
             g == [f EXCEPT ![m - 1] = v]
  <2>2. g \in [Nat -> Nat] /\ g[m - 1] = v /\ \A n \in Nat \ {m - 1} : g[n] = f[n]
    BY <2>1
  <2> HIDE DEF g
  <2>3. ASSUME NEW n \in Nat, n >= m - 1 PROVE Doubles(g, many, n)
    <3>1. CASE n = m - 1
      <4>1. CASE n = 0
        BY <2>2, <3>1, <4>1 DEF Doubles
      <4>2. CASE n # 0
        <5>1. g[2 * n] = f[2 * n]
          BY <2>1, <2>2, <3>1, <4>2
        <5> QED
          BY <2>2, <3>1, <5>1 DEF Doubles
      <4> QED
        BY <4>1, <4>2
    <3>2. CASE n # m - 1
      <4>1. n >= m /\ 2 * n \in Nat /\ 2 * n # m - 1
        BY <2>1, <2>3, <3>2
      <4>2. g[n] = f[n] /\ g[2 * n] = f[2 * n]
        BY <2>2, <3>2, <4>1
      <4> QED
        BY <1>3, <4>1, <4>2 DEF Doubles
    <3> QED
      BY <3>1, <3>2
  <2>4. m - 1 \in some
    BY <2>1, <2>2, <2>3
  <2>5. m <= m - 1
    <3> HIDE DEF some
    <3> QED
      BY <1>2, <2>4
  <2> QED
    BY <2>1, <2>5
<1>5. \A n \in Nat : f[n] = IF n >= 2 * many THEN n ELSE f[2 * n]
  BY <1>2, <1>3, <1>4 DEF Doubles
<1>6. f = [n \in Nat |-> IF n >= 2 * many THEN n ELSE f[2 * n]]
  <2>1. f = [n \in Nat |-> f[n]]
    OBVIOUS
  <2> QED
    BY <1>5, <2>1
<1> QED
  BY <1>6

\* It is MinBuckets at least.
LEMMA BucketsAre ==
    ASSUME NEW many \in Nat
    PROVE  BucketsFor(many) \in Nat /\ BucketsFor(many) >= 2
<1> DEFINE size == CHOOSE f : f = [n \in Nat |-> IF n >= 2 * many THEN n ELSE f[2 * n]]
<1>1. size = [n \in Nat |-> IF n >= 2 * many THEN n ELSE size[2 * n]]
  BY DoublesOne
<1>2. BucketsFor(many) = size[MinBuckets]
  BY DEF BucketsFor
<1> HIDE DEF size
<1>3. \A n \in Nat : size[n] = IF n >= 2 * many THEN n ELSE size[2 * n]
  BY <1>1
<1> DEFINE bad == {d \in Nat : \E n \in Nat : n >= 2 /\ n + d = 2 * many
                                             /\ ~(size[n] \in Nat /\ size[n] >= 2)}
<1>4. ASSUME bad # {} PROVE FALSE
  <2>1. PICK d \in bad : \A e \in bad : d <= e
    <3>1. bad \subseteq Nat
      OBVIOUS
    <3> HIDE DEF bad
    <3> QED
      BY <1>4, <3>1, Least
  <2>2. PICK n \in Nat : n >= 2 /\ n + d = 2 * many /\ ~(size[n] \in Nat /\ size[n] >= 2)
    BY <2>1
  <2>3. n < 2 * many /\ size[n] = size[2 * n]
    BY <1>3, <2>2
  <2>4. CASE 2 * n >= 2 * many
    BY <1>3, <2>2, <2>3, <2>4
  <2>5. CASE 2 * n < 2 * many
    <3>1. PICK e : e = 2 * many - 2 * n
      OBVIOUS
    <3>2. e \in Nat /\ 2 * n + e = 2 * many /\ e < d
      BY <2>1, <2>2, <2>5, <3>1
    <3>3. e \in bad
      BY <2>2, <2>3, <3>2
    <3> QED
      BY <2>1, <3>2, <3>3
  <2> QED
    BY <2>4, <2>5
<1>5. ASSUME NEW n \in Nat, n >= 2 PROVE size[n] \in Nat /\ size[n] >= 2
  <2>1. CASE n >= 2 * many
    BY <1>3, <1>5, <2>1
  <2>2. CASE n < 2 * many
    <3>1. PICK d : d = 2 * many - n
      OBVIOUS
    <3>2. d \in Nat /\ n + d = 2 * many
      BY <2>2, <3>1
    <3> QED
      BY <1>4, <1>5, <3>2
  <2> QED
    BY <2>1, <2>2
<1> QED
  BY <1>2, <1>5, IdxAssumption

----------------------------------------------------------------------------
\* An index is at most half full, and every pair is in reach.
IdxInv ==
    /\ TabOk(table) /\ Reach(table)
    /\ 2 * Used(table) <= Size(table) /\ Size(table) # 1

\* What a step is for the set of pairs
PairStep ==
    \/ \E h \in Hashes, s \in IdxSlots : PairsOf(table') = PairsOf(table) \cup {<<h, s>>}
    \/ PairsOf(table') = {} \/ PairsOf(table') = PairsOf(table)

\* An insertion adds its pair, growth or not.
LEMMA InsertKeeps ==
    ASSUME IdxInv, NEW h \in Hashes, NEW s \in IdxSlots, Insert(h, s)
    PROVE  IdxInv' /\ PairsOf(table') = PairsOf(table) \cup {<<h, s>>}
<1>1. /\ Size(table) \in Nat /\ DOMAIN table = 0 .. Size(table) - 1
      /\ Used(table) \in Nat /\ 2 * Used(table) <= Size(table) /\ Size(table) # 1
  BY SizeIs DEF IdxInv
<1>2. PICK x : /\ table' = Put(x, h, s) /\ TabOk(x) /\ Reach(x) /\ PairsOf(x) = PairsOf(table)
               /\ 2 * (Used(x) + 1) <= Size(x) /\ Size(x) # 0
  <2>1. CASE ~Full(table) /\ table' = Put(table, h, s)
    BY <1>1, <2>1 DEF Full, IdxInv
  <2>2. CASE Full(table) /\ table' = Put(Room(table), h, s) /\ Size(table) = 0
    <3>1. MinBuckets \in Nat /\ MinBuckets >= 2 /\ Room(table) = Blank(MinBuckets)
      BY <2>2, IdxAssumption DEF Room
    <3>2. /\ TabOk(Blank(MinBuckets)) /\ Reach(Blank(MinBuckets))
          /\ PairsOf(Blank(MinBuckets)) = {} /\ Used(Blank(MinBuckets)) = 0
          /\ DOMAIN Blank(MinBuckets) = 0 .. MinBuckets - 1
      BY <3>1, BlankIs
    <3>3. Size(Blank(MinBuckets)) = MinBuckets
      BY <3>1, <3>2, FS_Interval DEF Size
    <3>4. PairsOf(table) = {}
      BY <1>1, <2>2 DEF PairsOf
    <3> QED
      BY <2>2, <3>1, <3>2, <3>3, <3>4
  <2>3. CASE Full(table) /\ table' = Put(Room(table), h, s) /\ Size(table) # 0
    <3>1. PICK g : g = Grown(table)
      OBVIOUS
    <3>2. Holds(table, g, Size(table)) /\ table' = Put(g, h, s)
      BY <2>3, <3>1, GrownIs DEF Room, IdxInv
    <3>3. Size(g) = 2 * Size(table) /\ Used(g) \in Nat
      <4>1. 2 * Size(table) - 1 \in Int /\ 2 * Size(table) - 1 >= 0
        BY <1>1, <2>3
      <4>2. Cardinality(0 .. 2 * Size(table) - 1) = 2 * Size(table)
        BY <1>1, <4>1, FS_Interval
      <4> QED
        BY <3>2, <4>2, SizeIs DEF Holds, Size
    <3>4. Used(g) <= Used(table)
      BY <1>1, <3>2 DEF Holds, Used
    <3>5. PairsOf(g) = PairsOf(table)
      BY <1>1, <3>2 DEF Holds, PairsOf
    <3>6. 2 * (Used(g) + 1) <= Size(g) /\ Size(g) # 0
      BY <1>1, <2>3, <3>3, <3>4
    <3> QED
      BY <3>2, <3>5, <3>6 DEF Holds
  <2> QED
    BY <2>1, <2>2, <2>3 DEF Insert
<1>3. Size(x) \in Nat /\ Used(x) \in Nat
  BY <1>2, SizeIs
<1>4. HasFree(x)
  BY <1>2, <1>3, SizeIs
<1>5. PutOk(x, h, s, table')
  BY <1>2, <1>4, PutIs
<1>6. Size(table') = Size(x) /\ Used(table') \in Nat /\ Used(table') <= Used(x) + 1
  <2>1. TabOk(table')
    BY <1>5 DEF PutOk
  <2> QED
    BY <1>5, <2>1, SizeIs DEF PutOk, Size
<1>7. 2 * Used(table') <= Size(table') /\ Size(table') # 1
  BY <1>2, <1>3, <1>6
<1> QED
  BY <1>2, <1>5, <1>7 DEF PutOk, IdxInv

\* A reset leaves no pair.
LEMMA ResetKeeps ==
    ASSUME NEW many \in Nat, Reset(many) PROVE IdxInv' /\ PairsOf(table') = {}
<1>1. PICK n \in Nat : n # 1 /\ table' = Blank(n)
  <2>1. CASE table' = Blank(BucketsFor(many))
    BY <2>1, BucketsAre
  <2>2. CASE table' = NoTable
    <3>1. 0 .. 0 - 1 = {}
      OBVIOUS
    <3>2. NoTable = Blank(0)
      BY <3>1 DEF NoTable, Blank
    <3> QED
      BY <2>2, <3>2
  <2> QED
    BY <2>1, <2>2 DEF Reset
<1>2. /\ TabOk(Blank(n)) /\ DOMAIN Blank(n) = 0 .. n - 1 /\ Reach(Blank(n))
      /\ PairsOf(Blank(n)) = {} /\ Used(Blank(n)) = 0
  BY BlankIs
<1>3. Size(Blank(n)) = n
  BY <1>2, FS_Interval DEF Size
<1> QED
  BY <1>1, <1>2, <1>3 DEF IdxInv

\* There is no table at first.
LEMMA FirstIndex == SlotInit => IdxInv /\ PairsOf(table) = {}
<1> SUFFICES ASSUME SlotInit PROVE IdxInv /\ PairsOf(table) = {}
  OBVIOUS
<1>1. 0 .. 0 - 1 = {}
  OBVIOUS
<1>2. table = Blank(0)
  BY <1>1 DEF NoTable, Blank, SlotInit
<1>3. /\ TabOk(Blank(0)) /\ DOMAIN Blank(0) = 0 .. 0 - 1 /\ Reach(Blank(0))
      /\ PairsOf(Blank(0)) = {} /\ Used(Blank(0)) = 0
  BY BlankIs
<1>4. Size(Blank(0)) = 0
  BY <1>1, <1>3, FS_EmptySet DEF Size
<1> QED
  BY <1>2, <1>3, <1>4 DEF IdxInv

\* Every step keeps the invariant and is one of IndexSet or a stutter.
LEMMA SlotStep ==
    ASSUME IdxInv, [SlotNext]_slotVars PROVE IdxInv' /\ PairStep
<1>1. ASSUME NEW h \in Hashes, NEW s \in IdxSlots, Insert(h, s) PROVE IdxInv' /\ PairStep
  BY <1>1, InsertKeeps DEF PairStep
<1>2. CASE UNCHANGED table
  BY <1>2 DEF IdxInv, PairStep
<1>3. ASSUME NEW many \in {1, Cardinality(IdxSlots)}, Reset(many)
      PROVE  IdxInv' /\ PairStep
  <2>1. many \in Nat
    BY IdxAssumption, FS_CardinalityType
  <2> QED
    BY <1>3, <2>1, ResetKeeps DEF PairStep
<1> QED
  BY <1>1, <1>2, <1>3 DEF SlotNext, InsertFails, slotVars

\* slotidx_find() looks at all pairs of the hash, and at them only.
LEMMA FindsAll ==
    ASSUME IdxInv, NEW h \in Hashes, NEW matching \in SUBSET IdxSlots
    PROVE  Find(table, h, matching) = Lowest({s \in matching : <<h, s>> \in Pairs})
<1>1. /\ Size(table) \in Nat /\ DOMAIN table = 0 .. Size(table) - 1 /\ TabOk(table)
      /\ Used(table) \in Nat /\ 2 * Used(table) <= Size(table) /\ Size(table) # 1
  BY SizeIs DEF IdxInv
<1>2. CASE Size(table) = 0
  <2>1. Pairs = {}
    BY <1>1, <1>2 DEF Pairs
  <2> QED
    BY <1>2, <2>1 DEF Find, Lowest
<1>3. CASE Size(table) # 0
  <2>1. HasFree(table) /\ h \in Nat
    BY <1>1, <1>3, SizeIs, IdxAssumption
  <2> DEFINE found == {table[i][2] : i \in {j \in Probed(table, h) : table[j][1] = h}}
  <2>2. Probed(table, h) = {i \in DOMAIN table : table[i] # EmptyBucket /\ OnPath(table, h, i)}
    BY <1>1, <2>1, ProbedAre
  <2>3. ASSUME NEW s \in found PROVE <<h, s>> \in Pairs
    <3>1. PICK i \in DOMAIN table : table[i] # EmptyBucket /\ table[i][1] = h /\ table[i][2] = s
      BY <2>2
    <3>2. table[i] = <<h, s>>
      BY <1>1, <3>1, BucketIs DEF TabOk
    <3> QED
      BY <3>1, <3>2 DEF Pairs
  <2>4. ASSUME NEW s, <<h, s>> \in Pairs PROVE s \in found
    <3>1. PICK i \in DOMAIN table : table[i] = <<h, s>> /\ table[i] # EmptyBucket
      BY <2>4 DEF Pairs
    <3>2. table[i][1] = h /\ table[i][2] = s
      BY <3>1
    <3>3. OnPath(table, h, i)
      BY <3>1, <3>2 DEF IdxInv, Reach
    <3> QED
      BY <2>2, <3>1, <3>2, <3>3
  <2>5. found \cap matching = {s \in matching : <<h, s>> \in Pairs}
    BY <2>3, <2>4
  <2>6. Find(table, h, matching) = Lowest(found \cap matching)
    BY <1>3 DEF Find
  <2> QED
    BY <2>5, <2>6
<1> QED
  BY <1>2, <1>3

\* slotidx_find() finds the lowest matching slot put in under a hash, however
\* the buckets of other hashes wrap around and run into its own, whichever
\* slots have gone stale, and through every growth, for any number of hashes,
\* slots and buckets.
THEOREM FindsLowest == SlotSpec => []FindExact
<1>1. SlotInit => IdxInv
  BY FirstIndex
<1>2. IdxInv /\ [SlotNext]_slotVars => IdxInv'
  BY SlotStep
<1>3. IdxInv => FindExact
  BY FindsAll DEF FindExact
<1> QED
  BY <1>1, <1>2, <1>3, PTL DEF SlotSpec

\* The table implements the set of pairs slotidx.h promises: put() and grow()
\* lose no pair and invent none, and slotidx_reset() empties it.
THEOREM IndexIsSet == SlotSpec => SlotImplements
<1>1. SlotInit => IdxInv
  BY FirstIndex
<1>2. IdxInv /\ [SlotNext]_slotVars => IdxInv'
  BY SlotStep
<1>3. SlotInit => Set!IndexInit
  BY FirstIndex DEF Set!IndexInit, Pairs, PairsOf
<1>4. IdxInv /\ [SlotNext]_slotVars => [Set!IndexNext]_Pairs
  <2> SUFFICES ASSUME IdxInv, [SlotNext]_slotVars PROVE [Set!IndexNext]_Pairs
    OBVIOUS
  <2>1. Pairs = PairsOf(table) /\ Pairs' = PairsOf(table')
    BY DEF Pairs, PairsOf
  <2> QED
    BY <2>1, SlotStep DEF PairStep, Set!IndexNext, Set!Empty, Set!Add
<1> QED
  BY <1>1, <1>2, <1>3, <1>4, PTL DEF SlotSpec, SlotImplements, Set!IndexSpec

----------------------------------------------------------------------------
(* The budgets: what unknown sources are charged never passes their share, *)
(* nor what is charged to one entry its own, so that a trial is always     *)
(* refused for the budget that is used up and for no other.                *)

Count == [handshakes : Nat, trials : Nat]
Within(c, h, t) == c \in Count /\ c.handshakes <= h /\ c.trials <= t
SharesOk(sh) == \A k \in DOMAIN sh : Within(sh[k], HandshakeShare(k), TrialShare(k))

BudgetInv ==
    /\ Within(total, Handshakes, TrialsLimit)
    /\ Within(unknown, UnknownShare(Handshakes), UnknownShare(TrialsLimit))
    /\ unknown.handshakes <= total.handshakes /\ unknown.trials <= total.trials
    /\ SharesOk(shares)
    /\ RekeyServed /\ NewcomerServed

\* The least of a set of naturals
LEMMA LeastIs ==
    ASSUME NEW T, T \subseteq Nat, T # {} PROVE Min(T) \in T /\ \A y \in T : Min(T) <= y
BY Least DEF Min

\* The shares of the budgets, and that each is smaller than what it is of
LEMMA SharesAre ==
    /\ Handshakes \in Nat /\ Keys \in Nat /\ TrialsLimit \in Nat /\ TrialsLimit >= 4 * Keys
    /\ UnknownShare(Handshakes) \in Nat /\ UnknownShare(TrialsLimit) \in Nat
    /\ UnknownShare(TrialsLimit) <= TrialsLimit
    /\ \A k : /\ HandshakeShare(k) \in Nat \ {0} /\ TrialShare(k) \in Nat /\ TrialShare(k) >= Keys
              /\ HandshakeShare(k) < Handshakes /\ HandshakeShare(k) < UnknownShare(Handshakes)
              /\ TrialShare(k) + Keys <= UnknownShare(TrialsLimit)
              /\ TrialShare(k) + Keys <= TrialsLimit
<1> DEFINE L == TrialsLimit
<1>1. /\ Handshakes \in Nat /\ Handshakes >= 8 /\ Keys \in Nat
      /\ L \in Nat /\ L >= 4 * Keys
  BY BudgetAssumption DEF TrialsLimit, Larger
<1> HIDE DEF L
<1>2. ASSUME NEW n \in Nat
      PROVE  /\ n \div 4 \in Nat /\ n \div 8 \in Nat /\ n \div 8 <= n \div 4
             /\ (n \div 4) * 3 <= n /\ 4 * (n \div 4) <= n /\ n < 4 * (n \div 4) + 4
             /\ n >= 8 => n \div 8 >= 1 /\ n \div 4 >= 2
  OBVIOUS
<1>3. Keys <= L \div 4
  BY <1>1, <1>2
<1>4. ASSUME NEW k
      PROVE  /\ HandshakeShare(k) \in Nat \ {0} /\ HandshakeShare(k) <= Handshakes \div 4
             /\ TrialShare(k) \in Nat /\ TrialShare(k) >= Keys
             /\ TrialShare(k) <= L \div 4 \/ TrialShare(k) <= 2 * Keys
  BY <1>1, <1>2 DEF HandshakeShare, TrialShare, SrcShare, NetShare, Larger, L
<1>5. ASSUME NEW k
      PROVE  /\ HandshakeShare(k) < Handshakes /\ HandshakeShare(k) < (Handshakes \div 4) * 3
             /\ TrialShare(k) + Keys <= (L \div 4) * 3 /\ TrialShare(k) + Keys <= L
  BY <1>1, <1>2, <1>3, <1>4
<1> QED
  BY <1>1, <1>2, <1>4, <1>5 DEF UnknownShare, L

\* The entries of a source are as they were, or new
LEMMA SharesOf ==
    ASSUME BudgetInv, NEW from, NEW sh \in SharesWith(from) \cup {shares}
    PROVE  /\ SharesOk(sh)
           /\ DOMAIN shares \subseteq DOMAIN sh
           /\ \A k \in DOMAIN sh : sh[k] = IF k \in DOMAIN shares THEN shares[k] ELSE Zero
<1>1. DOMAIN shares \subseteq DOMAIN sh /\
      \A k \in DOMAIN sh : sh[k] = IF k \in DOMAIN shares THEN shares[k] ELSE Zero
  BY DEF SharesWith
<1>2. \A k : Within(Zero, HandshakeShare(k), TrialShare(k))
  BY SharesAre DEF Within, Zero, Count
<1> QED
  BY <1>1, <1>2 DEF SharesOk, BudgetInv

\* What others may still try; with a new source it is every key.
LEMMA OthersMay ==
    ASSUME BudgetInv, NEW from, NEW sh, SharesOk(sh)
    PROVE  /\ OthersAllowed(sh, from) \in Nat
           /\ OthersAllowed(sh, from) <= UnknownShare(TrialsLimit) - unknown.trials
           /\ \A k \in Entries(sh, from) : OthersAllowed(sh, from) <= TrialShare(k) - sh[k].trials
           /\ /\ Keys <= UnknownShare(TrialsLimit) - unknown.trials
              /\ \A k \in Entries(sh, from) : sh[k] = Zero
              => OthersAllowed(sh, from) >= Keys
<1> DEFINE all == {UnknownShare(TrialsLimit) - unknown.trials}
                      \cup {TrialShare(k) - sh[k].trials : k \in Entries(sh, from)}
<1>1. UnknownShare(TrialsLimit) - unknown.trials \in Nat
  BY SharesAre DEF BudgetInv, Within, Count
<1>2. ASSUME NEW k \in Entries(sh, from)
      PROVE  TrialShare(k) - sh[k].trials \in Nat /\ sh[k].trials \in Nat
  <2>1. k \in DOMAIN sh /\ TrialShare(k) \in Nat
    BY SharesAre DEF Entries
  <2> QED
    BY <2>1 DEF SharesOk, Within, Count
<1>3. all \subseteq Nat /\ all # {} /\ OthersAllowed(sh, from) = Min(all)
  BY <1>1, <1>2 DEF OthersAllowed
<1>4. Min(all) \in all /\ \A y \in all : Min(all) <= y
  <2> HIDE DEF all
  <2> QED
    BY <1>3, LeastIs
<1>5. ASSUME Keys <= UnknownShare(TrialsLimit) - unknown.trials,
             \A k \in Entries(sh, from) : sh[k] = Zero
      PROVE  \A y \in all : y >= Keys
  <2>1. \A k \in Entries(sh, from) : TrialShare(k) - sh[k].trials = TrialShare(k)
    BY <1>5, SharesAre DEF Zero
  <2> QED
    BY <1>5, <2>1, SharesAre
<1> QED
  BY <1>3, <1>4, <1>5

\* The trials of an INIT: none too many, and all it needs when the budgets allow
LEMMA TrialsAre ==
    ASSUME BudgetInv, NEW from, NEW sh, SharesOk(sh), NEW known, NEW wanted \in Nat,
           NEW n, n = Tried(sh, from, known, wanted)
    PROVE  /\ n \in Nat /\ n <= wanted /\ total.trials + n <= TrialsLimit
           /\ ~known => n <= OthersAllowed(sh, from)
           /\ known => n <= 1 + OthersAllowed(sh, from)
           /\ known /\ wanted = 1 /\ n # 1 => total.trials = TrialsLimit
           /\ /\ OthersAllowed(sh, from) >= wanted /\ total.trials + wanted <= TrialsLimit
              => n = wanted
<1> DEFINE room == TrialsLimit - total.trials
           o == OthersAllowed(sh, from)
<1>1. o \in Nat /\ room \in Nat /\ total.trials \in Nat /\ TrialsLimit \in Nat
  BY OthersMay, SharesAre DEF BudgetInv, Within, Count
<1>2. n = IF ~known THEN Min({wanted, room, o})
          ELSE IF room = 0 \/ wanted = 0 THEN 0 ELSE 1 + Min({wanted - 1, room - 1, o})
  BY DEF Tried
<1>3. ASSUME NEW a \in Nat, NEW b \in Nat, NEW c \in Nat
      PROVE  Min({a, b, c}) \in {a, b, c} /\ Min({a, b, c}) <= a /\ Min({a, b, c}) <= b
             /\ Min({a, b, c}) <= c
  BY LeastIs
<1> HIDE DEF o
<1>4. CASE ~known
  <2>1. Min({wanted, room, o}) \in {wanted, room, o}
        /\ Min({wanted, room, o}) <= wanted /\ Min({wanted, room, o}) <= room
        /\ Min({wanted, room, o}) <= o
    BY <1>1, <1>3
  <2> QED
    BY <1>1, <1>2, <1>4, <2>1 DEF o
<1>5. CASE known /\ (room = 0 \/ wanted = 0)
  BY <1>1, <1>2, <1>5 DEF o
<1>6. CASE known /\ ~(room = 0 \/ wanted = 0)
  <2> DEFINE m == Min({wanted - 1, room - 1, o})
  <2>1. wanted - 1 \in Nat /\ room - 1 \in Nat
    BY <1>1, <1>6
  <2>2. m \in {wanted - 1, room - 1, o} /\ m <= wanted - 1 /\ m <= room - 1 /\ m <= o
    BY <1>1, <1>3, <2>1
  <2>3. n = 1 + m
    BY <1>2, <1>6
  <2> HIDE DEF m
  <2>4. m \in Nat /\ room # 0 /\ wanted # 0
    BY <1>1, <1>6, <2>1, <2>2
  <2> HIDE DEF room
  <2>5. n \in Nat /\ n <= wanted /\ n <= room /\ n <= 1 + o /\ n # 0
    BY <1>1, <2>2, <2>3, <2>4
  <2>6. ASSUME o >= wanted, wanted <= room PROVE n = wanted
    BY <1>1, <2>2, <2>3, <2>4, <2>6
  <2>7. total.trials + n <= TrialsLimit
    BY <1>1, <2>5 DEF room
  <2>8. total.trials + wanted <= TrialsLimit => wanted <= room
    BY <1>1 DEF room
  <2>9. wanted = 1 => n = 1
    BY <2>5
  <2> QED
    BY <1>6, <2>5, <2>6, <2>7, <2>8, <2>9 DEF o
<1> QED
  BY <1>4, <1>5, <1>6

----------------------------------------------------------------------------
\* What an INIT is charged: one handshake, if any, and the trials it made
Charges(from, sh, h, hu, n, t) ==
    /\ total' = Plus(total, h, n) /\ unknown' = Plus(unknown, hu, t)
    /\ shares' = Charged(sh, from, hu, t)

\* What is charged for an INIT that may be charged keeps the shares.
LEMMA ChargesKeep ==
    ASSUME BudgetInv, NEW from, NEW sh, SharesOk(sh), NEW n \in Nat, NEW t \in Nat,
           NEW h \in {0, 1}, NEW hu \in {0, 1}, Charges(from, sh, h, hu, n, t),
           hu <= h, h = 1 => total.handshakes < Handshakes,
           hu = 1 => /\ unknown.handshakes < UnknownShare(Handshakes)
                     /\ ~OverShare(sh, from),
           t <= n, total.trials + n <= TrialsLimit, t <= OthersAllowed(sh, from)
    PROVE  /\ Within(total', Handshakes, TrialsLimit)
           /\ Within(unknown', UnknownShare(Handshakes), UnknownShare(TrialsLimit))
           /\ unknown'.handshakes <= total'.handshakes /\ unknown'.trials <= total'.trials
           /\ SharesOk(shares')
           /\ total'.handshakes = total.handshakes + h /\ total'.trials = total.trials + n
           /\ unknown'.handshakes = unknown.handshakes + hu
           /\ unknown'.trials = unknown.trials + t
<1>1. /\ total \in Count /\ unknown \in Count
      /\ total.handshakes <= Handshakes /\ total.trials <= TrialsLimit
      /\ unknown.handshakes <= UnknownShare(Handshakes)
      /\ unknown.trials <= UnknownShare(TrialsLimit)
      /\ unknown.handshakes <= total.handshakes /\ unknown.trials <= total.trials
  BY DEF BudgetInv, Within
<1>2. /\ total.handshakes \in Nat /\ total.trials \in Nat
      /\ unknown.handshakes \in Nat /\ unknown.trials \in Nat
      /\ Handshakes \in Nat /\ TrialsLimit \in Nat
      /\ UnknownShare(Handshakes) \in Nat /\ UnknownShare(TrialsLimit) \in Nat
  BY <1>1, SharesAre DEF Count
<1>3. /\ total' \in Count /\ unknown' \in Count
      /\ total'.handshakes = total.handshakes + h /\ total'.trials = total.trials + n
      /\ unknown'.handshakes = unknown.handshakes + hu
      /\ unknown'.trials = unknown.trials + t
  BY <1>2 DEF Charges, Plus, Count
<1>4. /\ OthersAllowed(sh, from) \in Nat
      /\ OthersAllowed(sh, from) <= UnknownShare(TrialsLimit) - unknown.trials
      /\ \A k \in Entries(sh, from) : OthersAllowed(sh, from) <= TrialShare(k) - sh[k].trials
  BY OthersMay
<1>5. /\ Within(total', Handshakes, TrialsLimit)
      /\ Within(unknown', UnknownShare(Handshakes), UnknownShare(TrialsLimit))
      /\ unknown'.handshakes <= total'.handshakes /\ unknown'.trials <= total'.trials
  BY <1>1, <1>2, <1>3, <1>4 DEF Within
<1>6. SharesOk(shares')
  <2> SUFFICES ASSUME NEW k \in DOMAIN shares'
               PROVE  Within(shares'[k], HandshakeShare(k), TrialShare(k))
    BY DEF SharesOk
  <2>1. /\ k \in DOMAIN sh
        /\ shares'[k] = IF k \in {from, Net(from)} THEN Plus(sh[k], hu, t) ELSE sh[k]
    BY DEF Charges, Charged
  <2>2. /\ sh[k] \in Count /\ sh[k].handshakes <= HandshakeShare(k)
        /\ sh[k].trials <= TrialShare(k) /\ HandshakeShare(k) \in Nat /\ TrialShare(k) \in Nat
    BY <2>1, SharesAre DEF SharesOk, Within
  <2>3. CASE k \notin {from, Net(from)}
    BY <2>1, <2>2, <2>3 DEF Within
  <2>4. CASE k \in {from, Net(from)}
    <3>1. k \in Entries(sh, from)
      BY <2>1, <2>4 DEF Entries
    <3>2. sh[k].handshakes \in Nat /\ sh[k].trials \in Nat
      BY <2>2 DEF Count
    <3>3. hu = 1 => sh[k].handshakes < HandshakeShare(k)
      BY <2>2, <3>1, <3>2 DEF OverShare
    <3>4. t <= TrialShare(k) - sh[k].trials
      BY <1>4, <2>2, <3>1, <3>2
    <3>5. /\ shares'[k] \in Count /\ shares'[k].handshakes = sh[k].handshakes + hu
          /\ shares'[k].trials = sh[k].trials + t
      BY <2>1, <2>4, <3>2 DEF Plus, Count
    <3> QED
      BY <2>2, <3>2, <3>3, <3>4, <3>5 DEF Within
  <2> QED
    BY <2>3, <2>4
<1> QED
  BY <1>3, <1>5, <1>6

\* A newcomer finds room in every budget.
LEMMA NewcomerMay ==
    ASSUME BudgetInv, NEW from, Newcomer(from), NEW sh \in SharesWith(from) \cup {shares},
           NEW known
    PROVE  /\ ~Spent(known) /\ ~OverShare(sh, from)
           /\ OthersAllowed(sh, from) >= Keys /\ total.trials + Keys <= TrialsLimit
<1>1. /\ SharesOk(sh)
      /\ \A k \in Entries(sh, from) : sh[k] = Zero
  BY SharesOf DEF Newcomer, Entries
<1>2. PICK k : /\ unknown = Zero \/ (k \in DOMAIN shares /\ shares[k] = unknown)
               /\ total = unknown
  BY DEF Newcomer
<1>3. /\ unknown.handshakes <= HandshakeShare(k) /\ unknown.trials <= TrialShare(k)
      /\ unknown.handshakes \in Nat /\ unknown.trials \in Nat
  <2>1. HandshakeShare(k) \in Nat /\ TrialShare(k) \in Nat
    BY SharesAre
  <2>2. CASE unknown = Zero
    BY <2>1, <2>2 DEF Zero
  <2>3. CASE k \in DOMAIN shares /\ shares[k] = unknown
    BY <2>3 DEF BudgetInv, SharesOk, Within, Count
  <2> QED
    BY <1>2, <2>2, <2>3
<1>4. /\ HandshakeShare(k) \in Nat /\ TrialShare(k) \in Nat /\ Keys \in Nat
      /\ HandshakeShare(k) < Handshakes /\ HandshakeShare(k) < UnknownShare(Handshakes)
      /\ TrialShare(k) + Keys <= UnknownShare(TrialsLimit)
      /\ TrialShare(k) + Keys <= TrialsLimit
      /\ Handshakes \in Nat /\ TrialsLimit \in Nat
      /\ UnknownShare(Handshakes) \in Nat /\ UnknownShare(TrialsLimit) \in Nat
  BY SharesAre
<1>5. ~Spent(known)
  BY <1>2, <1>3, <1>4 DEF Spent
<1>6. ~OverShare(sh, from)
  <2>1. \A j : HandshakeShare(j) \in Nat \ {0}
    BY SharesAre
  <2> QED
    BY <1>1, <2>1 DEF OverShare, Zero
<1>7. /\ Keys <= UnknownShare(TrialsLimit) - unknown.trials
      /\ total.trials + Keys <= TrialsLimit
  BY <1>2, <1>3, <1>4
<1>8. OthersAllowed(sh, from) >= Keys
  BY <1>1, <1>7, OthersMay
<1> QED
  BY <1>5, <1>6, <1>7, <1>8

\* server_handle_init() up to the key
LEMMA ArrivesKeeps ==
    ASSUME BudgetInv, NEW from \in SourceAddrs, NEW key \in 1 .. Keys + 1,
           InitArrives(from, key)
    PROVE  BudgetInv'
<1> DEFINE known == from \in LiveAt /\ rekeys[from] < KnownPerSec
           wanted == IF key > Keys THEN Keys ELSE key
           refused(sh) == Spent(known) \/ (~known /\ OverShare(sh, from))
           h(counted, sh) == IF refused(sh) \/ ~counted THEN 0 ELSE 1
<1>1. PICK sh, n, t :
         /\ sh \in SharesWith(from) \cup {shares}
         /\ n = IF refused(sh) THEN 0 ELSE Tried(sh, from, known, wanted)
         /\ t = IF known /\ n > 0 THEN n - 1 ELSE n
         /\ Charges(from, sh, h(TRUE, sh), h(~known, sh), n, t)
         /\ result' = [from |-> from, known |-> known, key |-> key,
                       newcomer |-> Newcomer(from), served |-> n = key]
  <2>1. PICK sh \in (IF ~Spent(known) /\ (~known \/ (/\ wanted > 1 /\ TrialsLimit - total.trials > 1
                                                     /\ unknown.trials < UnknownShare(TrialsLimit)))
                     THEN SharesWith(from) ELSE {shares}) :
          LET n == IF refused(sh) THEN 0 ELSE Tried(sh, from, known, wanted)
              t == IF known /\ n > 0 THEN n - 1 ELSE n
          IN /\ Charges(from, sh, h(TRUE, sh), h(~known, sh), n, t)
             /\ result' = [from |-> from, known |-> known, key |-> key,
                           newcomer |-> Newcomer(from), served |-> n = key]
    BY Zenon DEF InitArrives, Charges
  <2>2. sh \in SharesWith(from) \cup {shares}
    OBVIOUS
  <2> QED
    BY Zenon, <2>1, <2>2
<1>2. SharesOk(sh) /\ wanted \in Nat /\ wanted <= Keys /\ Keys \in Nat
  BY <1>1, SharesOf, SharesAre
<1>3. /\ OthersAllowed(sh, from) \in Nat /\ total \in Count /\ unknown \in Count
      /\ total.handshakes <= Handshakes /\ unknown.handshakes <= UnknownShare(Handshakes)
      /\ unknown.trials <= UnknownShare(TrialsLimit) /\ total.trials <= TrialsLimit
      /\ TrialsLimit \in Nat /\ Handshakes \in Nat
      /\ UnknownShare(Handshakes) \in Nat /\ UnknownShare(TrialsLimit) \in Nat
  BY <1>2, OthersMay, SharesAre DEF BudgetInv, Within
<1>4. PICK a, u : a = h(TRUE, sh) /\ u = h(~known, sh)
  OBVIOUS
<1>5. /\ a \in {0, 1} /\ u \in {0, 1} /\ u <= a
      /\ refused(sh) => a = 0
      /\ u = 1 => ~known /\ ~refused(sh)
  BY <1>4
<1> HIDE DEF known
<1>6. /\ n \in Nat /\ t \in Nat /\ t <= n /\ n <= wanted /\ total.trials + n <= TrialsLimit
      /\ t <= OthersAllowed(sh, from)
      /\ ~refused(sh) /\ known /\ wanted = 1 /\ n # 1 => total.trials = TrialsLimit
      /\ /\ ~refused(sh) /\ OthersAllowed(sh, from) >= wanted
         /\ total.trials + wanted <= TrialsLimit
         => n = wanted
  <2>1. CASE refused(sh)
    BY <1>1, <1>2, <1>3, <2>1 DEF Count
  <2>2. CASE ~refused(sh)
    <3>1. n = Tried(sh, from, known, wanted)
      BY <1>1, <2>2
    <3> HIDE DEF wanted
    <3>2. /\ n \in Nat /\ n <= wanted /\ total.trials + n <= TrialsLimit
          /\ ~known => n <= OthersAllowed(sh, from)
          /\ known => n <= 1 + OthersAllowed(sh, from)
          /\ known /\ wanted = 1 /\ n # 1 => total.trials = TrialsLimit
          /\ /\ OthersAllowed(sh, from) >= wanted /\ total.trials + wanted <= TrialsLimit
             => n = wanted
      BY <1>2, <3>1, TrialsAre
    <3>3. t = IF known /\ n > 0 THEN n - 1 ELSE n
      BY <1>1
    <3>4. t \in Nat /\ t <= n /\ t <= OthersAllowed(sh, from)
      BY <1>3, <3>2, <3>3
    <3> QED
      BY <3>2, <3>4
  <2> QED
    BY <2>1, <2>2
<1>7. /\ a = 1 => total.handshakes < Handshakes
      /\ u = 1 => unknown.handshakes < UnknownShare(Handshakes) /\ ~OverShare(sh, from)
  BY <1>3, <1>5 DEF Spent, Count
<1>8. Charges(from, sh, a, u, n, t)
  BY Zenon, <1>1, <1>4
<1>9. /\ Within(total', Handshakes, TrialsLimit)
      /\ Within(unknown', UnknownShare(Handshakes), UnknownShare(TrialsLimit))
      /\ unknown'.handshakes <= total'.handshakes /\ unknown'.trials <= total'.trials
      /\ SharesOk(shares')
      /\ total'.handshakes = total.handshakes + a /\ total'.trials = total.trials + n
      /\ unknown'.handshakes = unknown.handshakes + u
      /\ unknown'.trials = unknown.trials + t
  BY <1>2, <1>5, <1>6, <1>7, <1>8, ChargesKeep
<1>10. /\ result'.known = known /\ result'.key = key /\ result'.newcomer = Newcomer(from)
       /\ result'.served = (n = key)
  BY <1>1
<1>11. NewcomerServed'
  <2> SUFFICES ASSUME Newcomer(from), key <= Keys PROVE n = key
    BY <1>10 DEF NewcomerServed
  <2>1. /\ ~Spent(known) /\ ~OverShare(sh, from)
        /\ OthersAllowed(sh, from) >= Keys /\ total.trials + Keys <= TrialsLimit
    BY <1>1, NewcomerMay
  <2>2. wanted = key /\ ~refused(sh)
    BY <1>2, <2>1
  <2> QED
    BY <1>2, <1>3, <1>6, <2>1, <2>2 DEF Count
<1>12. RekeyServed'
  <2> SUFFICES ASSUME known, key = 1, Keys > 0, n # 1
               PROVE  \/ total'.handshakes - unknown'.handshakes
                            >= Handshakes - UnknownShare(Handshakes)
                      \/ total'.trials - unknown'.trials
                            >= TrialsLimit - UnknownShare(TrialsLimit)
    BY <1>10 DEF RekeyServed
  <2>1. wanted = 1 /\ u = 0
    BY <1>2, <1>5
  <2>2. CASE Spent(known)
    <3>1. total.handshakes >= Handshakes
      BY <2>2 DEF Spent
    <3> QED
      BY <1>3, <1>5, <1>9, <2>1, <3>1 DEF Count
  <2>3. CASE ~Spent(known)
    <3>0. known /\ ~refused(sh)
      BY <2>3
    <3>1. total.trials = TrialsLimit /\ n = 0
      <4>1. total.trials = TrialsLimit
        BY <1>6, <2>1, <3>0
      <4>2. n \in Nat /\ n <= wanted /\ n # 1
        BY <1>6
      <4> QED
        BY <2>1, <4>1, <4>2
    <3>2. t = 0
      BY <1>6, <3>1
    <3> QED
      BY <1>3, <1>9, <3>1, <3>2 DEF Count
  <2> QED
    BY <2>2, <2>3
<1> QED
  BY <1>9, <1>11, <1>12 DEF BudgetInv

\* Nothing is used up at first,
LEMMA FirstBudgets == BudgetInit => BudgetInv
<1>1. Within(Zero, Handshakes, TrialsLimit)
  BY SharesAre DEF Within, Zero, Count
<1>2. Within(Zero, UnknownShare(Handshakes), UnknownShare(TrialsLimit))
  BY SharesAre DEF Within, Zero, Count
<1> QED
  BY <1>1, <1>2 DEF BudgetInit, BudgetInv, SharesOk, RekeyServed, NewcomerServed, NoneYet, Zero

\* ... nor when a second begins.
LEMMA SecondKeeps == BudgetInv /\ NextSecond => BudgetInv'
<1>1. Within(Zero, Handshakes, TrialsLimit)
  BY SharesAre DEF Within, Zero, Count
<1>2. Within(Zero, UnknownShare(Handshakes), UnknownShare(TrialsLimit))
  BY SharesAre DEF Within, Zero, Count
<1> QED
  BY <1>1, <1>2 DEF NextSecond, BudgetInv, SharesOk, RekeyServed, NewcomerServed, NoneYet, Zero

\* INITs and seconds keep the invariant.
LEMMA BudgetStep == BudgetInv /\ [BudgetNext]_budgetVars => BudgetInv'
<1> SUFFICES ASSUME BudgetInv, [BudgetNext]_budgetVars PROVE BudgetInv'
  OBVIOUS
<1>1. CASE UNCHANGED budgetVars
  BY <1>1 DEF budgetVars, BudgetInv, SharesOk, RekeyServed, NewcomerServed
<1> QED
  BY <1>1, ArrivesKeeps, SecondKeeps DEF BudgetNext

\* A live client's rekey with its own key is refused only when live clients
\* have used up what server_handshake_budget() and server_key_trial_budget()
\* do not give to unknown sources, whatever those send.
THEOREM RekeysServed == BudgetSpec => []RekeyServed
<1>1. BudgetInv => RekeyServed
  BY DEF BudgetInv
<1> QED
  BY <1>1, FirstBudgets, BudgetStep, PTL DEF BudgetSpec

\* A source of a /24 that sent nothing reaches every key of the keystore with
\* its first message 1, whatever one other /24 has sent in that second: each
\* share of server_trial_share() leaves room for a keystore beside it.
THEOREM NewcomersServed == BudgetSpec => []NewcomerServed
<1>1. BudgetInv => NewcomerServed
  BY DEF BudgetInv
<1> QED
  BY <1>1, FirstBudgets, BudgetStep, PTL DEF BudgetSpec

=============================================================================
