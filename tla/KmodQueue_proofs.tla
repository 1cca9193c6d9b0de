-------------------------- MODULE KmodQueue_proofs --------------------------
(***************************************************************************)
(* Theorems about KmodQueue: for any number of processes, threads and      *)
(* packets, and any QUEUE_LIMIT, /dev/camex is the pipe of TunPipe.        *)
(*                                                                         *)
(* open() sets `attached' with no lock held and close() clears it under    *)
(* rx_lock, so the argument rests on where each process is: at most one is *)
(* between the two (KmodInv).                                              *)
(***************************************************************************)
EXTENDS KmodQueue, TLAPS

\* At most one process is not closed, and `attached' says whether one is
OneUser ==
    /\ \A u, v \in Users : upc[u] # "closed" /\ upc[v] # "closed" => u = v
    /\ (attached = TRUE) <=> \E u \in Users : upc[u] # "closed"

\* Nothing is queued for nobody, a thread is in a call only while the device
\* is open, and has a packet only while it copies it
CallsOwned ==
    /\ attached = FALSE => rx_queue = <<>>
    /\ \A r \in Readers :
           /\ rpc[r] # "idle" => \E u \in Users : upc[u] = "open"
           /\ taken[r] = NoPacket <=> rpc[r] # "copy"

\* The inductive invariant
KmodInv == TypeOK /\ CountExact /\ CarrierWhileOpen /\ OneUser /\ CallsOwned

----------------------------------------------------------------------------
(* The invariant is inductive *)

\* The queue after init and after a flush
LEMMA EmptyQueue == <<>> \in Seq(Packets) /\ Len(<<>>) = 0
OBVIOUS

\* A module that was just loaded
LEMMA InitInv == Init => KmodInv
<1> SUFFICES ASSUME Init PROVE KmodInv
  OBVIOUS
<1>1. TypeOK /\ CountExact
  <2>1. rx_queue \in Seq(Packets) /\ Len(rx_queue) = 0
    BY EmptyQueue, Zenon DEF Init
  <2>2. rx_count \in 0 .. QueueLimit /\ rx_count = 0
    BY KmodAssumption DEF Init
  <2>3. /\ upc \in [Users -> UserPc] /\ rpc \in [Readers -> ReaderPc]
        /\ call \in [Readers -> Calls]
        /\ taken \in [Readers -> Packets \cup {NoPacket}]
    BY DEF Init, UserPc, ReaderPc, Calls
  <2>4. /\ attached \in BOOLEAN /\ carrier \in BOOLEAN /\ up \in BOOLEAN
        /\ waiting \subseteq Readers /\ waking \in BOOLEAN
    BY DEF Init
  <2> QED
    BY <2>1, <2>2, <2>3, <2>4 DEF TypeOK, CountExact
<1>2. CarrierWhileOpen /\ OneUser /\ CallsOwned
  BY DEF Init, CarrierWhileOpen, OneUser, CallsOwned
<1> QED
  BY <1>1, <1>2 DEF KmodInv

\* The steps of a process: open() and close().
LEMMA UserStepInv ==
    ASSUME KmodInv, NEW u \in Users, UserStep(u)
    PROVE  KmodInv'
<1> USE KmodAssumption DEF KmodInv, TypeOK, CountExact, CarrierWhileOpen, OneUser,
        CallsOwned, UserPc, queueVars, readerVars
<1>1. CASE OpenAttach(u)
  BY <1>1 DEF OpenAttach
<1>2. CASE OpenCarrier(u)
  BY <1>2 DEF OpenCarrier
<1>3. CASE ReleaseCarrier(u)
  BY <1>3 DEF ReleaseCarrier
<1>4. CASE ReleaseDetach(u)
  <2>1. TypeOK' /\ CountExact'
    <3>1. rx_queue' \in Seq(Packets) /\ Len(rx_queue') = 0
      BY <1>4, EmptyQueue, Zenon DEF ReleaseDetach
    <3>2. rx_count' \in 0 .. QueueLimit /\ rx_count' = 0
      BY <1>4 DEF ReleaseDetach
    <3>3. upc' \in [Users -> UserPc]
      BY <1>4 DEF ReleaseDetach
    <3>4. /\ attached' \in BOOLEAN
          /\ UNCHANGED <<carrier, up, rpc, call, waiting, taken, waking>>
      BY <1>4 DEF ReleaseDetach
    <3> HIDE DEF UserPc
    <3> QED
      BY <3>1, <3>2, <3>3, <3>4
  <2>2. CarrierWhileOpen' /\ OneUser'
    BY <1>4 DEF ReleaseDetach
  <2>3. CallsOwned'
    BY <1>4 DEF ReleaseDetach
  <2> QED
    BY <2>1, <2>2, <2>3
<1> QED
  BY <1>1, <1>2, <1>3, <1>4 DEF UserStep

\* A packet that is queued.
LEMMA XmitInv ==
    ASSUME KmodInv, NEW p \in Packets, Xmit(p)
    PROVE  KmodInv'
BY KmodAssumption DEF KmodInv, TypeOK, CountExact, CarrierWhileOpen, OneUser,
   CallsOwned, userVars, readerVars, Xmit

\* The steps of a thread in read() or poll().
LEMMA ReaderStepInv ==
    ASSUME KmodInv, NEW r \in Readers,
           \/ ReaderStep(r) \/ Interrupt(r)
           \/ \E c \in Calls : Start(r, c)
    PROVE  KmodInv'
<1> USE KmodAssumption DEF KmodInv, TypeOK, CountExact, CarrierWhileOpen, OneUser,
        CallsOwned, ReaderPc, Calls, userVars, queueVars, Go
<1>1. CASE Peek(r)
  BY <1>1 DEF Peek
<1>2. CASE Prepare(r)
  BY <1>2 DEF Prepare
<1>3. CASE Test(r)
  BY <1>3 DEF Test
<1>4. CASE Resume(r)
  BY <1>4 DEF Resume
<1>5. CASE TakeNone(r)
  BY <1>5 DEF TakeNone
<1>6. CASE Take(r)
  <2>1. /\ rx_queue # <<>> /\ rx_queue \in Seq(Packets)
        /\ Head(rx_queue) \in Packets
        /\ Tail(rx_queue) \in Seq(Packets)
        /\ Len(Tail(rx_queue)) = Len(rx_queue) - 1
        /\ Len(rx_queue) \in Nat /\ Len(rx_queue) > 0
    BY <1>6 DEF Take
  <2>2. TypeOK' /\ CountExact'
    BY <1>6, <2>1 DEF Take
  <2>3. CarrierWhileOpen' /\ OneUser'
    BY <1>6 DEF Take
  <2>4. CallsOwned'
    BY <1>6, <2>1 DEF Take
  <2> QED
    BY <2>2, <2>3, <2>4
<1>7. CASE Copy(r)
  BY <1>7 DEF Copy
<1>8. CASE Interrupt(r)
  BY <1>8 DEF Interrupt
<1>9. CASE \E c \in Calls : Start(r, c)
  BY <1>9 DEF Start
<1> QED
  BY <1>1, <1>2, <1>3, <1>4, <1>5, <1>6, <1>7, <1>8, <1>9 DEF ReaderStep

\* Each step of users, packets and the device keeps the invariant.
LEMMA NextInv == KmodInv /\ [Next]_vars => KmodInv'
<1> SUFFICES ASSUME KmodInv, [Next]_vars PROVE KmodInv'
  OBVIOUS
<1>1. CASE \E u \in Users : UserStep(u)
  BY <1>1, UserStepInv
<1>2. CASE \E on \in BOOLEAN : SetUp(on)
  BY <1>2 DEF SetUp, KmodInv, TypeOK, CountExact, CarrierWhileOpen, OneUser,
     CallsOwned, userVars, queueVars, readerVars
<1>3. CASE \E p \in Packets : Xmit(p)
  BY <1>3, XmitInv
<1>4. CASE Wake
  BY <1>4 DEF Wake, KmodInv, TypeOK, CountExact, CarrierWhileOpen, OneUser,
     CallsOwned, userVars, queueVars
<1>5. CASE \E r \in Readers : \/ ReaderStep(r) \/ Interrupt(r)
                              \/ \E c \in Calls : Start(r, c)
  BY <1>5, ReaderStepInv
<1>6. CASE UNCHANGED vars
  BY <1>6 DEF vars, KmodInv, TypeOK, CountExact, CarrierWhileOpen, OneUser, CallsOwned
<1> QED
  BY <1>1, <1>2, <1>3, <1>4, <1>5, <1>6 DEF Next

\* The invariant holds of every state.
LEMMA InvHolds == Spec => []KmodInv
BY InitInv, NextInv, PTL DEF Spec

----------------------------------------------------------------------------
(* The theorems *)

\* rx_count is the length of the queue, whatever closes and flushes happen
\* while the stack queues packets.
THEOREM Counted == Spec => []CountExact
<1>1. KmodInv => CountExact
  BY DEF KmodInv
<1> QED
  BY <1>1, InvHolds, PTL

\* The process that has the device open has a carrier, whoever closed it
\* before.
THEOREM Carried == Spec => []CarrierWhileOpen
<1>1. KmodInv => CarrierWhileOpen
  BY DEF KmodInv
<1> QED
  BY <1>1, InvHolds, PTL

\* Whom the refinement calls the user.
LEMMA OwnerIs ==
    ASSUME KmodInv
    PROVE  /\ attached = FALSE => Owner = NoUser
           /\ \A u \in Users : upc[u] # "closed" => Owner = u
BY DEF Owner, KmodInv, OneUser, TypeOK

\* A step of a process is one of the pipe.
LEMMA UserStepRefines ==
    ASSUME KmodInv, KmodInv', NEW u \in Users, UserStep(u)
    PROVE  Pipe!Next \/ UNCHANGED Pipe!vars
<1>1. /\ attached = FALSE => Owner = NoUser
      /\ \A v \in Users : upc[v] # "closed" => Owner = v
  BY OwnerIs
<1>2. /\ attached' = FALSE => Owner' = NoUser
      /\ \A v \in Users : upc'[v] # "closed" => Owner' = v
  BY DEF Owner, KmodInv, OneUser, TypeOK
<1>3. upc \in [Users -> UserPc] /\ attached \in BOOLEAN
  BY DEF KmodInv, TypeOK
<1>4. CASE OpenAttach(u)
  <2>1. Owner = NoUser /\ Owner' = u
    BY <1>1, <1>2, <1>3, <1>4 DEF OpenAttach
  <2>2. Pipe!Attach(u)
    BY <2>1, <1>4 DEF Pipe!Attach, OpenAttach, queueVars, readerVars
  <2> QED
    BY <2>2 DEF Pipe!Next
<1>5. CASE OpenCarrier(u) \/ ReleaseCarrier(u)
  <2>1. Owner = u /\ Owner' = u
    BY <1>1, <1>2, <1>3, <1>5 DEF OpenCarrier, ReleaseCarrier
  <2> QED
    BY <2>1, <1>5 DEF OpenCarrier, ReleaseCarrier, Pipe!vars, queueVars, readerVars
<1>6. CASE ReleaseDetach(u)
  <2>1. Owner = u /\ Owner' = NoUser
    BY <1>1, <1>2, <1>6 DEF ReleaseDetach
  <2>2. \A r \in Readers : taken[r] = NoPacket
    BY <1>6 DEF ReleaseDetach, KmodInv, OneUser, CallsOwned
  <2>3. taken = [r \in Readers |-> NoPacket]
    BY <2>2 DEF KmodInv, TypeOK
  <2>4. Pipe!Detach
    BY <2>1, <2>3, <1>6, KmodAssumption DEF Pipe!Detach, ReleaseDetach, readerVars
  <2> QED
    BY <2>4 DEF Pipe!Next
<1> QED
  BY <1>4, <1>5, <1>6 DEF UserStep

\* Everything else leaves the user alone; a packet is queued, taken, or
\* returned, or nothing is seen of the step.
LEMMA OtherStepRefines ==
    ASSUME KmodInv, UNCHANGED userVars,
           \/ \E p \in Packets : Xmit(p)
           \/ \E r \in Readers : Take(r) \/ Copy(r)
           \/ UNCHANGED <<rx_queue, taken>>
    PROVE  Pipe!Next \/ UNCHANGED Pipe!vars
<1>1. Owner' = Owner
  BY DEF Owner, userVars
<1>2. attached = TRUE => Owner \in Users /\ Owner # NoUser
  BY OwnerIs, KmodAssumption DEF KmodInv, OneUser
<1>3. CASE \E p \in Packets : Xmit(p)
  <2>1. PICK p \in Packets : Xmit(p)
    BY <1>3
  <2>2. Pipe!Put(p)
    BY <1>1, <1>2, <2>1 DEF Pipe!Put, Xmit, readerVars, KmodInv, TypeOK, CountExact
  <2> QED
    BY <2>2 DEF Pipe!Next
<1>4. CASE \E r \in Readers : Take(r) \/ Copy(r)
  <2>1. PICK r \in Readers : Take(r) \/ Copy(r)
    BY <1>4
  <2>2. CASE Take(r)
    <3>1. attached = TRUE /\ taken[r] = NoPacket
      BY <2>2 DEF Take, KmodInv, TypeOK, CallsOwned
    <3>2. Pipe!Take(r)
      BY <1>1, <1>2, <2>2, <3>1 DEF Pipe!Take, Take
    <3> QED
      BY <3>2 DEF Pipe!Next
  <2>3. CASE Copy(r)
    <3>1. taken[r] # NoPacket
      BY <2>3 DEF Copy, KmodInv, CallsOwned
    <3>2. Pipe!Return(r)
      BY <1>1, <2>3, <3>1 DEF Pipe!Return, Copy, queueVars
    <3> QED
      BY <3>2 DEF Pipe!Next
  <2> QED
    BY <2>1, <2>2, <2>3
<1>5. CASE UNCHANGED <<rx_queue, taken>>
  BY <1>1, <1>5 DEF Pipe!vars
<1> QED
  BY <1>3, <1>4, <1>5

\* /dev/camex has one user at a time, who gets the packets queued while it
\* has the device, in order, each once.
THEOREM IsPipe == Spec => PipeSpec
<1>1. Init => Pipe!Init
  BY DEF Init, Pipe!Init, Owner
<1>2. KmodInv /\ KmodInv' /\ [Next]_vars => [Pipe!Next]_(Pipe!vars)
  <2> SUFFICES ASSUME KmodInv, KmodInv', [Next]_vars
               PROVE  Pipe!Next \/ UNCHANGED Pipe!vars
    OBVIOUS
  <2>1. CASE \E u \in Users : UserStep(u)
    BY <2>1, UserStepRefines
  <2>2. CASE \/ \E on \in BOOLEAN : SetUp(on)
             \/ \E p \in Packets : Xmit(p)
             \/ Wake
             \/ UNCHANGED vars
    <3>1. UNCHANGED userVars
      BY <2>2 DEF SetUp, Xmit, Wake, vars, userVars
    <3>2. (\E p \in Packets : Xmit(p)) \/ UNCHANGED <<rx_queue, taken>>
      BY <2>2 DEF SetUp, Wake, vars, queueVars, readerVars
    <3> QED
      BY <3>1, <3>2, OtherStepRefines
  <2>3. CASE \E r \in Readers : \/ ReaderStep(r) \/ Interrupt(r)
                                \/ \E c \in Calls : Start(r, c)
    <3>1. PICK r \in Readers : \/ ReaderStep(r) \/ Interrupt(r)
                               \/ \E c \in Calls : Start(r, c)
      BY <2>3
    <3>2. UNCHANGED userVars
      BY <3>1 DEF ReaderStep, Interrupt, Start, Peek, Prepare, Test, Resume,
         TakeNone, Take, Copy, userVars
    <3>3. Take(r) \/ Copy(r) \/ UNCHANGED <<rx_queue, taken>>
      BY <3>1 DEF ReaderStep, Interrupt, Start, Peek, Prepare, Test, Resume,
         TakeNone, queueVars
    <3> QED
      BY <3>2, <3>3, OtherStepRefines
  <2> QED
    BY <2>1, <2>2, <2>3 DEF Next
<1> QED
  BY <1>1, <1>2, InvHolds, PTL DEF Spec, PipeSpec, Pipe!Spec

=============================================================================
