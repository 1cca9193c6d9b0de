----------------------------- MODULE KmodQueue -----------------------------
(***************************************************************************)
(* The kernel module (src/src/camex-k.c): /dev/camex has one user at a     *)
(* time, the network stack queues packets for it, its threads read them.   *)
(*                                                                         *)
(* A step is what one CPU does under rx_lock, or one access outside it:    *)
(* open(), close(), xmit and reads interleave between them.  The kernel is *)
(* external: a file is not released while a call on it runs, one xmit of a *)
(* device runs at a time, and prepare_to_wait(), schedule() and wake_up()  *)
(* are those of wait_event_interruptible() and poll().                     *)
(*                                                                         *)
(* Not here: write(), which keeps no state, and loading and unloading (the *)
(* kernel unloads no module with an open file).                            *)
(***************************************************************************)
EXTENDS Naturals, Sequences

CONSTANTS
    Users,      \* processes that open /dev/camex
    NoUser,
    Readers,    \* threads that call read() or poll() on the open file
    Packets,
    NoPacket,
    QueueLimit  \* QUEUE_LIMIT

ASSUME KmodAssumption ==
    NoUser \notin Users /\ NoPacket \notin Packets /\ QueueLimit \in Nat

VARIABLES
    attached,   \* priv->attached
    carrier,    \* netif_carrier_ok()
    up,         \* the interface is up: the stack calls xmit
    rx_queue,   \* priv->rx_queue
    rx_count,   \* priv->rx_count
    upc,        \* where each process is in open() and close()
    rpc,        \* where each thread is in read() or poll()
    call,       \* the call it is in
    waiting,    \* threads on priv->rx_wait that nobody has woken
    taken,      \* the packet a thread has taken off the queue
    waking      \* xmit has queued a packet and not called wake_up() yet

vars == <<attached, carrier, up, rx_queue, rx_count, upc, rpc, call, waiting,
          taken, waking>>
userVars == <<attached, carrier, upc>>
queueVars == <<rx_queue, rx_count>>
readerVars == <<rpc, call, waiting, taken>>

UserPc == {"closed", "attaching", "open", "releasing"}
ReaderPc == {"idle", "peek", "prepare", "test", "sleep", "take", "copy"}
Calls == {"read", "nonblock", "poll"}

----------------------------------------------------------------------------
(* open() and close() *)

\* camex_chr_open(), the atomic_cmpxchg(); the others get EBUSY
OpenAttach(u) ==
    /\ upc[u] = "closed"
    /\ ~attached
    /\ attached' = TRUE
    /\ upc' = [upc EXCEPT ![u] = "attaching"]
    /\ UNCHANGED <<carrier, up, queueVars, readerVars, waking>>

OpenCarrier(u) ==
    /\ upc[u] = "attaching"
    /\ carrier' = TRUE
    /\ upc' = [upc EXCEPT ![u] = "open"]
    /\ UNCHANGED <<attached, up, queueVars, readerVars, waking>>

\* camex_chr_release(): the last reference to the file is gone
ReleaseCarrier(u) ==
    /\ upc[u] = "open"
    /\ \A r \in Readers : rpc[r] = "idle"
    /\ carrier' = FALSE
    /\ upc' = [upc EXCEPT ![u] = "releasing"]
    /\ UNCHANGED <<attached, up, queueVars, readerVars, waking>>

\* Mutant: the counter is not reset
ReleaseDetach_Count(u) ==
    /\ upc[u] = "releasing"
    /\ rx_queue' = <<>>
    /\ attached' = FALSE
    /\ upc' = [upc EXCEPT ![u] = "closed"]
    /\ UNCHANGED <<carrier, up, rx_count, readerVars, waking>>

\* Mutant: the carrier goes off after the device is free
ReleaseDetach_Carrier(u) ==
    /\ upc[u] = "releasing"
    /\ IF attached /\ \A v \in Users \ {u} : upc[v] = "closed"
       THEN /\ rx_queue' = <<>> /\ rx_count' = 0 /\ attached' = FALSE
            /\ UNCHANGED <<carrier, upc>>
       ELSE /\ carrier' = FALSE
            /\ upc' = [upc EXCEPT ![u] = "closed"]
            /\ UNCHANGED <<attached, queueVars>>
    /\ UNCHANGED <<up, readerVars, waking>>

\* ... under rx_lock: flush and detach
ReleaseDetach(u) ==
    /\ upc[u] = "releasing"
    /\ rx_queue' = <<>>
    /\ rx_count' = 0
    /\ attached' = FALSE
    /\ upc' = [upc EXCEPT ![u] = "closed"]
    /\ UNCHANGED <<carrier, up, readerVars, waking>>

----------------------------------------------------------------------------
(* The network stack *)

\* camex_net_open(), camex_net_stop()
SetUp(on) ==
    /\ up' = on
    /\ UNCHANGED <<userVars, queueVars, readerVars, waking>>

\* Mutant: a packet is queued whether or not somebody is attached
Xmit_Unattached(p) ==
    /\ up /\ ~waking
    /\ rx_count < QueueLimit
    /\ rx_queue' = Append(rx_queue, p)
    /\ rx_count' = rx_count + 1
    /\ waking' = TRUE
    /\ UNCHANGED <<userVars, up, readerVars>>

\* camex_net_xmit(), under rx_lock.  A packet that is dropped (nobody
\* attached, no room, no memory) changes nothing.
Xmit(p) ==
    /\ up /\ ~waking
    /\ attached
    /\ rx_count < QueueLimit
    /\ rx_queue' = Append(rx_queue, p)
    /\ rx_count' = rx_count + 1
    /\ waking' = TRUE
    /\ UNCHANGED <<userVars, up, readerVars>>

\* Mutant: one thread is woken
Wake_One ==
    /\ waking
    /\ waking' = FALSE
    /\ waiting' \in IF waiting = {} THEN {{}} ELSE {waiting \ {r} : r \in waiting}
    /\ UNCHANGED <<userVars, up, queueVars, rpc, call, taken>>

\* wake_up_interruptible(): everybody on rx_wait
Wake ==
    /\ waking
    /\ waking' = FALSE
    /\ waiting' = {}
    /\ UNCHANGED <<userVars, up, queueVars, rpc, call, taken>>

----------------------------------------------------------------------------
(* read() and poll() *)

Go(r, pc) == rpc' = [rpc EXCEPT ![r] = pc]

\* A thread of the process that has the device open calls
Start(r, c) ==
    /\ rpc[r] = "idle"
    /\ \E u \in Users : upc[u] = "open"
    /\ Go(r, IF c = "nonblock" THEN "peek" ELSE "prepare")
    /\ call' = [call EXCEPT ![r] = c]
    /\ UNCHANGED <<userVars, up, queueVars, waiting, taken, waking>>

\* camex_chr_read() with O_NONBLOCK: EAGAIN when the queue is empty
Peek(r) ==
    /\ rpc[r] = "peek"
    /\ Go(r, IF rx_queue = <<>> THEN "idle" ELSE "take")
    /\ UNCHANGED <<userVars, up, queueVars, call, waiting, taken, waking>>

\* wait_event_interruptible() and poll_wait(): first on the wait queue, ...
Prepare(r) ==
    /\ rpc[r] = "prepare"
    /\ waiting' = waiting \cup {r}
    /\ Go(r, "test")
    /\ UNCHANGED <<userVars, up, queueVars, call, taken, waking>>

\* ... then the condition
Test(r) ==
    /\ rpc[r] = "test"
    /\ IF rx_queue # <<>>
       THEN /\ Go(r, IF call[r] = "poll" THEN "idle" ELSE "take")
            /\ waiting' = waiting \ {r}
       ELSE Go(r, "sleep") /\ UNCHANGED waiting
    /\ UNCHANGED <<userVars, up, queueVars, call, taken, waking>>

\* Woken: once more from the start
Resume(r) ==
    /\ rpc[r] = "sleep" /\ r \notin waiting
    /\ Go(r, "prepare")
    /\ UNCHANGED <<userVars, up, queueVars, call, waiting, taken, waking>>

\* A signal (ERESTARTSYS), or the timeout of poll()
Interrupt(r) ==
    /\ rpc[r] = "sleep"
    /\ Go(r, "idle")
    /\ waiting' = waiting \ {r}
    /\ UNCHANGED <<userVars, up, queueVars, call, taken, waking>>

\* camex_chr_read() under rx_lock: another thread may have been faster
TakeNone(r) ==
    /\ rpc[r] = "take" /\ rx_queue = <<>>
    /\ Go(r, "idle")
    /\ UNCHANGED <<userVars, up, queueVars, call, waiting, taken, waking>>

Take(r) ==
    /\ rpc[r] = "take" /\ rx_queue # <<>>
    /\ taken' = [taken EXCEPT ![r] = Head(rx_queue)]
    /\ rx_queue' = Tail(rx_queue)
    /\ rx_count' = rx_count - 1
    /\ Go(r, "copy")
    /\ UNCHANGED <<userVars, up, call, waiting, waking>>

\* The packet to the caller; EMSGSIZE and EFAULT drop it
Copy(r) ==
    /\ rpc[r] = "copy"
    /\ taken' = [taken EXCEPT ![r] = NoPacket]
    /\ Go(r, "idle")
    /\ UNCHANGED <<userVars, up, queueVars, call, waiting, waking>>

----------------------------------------------------------------------------
\* camex_init(): the carrier of a new net_device is on
Init ==
    /\ attached = FALSE /\ carrier = TRUE /\ up = FALSE
    /\ rx_queue = <<>> /\ rx_count = 0
    /\ upc = [u \in Users |-> "closed"]
    /\ rpc = [r \in Readers |-> "idle"]
    /\ call = [r \in Readers |-> "read"]
    /\ waiting = {}
    /\ taken = [r \in Readers |-> NoPacket]
    /\ waking = FALSE

UserStep(u) == OpenAttach(u) \/ OpenCarrier(u) \/ ReleaseCarrier(u) \/ ReleaseDetach(u)

\* What a thread in a call does by itself
ReaderStep(r) ==
    Peek(r) \/ Prepare(r) \/ Test(r) \/ Resume(r) \/ TakeNone(r) \/ Take(r) \/ Copy(r)

Next ==
    \/ \E u \in Users : UserStep(u)
    \/ \E on \in BOOLEAN : SetUp(on)
    \/ \E p \in Packets : Xmit(p)
    \/ Wake
    \/ \E r \in Readers : \/ ReaderStep(r) \/ Interrupt(r)
                          \/ \E c \in Calls : Start(r, c)

Spec == Init /\ [][Next]_vars

\* The kernel goes on with a call it is in
Fairness == WF_vars(Wake) /\ \A r \in Readers : WF_vars(ReaderStep(r))

FairSpec == Spec /\ Fairness

----------------------------------------------------------------------------
(* Properties *)

\* The types of the variables.
TypeOK ==
    /\ attached \in BOOLEAN /\ carrier \in BOOLEAN /\ up \in BOOLEAN
    /\ rx_queue \in Seq(Packets) /\ rx_count \in 0 .. QueueLimit
    /\ upc \in [Users -> UserPc]
    /\ rpc \in [Readers -> ReaderPc]
    /\ call \in [Readers -> Calls]
    /\ waiting \subseteq Readers
    /\ taken \in [Readers -> Packets \cup {NoPacket}]
    /\ waking \in BOOLEAN

\* rx_count, which camex_net_xmit() compares with QUEUE_LIMIT, counts the
\* queue, through every flush.
CountExact == rx_count = Len(rx_queue)

\* The process that has the device has a carrier, and a process that closes
\* it takes the carrier from no other.
CarrierWhileOpen == \A u \in Users : upc[u] = "open" => carrier

\* Who has the device
Owner == IF attached /\ \E u \in Users : upc[u] # "closed"
         THEN CHOOSE u \in Users : upc[u] # "closed" ELSE NoUser

\* One user at a time, its own packets only, in order, each to one reader.
Pipe == INSTANCE TunPipe WITH user <- Owner, queue <- rx_queue, Limit <- QueueLimit
PipeSpec == Pipe!Spec

\* No wake-up is lost: a thread does not sleep for ever beside a packet.
NoLostWakeup ==
    \A r \in Readers :
        rpc[r] = "sleep" /\ rx_queue # <<>> ~> rpc[r] # "sleep" \/ rx_queue = <<>>

=============================================================================
