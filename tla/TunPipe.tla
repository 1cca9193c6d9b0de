------------------------------ MODULE TunPipe ------------------------------
(***************************************************************************)
(* What /dev/camex promises its user (docs/kernel-module.md, Character     *)
(* Device API): one user at a time, and to each the packets of its own     *)
(* time, in order, each to one reader.                                     *)
(***************************************************************************)
EXTENDS Naturals, Sequences

CONSTANTS
    Users,      \* processes that open the device
    NoUser,
    Readers,    \* threads that read
    Packets,
    NoPacket,
    Limit       \* packets kept

VARIABLES
    user,       \* who has the device
    queue,      \* the packets it has not read
    taken       \* the packet a reader has taken and not returned yet

vars == <<user, queue, taken>>

Init ==
    /\ user = NoUser
    /\ queue = <<>>
    /\ taken = [r \in Readers |-> NoPacket]

Attach(u) ==
    /\ user = NoUser
    /\ user' = u
    /\ UNCHANGED <<queue, taken>>

\* Nothing is left for the next user
Detach ==
    /\ user # NoUser
    /\ taken = [r \in Readers |-> NoPacket]
    /\ user' = NoUser
    /\ queue' = <<>>
    /\ UNCHANGED taken

Put(p) ==
    /\ user # NoUser
    /\ Len(queue) < Limit
    /\ queue' = Append(queue, p)
    /\ UNCHANGED <<user, taken>>

Take(r) ==
    /\ user # NoUser
    /\ taken[r] = NoPacket
    /\ queue # <<>>
    /\ taken' = [taken EXCEPT ![r] = Head(queue)]
    /\ queue' = Tail(queue)
    /\ UNCHANGED user

Return(r) ==
    /\ taken[r] # NoPacket
    /\ taken' = [taken EXCEPT ![r] = NoPacket]
    /\ UNCHANGED <<user, queue>>

Next ==
    \/ \E u \in Users : Attach(u)
    \/ Detach
    \/ \E p \in Packets : Put(p)
    \/ \E r \in Readers : Take(r) \/ Return(r)

Spec == Init /\ [][Next]_vars

=============================================================================
