---------------------------- MODULE ReplayWindow ----------------------------
(***************************************************************************)
(* One direction of a session (src/src/session.c): the sender's counter    *)
(* and the receiver's window of counters.  Between them packets are lost,  *)
(* duplicated, reordered and damaged: any packet sent may arrive at any    *)
(* time, any number of times.                                              *)
(*                                                                         *)
(* A word of the bitmap is the set of its bits that are set; `received' is *)
(* not in the code: it is what the bitmap stands for.                      *)
(***************************************************************************)
EXTENDS Naturals, FiniteSets

CONSTANTS
    Words,      \* V2_REPLAY_WINDOW / 64
    Bits,       \* 64
    RejectAfter \* V2_REJECT_AFTER_MSGS

ASSUME WindowAssumption ==
    Words \in Nat \ {0} /\ Bits \in Nat \ {0} /\ RejectAfter \in Nat

VARIABLES
    send_n,     \* send_n of the sender's session
    any,        \* replay.any of the receiver's
    max,        \* replay.max
    bits,       \* replay.bits
    received    \* the counters session_open() accepted

vars == <<send_n, any, max, bits, received>>

Counter == 0 .. RejectAfter - 1

Word(n) == n \div Bits
Bit(n) == n % Bits
Slot(w) == w % Words

Window == [0 .. Words - 1 -> SUBSET (0 .. Bits - 1)]
Empty == [s \in 0 .. Words - 1 |-> {}]

\* Mutant: a word too far back is taken for one in the ring
Accepts_Back(n) ==
    /\ n < RejectAfter
    /\ any /\ n <= max =>
          Word(max) - Word(n) <= Words /\ Bit(n) \notin bits[Slot(Word(n))]

\* replay_check() = 0
Accepts(n) ==
    /\ n < RejectAfter
    /\ any /\ n <= max =>
          Word(max) - Word(n) < Words /\ Bit(n) \notin bits[Slot(Word(n))]

\* Mutant: the word the window stops at is not cleared
Moved_Short(n) ==
    IF ~any THEN Empty
    ELSE IF n <= max THEN bits
    ELSE IF Word(n) - Word(max) >= Words THEN Empty
    ELSE LET over == {Slot(w) : w \in Word(max) + 1 .. Word(n) - 1}
         IN [s \in 0 .. Words - 1 |-> IF s \in over THEN {} ELSE bits[s]]

\* The ring once the window has moved to n: the words it moves over are empty
Moved(n) ==
    IF ~any THEN Empty
    ELSE IF n <= max THEN bits
    ELSE IF Word(n) - Word(max) >= Words THEN Empty
    ELSE LET over == {Slot(w) : w \in Word(max) + 1 .. Word(n)}
         IN [s \in 0 .. Words - 1 |-> IF s \in over THEN {} ELSE bits[s]]

\* replay_record()
Record(n) ==
    /\ bits' = [Moved(n) EXCEPT ![Slot(Word(n))] = @ \cup {Bit(n)}]
    /\ max' = IF ~any \/ n > max THEN n ELSE max
    /\ any' = TRUE

Init ==
    /\ send_n = 0
    /\ any = FALSE /\ max = 0 /\ bits = Empty
    /\ received = {}

\* session_seal()
Seal ==
    /\ send_n < RejectAfter
    /\ send_n' = send_n + 1
    /\ UNCHANGED <<any, max, bits, received>>

\* session_open() of a packet that was sent
Open(n) ==
    /\ n < send_n
    /\ Accepts(n)
    /\ Record(n)
    /\ received' = received \cup {n}
    /\ UNCHANGED send_n

\* session_open() of a damaged packet: nothing is recorded
OpenDamaged(n) ==
    /\ Accepts(n)
    /\ UNCHANGED vars

Next == Seal \/ \E n \in Counter : Open(n) \/ OpenDamaged(n)

Spec == Init /\ [][Next]_vars

----------------------------------------------------------------------------
(* Properties *)

\* The types of the variables.
TypeOK ==
    /\ send_n \in 0 .. RejectAfter
    /\ any \in BOOLEAN /\ max \in Nat
    /\ bits \in Window
    /\ received \subseteq Counter

\* A packet received once is never accepted again (replay_check()), however
\* far the window has moved and wherever its counter's word is in the ring.
ReceivedRejected == \A n \in received : ~Accepts(n)

\* A packet not received yet is accepted while it is no more than
\* V2_REPLAY_WINDOW - 64 behind the newest: reordering costs nothing, bits
\* of an older turn of the ring, duplicates and damaged packets included.
FreshAccepted ==
    \A n \in 0 .. send_n - 1 :
        n \notin received /\ (~any \/ n + (Words - 1) * Bits >= max) => Accepts(n)

=============================================================================
