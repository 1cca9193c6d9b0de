------------------------ MODULE ReplayWindow_proofs ------------------------
(***************************************************************************)
(* Theorems about ReplayWindow, for any number of words and bits, so for   *)
(* the 32 words of 64 bits of the code.                                    *)
(*                                                                         *)
(* The ring says of every counter whose word is in it whether it was       *)
(* received (RingExact).  Three facts of arithmetic carry it: a counter is *)
(* its word and its bit, words grow with counters, and words less than a   *)
(* turn apart have different slots.                                        *)
(***************************************************************************)
EXTENDS ReplayWindow, Integers, TLAPS

\* The ring agrees with the counters received
InRing(n) == Word(n) <= Word(max) /\ Word(max) - Word(n) < Words

RingExact ==
    /\ any = FALSE => received = {}
    /\ any = TRUE => /\ \A n \in received : n <= max
                     /\ \A n \in Counter : InRing(n) =>
                           (Bit(n) \in bits[Slot(Word(n))] <=> n \in received)

WindowInv == TypeOK /\ RingExact

----------------------------------------------------------------------------
(* Arithmetic *)

\* A counter lies in its word, at its bit.
LEMMA WordBit ==
    ASSUME NEW n \in Nat
    PROVE  /\ Word(n) \in Nat /\ Bit(n) \in 0 .. Bits - 1
           /\ n = Bits * Word(n) + Bit(n)
BY WindowAssumption DEF Word, Bit

\* A multiple of a positive number is zero or at least that number.
LEMMA Multiple ==
    ASSUME NEW k \in Nat \ {0}, NEW x \in Int, NEW y \in Int, x < y
    PROVE  k * y >= k * x + k
<1>1. y - x >= 1
  OBVIOUS
<1>2. k * (y - x) >= k
  BY <1>1
<1>3. k * (y - x) = k * y - k * x
  OBVIOUS
<1> QED
  BY <1>2, <1>3

\* Counters in one word at one bit are the same.
LEMMA SamePlace ==
    ASSUME NEW m \in Nat, NEW n \in Nat, Word(m) = Word(n), Bit(m) = Bit(n)
    PROVE  m = n
BY WordBit

\* Words grow with counters.
LEMMA WordMonotonic ==
    ASSUME NEW m \in Nat, NEW n \in Nat, m <= n
    PROVE  Word(m) <= Word(n)
<1> DEFINE wm == Word(m)
           wn == Word(n)
           bm == Bit(m)
           bn == Bit(n)
<1>1. /\ wm \in Nat /\ bm \in 0 .. Bits - 1 /\ m = Bits * wm + bm
      /\ wn \in Nat /\ bn \in 0 .. Bits - 1 /\ n = Bits * wn + bn
  BY WordBit
<1>2. Bits \in Nat \ {0}
  BY WindowAssumption
<1> HIDE DEF wm, wn, bm, bn
<1>3. ASSUME wn < wm PROVE FALSE
  <2>1. Bits * wm >= Bits * wn + Bits
    BY <1>1, <1>2, <1>3, Multiple
  <2> QED
    BY <1>1, <1>2, <2>1
<1>4. wm <= wn
  BY <1>1, <1>3
<1> QED
  BY <1>4 DEF wm, wn

\* Words less than a turn apart have different slots.
LEMMA SlotDistinct ==
    ASSUME NEW v \in Nat, NEW w \in Nat, v < w, w - v < Words
    PROVE  Slot(v) # Slot(w)
<1> DEFINE qv == v \div Words
           qw == w \div Words
<1>1. /\ qv \in Int /\ qw \in Int /\ Words \in Nat \ {0}
      /\ v = Words * qv + Slot(v) /\ w = Words * qw + Slot(w)
      /\ Slot(v) \in 0 .. Words - 1 /\ Slot(w) \in 0 .. Words - 1
  BY WindowAssumption DEF Slot
<1> HIDE DEF qv, qw
<1> SUFFICES ASSUME Slot(v) = Slot(w) PROVE FALSE
  OBVIOUS
<1>2. CASE qv < qw
  <2>1. Words * qw >= Words * qv + Words
    BY <1>1, <1>2, Multiple
  <2> QED
    BY <1>1, <2>1
<1>3. CASE qw < qv
  <2>1. Words * qv >= Words * qw + Words
    BY <1>1, <1>3, Multiple
  <2> QED
    BY <1>1, <2>1
<1>4. CASE qv = qw
  BY <1>1, <1>4
<1> QED
  BY <1>1, <1>2, <1>3, <1>4

\* A word's slot.
LEMMA SlotType ==
    ASSUME NEW w \in Nat
    PROVE  Slot(w) \in 0 .. Words - 1
BY WindowAssumption DEF Slot

----------------------------------------------------------------------------
(* The ring *)

\* A counter's word, bit and slot.
LEMMA Place ==
    ASSUME NEW n \in Counter
    PROVE  /\ n \in Nat /\ Word(n) \in Nat /\ Bit(n) \in 0 .. Bits - 1
           /\ Slot(Word(n)) \in 0 .. Words - 1
<1>1. n \in Nat
  BY WindowAssumption DEF Counter
<1> QED
  BY <1>1, WordBit, SlotType

\* The ring moved to n is a ring.
LEMMA MovedType ==
    ASSUME TypeOK, NEW n \in Counter
    PROVE  Moved(n) \in Window
<1>1. Empty \in Window
  BY DEF Empty, Window
<1>2. bits \in Window
  BY DEF TypeOK
<1>3. ASSUME NEW over PROVE [s \in 0 .. Words - 1 |-> IF s \in over THEN {} ELSE bits[s]] \in Window
  BY <1>2 DEF Window
<1> QED
  BY <1>1, <1>2, <1>3 DEF Moved

\* The ring moved to n: a counter whose word is then in the ring has its bit
\* if it was received.
LEMMA MovedExact ==
    ASSUME WindowInv, NEW n \in Counter, NEW m \in Counter,
           ~any \/ n > max => Word(m) <= Word(n) /\ Word(n) - Word(m) < Words,
           any /\ n <= max => InRing(m)
    PROVE  Bit(m) \in Moved(n)[Slot(Word(m))] <=> m \in received
<1>1. /\ n \in Nat /\ Word(n) \in Nat
      /\ m \in Nat /\ Word(m) \in Nat /\ Slot(Word(m)) \in 0 .. Words - 1
  BY Place
<1>2. /\ max \in Nat /\ Word(max) \in Nat /\ any \in BOOLEAN
      /\ received \subseteq Counter /\ Words \in Nat \ {0}
  BY WordBit, WindowAssumption DEF WindowInv, TypeOK
<1>3. CASE any = FALSE
  <2>1. Moved(n) = Empty /\ received = {}
    BY <1>3 DEF Moved, WindowInv, RingExact
  <2> QED
    BY <2>1, <1>1 DEF Empty
<1>4. CASE any = TRUE /\ n <= max
  <2>1. Moved(n) = bits /\ InRing(m)
    BY <1>4 DEF Moved
  <2> QED
    BY <2>1, <1>4 DEF WindowInv, RingExact
<1>5. CASE any = TRUE /\ n > max
  <2>1. /\ Word(m) <= Word(n) /\ Word(n) - Word(m) < Words
        /\ Word(max) <= Word(n)
    BY <1>5, <1>1, <1>2, WordMonotonic
  <2>2. Word(m) > Word(max) => m \notin received
    <3> SUFFICES ASSUME m \in received PROVE Word(m) <= Word(max)
      BY <1>1, <1>2
    <3>1. m <= max
      BY <1>5 DEF WindowInv, RingExact
    <3> QED
      BY <3>1, <1>1, <1>2, WordMonotonic
  <2>3. CASE Word(n) - Word(max) >= Words
    <3>1. Moved(n) = Empty
      BY <1>5, <1>1, <1>2, <2>3 DEF Moved
    <3>2. Word(m) > Word(max)
      BY <2>1, <2>3, <1>1, <1>2
    <3> QED
      BY <3>1, <3>2, <2>2, <1>1 DEF Empty
  <2>4. CASE Word(n) - Word(max) < Words
    <3> DEFINE over == {Slot(w) : w \in Word(max) + 1 .. Word(n)}
    <3>1. Moved(n)[Slot(Word(m))] =
             IF Slot(Word(m)) \in over THEN {} ELSE bits[Slot(Word(m))]
      BY <1>5, <1>1, <1>2, <2>4 DEF Moved
    <3>2. CASE Word(m) > Word(max)
      <4>1. Slot(Word(m)) \in over
        BY <3>2, <2>1, <1>1, <1>2
      <4> QED
        BY <4>1, <3>1, <3>2, <2>2
    <3>3. CASE Word(m) <= Word(max)
      <4>1. InRing(m)
        BY <3>3, <2>1, <1>1, <1>2 DEF InRing
      <4>2. ASSUME NEW w \in Word(max) + 1 .. Word(n) PROVE Slot(w) # Slot(Word(m))
        <5>1. w \in Nat /\ Word(m) < w /\ w - Word(m) < Words
          BY <3>3, <2>1, <1>1, <1>2
        <5> QED
          BY <5>1, <1>1, SlotDistinct
      <4>3. Slot(Word(m)) \notin over
        BY <4>2
      <4> QED
        BY <4>1, <4>3, <3>1, <1>5 DEF WindowInv, RingExact
    <3> QED
      BY <3>2, <3>3, <1>1, <1>2
  <2> QED
    BY <2>3, <2>4, <1>1, <1>2
<1>6. any = FALSE \/ (any = TRUE /\ n <= max) \/ (any = TRUE /\ n > max)
  BY <1>1, <1>2
<1> QED
  BY <1>3, <1>4, <1>5, <1>6, Zenon

----------------------------------------------------------------------------
(* The invariant is inductive *)

\* A new session has accepted nothing.
LEMMA InitInv == Init => WindowInv
<1> SUFFICES ASSUME Init PROVE WindowInv
  OBVIOUS
<1>1. Empty \in Window
  BY DEF Empty, Window
<1>2. TypeOK
  <2>1. bits \in Window
    BY <1>1 DEF Init
  <2>2. send_n = 0 /\ max = 0 /\ any \in BOOLEAN
    BY Zenon DEF Init
  <2>3. received \subseteq Counter
    BY DEF Init
  <2>4. send_n \in 0 .. RejectAfter /\ max \in Nat
    BY <2>2, WindowAssumption
  <2> QED
    BY <2>1, <2>2, <2>3, <2>4 DEF TypeOK
<1>3. RingExact
  BY DEF Init, RingExact
<1> QED
  BY <1>2, <1>3 DEF WindowInv

\* A packet that is accepted: its bit is set in the ring moved to it, so the
\* ring still says of every counter in it whether it was received.
LEMMA OpenInv ==
    ASSUME WindowInv, NEW n \in Counter, Open(n)
    PROVE  WindowInv'
<1>1. /\ n \in Nat /\ Word(n) \in Nat /\ Bit(n) \in 0 .. Bits - 1
      /\ Slot(Word(n)) \in 0 .. Words - 1
  BY Place
<1>2. /\ max \in Nat /\ Word(max) \in Nat /\ any \in BOOLEAN
      /\ received \subseteq Counter
  BY WordBit DEF WindowInv, TypeOK
<1>3. Moved(n) \in Window
  BY MovedType DEF WindowInv
<1>4. /\ bits' = [Moved(n) EXCEPT ![Slot(Word(n))] = @ \cup {Bit(n)}]
      /\ any' = TRUE /\ max' = (IF ~any \/ n > max THEN n ELSE max)
      /\ received' = received \cup {n} /\ send_n' = send_n
  BY DEF Open, Record
<1>5. TypeOK'
  <2>1. bits' \in Window
    BY <1>1, <1>3, <1>4 DEF Window
  <2> QED
    BY <2>1, <1>1, <1>2, <1>4 DEF WindowInv, TypeOK
<1>6. \A m \in received' : m <= max'
  <2> SUFFICES ASSUME NEW m \in received' PROVE m <= max'
    OBVIOUS
  <2>1. m \in Nat
    BY <1>2, <1>4, Place
  <2>2. any = TRUE /\ m \in received => m <= max
    BY DEF WindowInv, RingExact
  <2>3. any = FALSE => m = n
    BY <1>4 DEF WindowInv, RingExact
  <2> QED
    BY <1>1, <1>2, <1>4, <2>1, <2>2, <2>3
<1>7. ASSUME NEW m \in Counter, InRing(m)'
      PROVE  Bit(m) \in bits'[Slot(Word(m))] <=> m \in received'
  <2>1. /\ m \in Nat /\ Word(m) \in Nat /\ Bit(m) \in 0 .. Bits - 1
        /\ Slot(Word(m)) \in 0 .. Words - 1
    BY Place
  <2>2. Word(m) <= Word(max') /\ Word(max') - Word(m) < Words
    BY <1>7 DEF InRing, Word
  <2>3. ~any \/ n > max => Word(m) <= Word(n) /\ Word(n) - Word(m) < Words
    BY <2>2, <1>4
  <2>4. any /\ n <= max => InRing(m)
    <3> SUFFICES ASSUME any, n <= max PROVE InRing(m)
      OBVIOUS
    <3>1. max' = max
      BY <1>1, <1>2, <1>4
    <3> QED
      BY <3>1, <2>2 DEF InRing
  <2>5. Bit(m) \in Moved(n)[Slot(Word(m))] <=> m \in received
    BY <2>3, <2>4, MovedExact
  <2>6. CASE m = n
    BY <2>6, <1>1, <1>3, <1>4 DEF Window
  <2>7. CASE m # n /\ Slot(Word(m)) # Slot(Word(n))
    <3>1. bits'[Slot(Word(m))] = Moved(n)[Slot(Word(m))]
      BY <2>7, <2>1, <1>3, <1>4 DEF Window
    <3> QED
      BY <3>1, <2>5, <2>7, <1>4
  <2>8. CASE m # n /\ Slot(Word(m)) = Slot(Word(n))
    <3>1. Word(m) = Word(n)
      <4>1. Word(n) <= Word(max') /\ Word(max') - Word(n) < Words
        <5>1. CASE any = TRUE /\ n <= max
          <6>1. max' = max
            BY <5>1, <1>1, <1>2, <1>4
          <6>2. Word(max) - Word(n) < Words
            BY <5>1 DEF Open, Accepts
          <6>3. Word(n) <= Word(max)
            BY <5>1, <1>1, <1>2, WordMonotonic
          <6> QED
            BY <6>1, <6>2, <6>3
        <5>2. CASE any = FALSE \/ n > max
          <6>1. max' = n
            BY <5>2, <1>4
          <6> QED
            BY <6>1, <1>1, WindowAssumption
        <5>3. (any = TRUE /\ n <= max) \/ (any = FALSE \/ n > max)
          BY <1>1, <1>2
        <5> QED
          BY <5>1, <5>2, <5>3, Zenon
      <4>2. max' \in Nat /\ Word(max') \in Nat
        BY <1>5, WordBit DEF TypeOK
      <4>3. Word(m) < Word(n) => Word(n) - Word(m) < Words
        BY <2>1, <2>2, <1>1, <4>1, <4>2, WindowAssumption
      <4>4. Word(n) < Word(m) => Word(m) - Word(n) < Words
        BY <2>1, <2>2, <1>1, <4>1, <4>2, WindowAssumption
      <4>5. ~(Word(m) < Word(n))
        BY <2>1, <2>8, <1>1, <4>3, SlotDistinct
      <4>6. ~(Word(n) < Word(m))
        BY <2>1, <2>8, <1>1, <4>4, SlotDistinct
      <4> QED
        BY <2>1, <1>1, <4>5, <4>6
    <3>2. Bit(m) # Bit(n)
      BY <3>1, <2>8, <2>1, <1>1, SamePlace
    <3>3. bits'[Slot(Word(m))] = Moved(n)[Slot(Word(m))] \cup {Bit(n)}
      BY <2>8, <1>1, <1>3, <1>4 DEF Window
    <3> QED
      BY <3>2, <3>3, <2>5, <2>8, <1>4
  <2> QED
    BY <2>6, <2>7, <2>8
<1>8. RingExact'
  BY <1>4, <1>6, <1>7 DEF RingExact
<1> QED
  BY <1>5, <1>8 DEF WindowInv

\* Sealing, accepting and refusing keep the invariant.
LEMMA NextInv == WindowInv /\ [Next]_vars => WindowInv'
<1> SUFFICES ASSUME WindowInv, [Next]_vars PROVE WindowInv'
  OBVIOUS
<1>1. CASE Seal
  <2>1. TypeOK'
    BY <1>1, WindowAssumption DEF Seal, WindowInv, TypeOK
  <2>2. RingExact'
    BY <1>1 DEF Seal, WindowInv, RingExact, InRing
  <2> QED
    BY <2>1, <2>2 DEF WindowInv
<1>2. CASE \E n \in Counter : Open(n)
  BY <1>2, OpenInv
<1>3. CASE UNCHANGED vars
  BY <1>3 DEF vars, WindowInv, TypeOK, RingExact, InRing
<1> QED
  BY <1>1, <1>2, <1>3 DEF Next, OpenDamaged

\* The invariant holds of every state.
LEMMA InvHolds == Spec => []WindowInv
BY InitInv, NextInv, PTL DEF Spec

----------------------------------------------------------------------------
(* The theorems *)

\* No counter is accepted a second time (replay_check()), for any number of
\* packets lost, repeated, reordered and damaged.
THEOREM NoReplay == Spec => []ReceivedRejected
<1>1. WindowInv => ReceivedRejected
  <2> SUFFICES ASSUME WindowInv, NEW n \in received, Accepts(n) PROVE FALSE
    BY DEF ReceivedRejected
  <2>1. /\ n \in Counter /\ n \in Nat /\ max \in Nat /\ any \in BOOLEAN
        /\ Word(n) \in Nat /\ Word(max) \in Nat
    BY Place, WordBit DEF WindowInv, TypeOK
  <2>2. any = TRUE /\ n <= max
    BY <2>1 DEF WindowInv, RingExact
  <2>3. Word(max) - Word(n) < Words /\ Bit(n) \notin bits[Slot(Word(n))]
    BY <2>2 DEF Accepts
  <2>4. InRing(n)
    BY <2>1, <2>2, <2>3, WordMonotonic DEF InRing
  <2> QED
    BY <2>1, <2>2, <2>3, <2>4 DEF WindowInv, RingExact
<1> QED
  BY <1>1, InvHolds, PTL

\* A counter not received yet and at most V2_REPLAY_WINDOW - 64 behind the
\* newest is accepted (replay_check()).
THEOREM NoFalseReject == Spec => []FreshAccepted
<1>1. WindowInv => FreshAccepted
  <2> SUFFICES ASSUME WindowInv, NEW n \in 0 .. send_n - 1, n \notin received,
                      ~any \/ n + (Words - 1) * Bits >= max
               PROVE  Accepts(n)
    BY DEF FreshAccepted
  <2>1. /\ n \in Counter /\ n \in Nat /\ n < RejectAfter
        /\ max \in Nat /\ any \in BOOLEAN
    BY WindowAssumption DEF WindowInv, TypeOK, Counter
  <2>2. /\ Word(n) \in Nat /\ Bit(n) \in 0 .. Bits - 1 /\ n = Bits * Word(n) + Bit(n)
        /\ Word(max) \in Nat /\ Bit(max) \in 0 .. Bits - 1
        /\ max = Bits * Word(max) + Bit(max)
    BY <2>1, WordBit
  <2> SUFFICES ASSUME any = TRUE, n <= max
               PROVE  Word(max) - Word(n) < Words /\ Bit(n) \notin bits[Slot(Word(n))]
    BY <2>1 DEF Accepts
  <2>3. Word(max) - Word(n) < Words
    <3> DEFINE x == Word(n) + Words - 1
    <3>1. /\ Bits \in Nat \ {0} /\ Words \in Nat \ {0}
      BY WindowAssumption
    <3>2. Bits * x = Bits * Word(n) + (Words - 1) * Bits
      BY <2>2, <3>1
    <3>3. Bits * x + Bits > max
      BY <2>1, <2>2, <3>1, <3>2
    <3>4. x \in Int
      BY <2>2, <3>1
    <3> HIDE DEF x
    <3>5. x < Word(max) => Bits * Word(max) >= Bits * x + Bits
      BY <2>2, <3>1, <3>4, Multiple
    <3>6. Word(max) <= x
      BY <2>1, <2>2, <3>1, <3>3, <3>4, <3>5
    <3> QED
      BY <2>2, <3>1, <3>6 DEF x
  <2>4. Word(n) <= Word(max)
    BY <2>1, WordMonotonic
  <2> QED
    BY <2>1, <2>3, <2>4 DEF WindowInv, RingExact, InRing
<1> QED
  BY <1>1, InvHolds, PTL

=============================================================================
