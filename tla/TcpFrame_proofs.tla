-------------------------- MODULE TcpFrame_proofs --------------------------
(***************************************************************************)
(* Writer and reader of frames over TCP stay in step, and frames are       *)
(* returned in order, for any number of descriptors, slots of the table,   *)
(* lengths, frames and connections, however the kernel cuts the stream.    *)
(*                                                                         *)
(* InStep says how each unread byte follows the one before.  It is not     *)
(* inductive: nothing in it keeps the last unread byte at the end of the   *)
(* last frame accepted, which the next frame has to follow, or ties the    *)
(* header and body read so far to the frame that is being read, which the  *)
(* length a header says comes from.  FdOk adds both: the unread bytes are  *)
(* a chain (Chain) of the rest of one frame and whole frames, which ends   *)
(* with the last frame accepted (EndsAt) and begins where the reader is    *)
(* (Reading).  A write is a frame appended to the chain, a flush moves the *)
(* border between kernel and slot inside it, a read drops its front.       *)
(***************************************************************************)
EXTENDS TcpFrame, FiniteSetTheorems, SequenceTheorems, TLAPS

\* A set of naturals that is not empty has a least element.
LEMMA Least ==
    ASSUME NEW T, T \subseteq Nat, T # {} PROVE \E x \in T : \A y \in T : x <= y
<1> DEFINE R == OpToRel(<,Nat)
<1>1. IsWellFoundedOn(R, Nat)
  BY NatLessThanWellFounded
<1>2. \A x, y \in Nat : <<y, x>> \in R <=> y < x
  BY DEF OpToRel
<1> HIDE DEF R
<1>3. PICK x \in T : \A y \in T : <<y, x>> \notin R
  BY <1>1, WFMin
<1>4. \A y \in T : ~(y < x) /\ y \in Nat /\ x \in Nat
  BY <1>2, <1>3
<1> QED
  BY <1>4

----------------------------------------------------------------------------
(* Pieces of sequences *)

\* What is left without the first n
LEMMA DropIs ==
    ASSUME NEW S, NEW s \in Seq(S), NEW n \in 0 .. Len(s)
    PROVE  /\ Drop(s, n) \in Seq(S) /\ Len(Drop(s, n)) = Len(s) - n
           /\ \A i \in 1 .. Len(s) - n : Drop(s, n)[i] = s[n + i]
<1>1. Len(s) \in Nat /\ \A i \in 1 .. Len(s) : s[i] \in S
  BY LenProperties, ElementOfSeq
<1>2. PICK m, len : m = n + 1 /\ len = Len(s) /\ m \in Int /\ len \in Int
  BY <1>1
<1>3. \A i \in m .. len : s[i] \in S
  BY <1>1, <1>2
<1>4. /\ SubSeq(s, m, len) \in Seq(S)
      /\ Len(SubSeq(s, m, len)) = IF m <= len THEN len - m + 1 ELSE 0
      /\ \A i \in 1 .. len - m + 1 : SubSeq(s, m, len)[i] = s[m + i - 1]
  BY <1>2, <1>3, SubSeqProperties
<1>5. Drop(s, n) = SubSeq(s, m, len)
  BY <1>2 DEF Drop
<1>6. Len(Drop(s, n)) = Len(s) - n
  BY <1>1, <1>2, <1>4, <1>5
<1>7. ASSUME NEW i \in 1 .. Len(s) - n PROVE Drop(s, n)[i] = s[n + i]
  <2>1. i \in 1 .. len - m + 1 /\ m + i - 1 = n + i
    BY <1>1, <1>2
  <2> QED
    BY <1>4, <1>5, <2>1
<1> QED
  BY <1>4, <1>5, <1>6, <1>7

\* ... and the first n
LEMMA TakeIs ==
    ASSUME NEW S, NEW s \in Seq(S), NEW n \in 0 .. Len(s)
    PROVE  /\ Take(s, n) \in Seq(S) /\ Len(Take(s, n)) = n
           /\ \A i \in 1 .. n : Take(s, n)[i] = s[i]
<1>1. Len(s) \in Nat /\ \A i \in 1 .. Len(s) : s[i] \in S
  BY LenProperties, ElementOfSeq
<1>2. PICK one : one = 1 /\ one \in Int
  OBVIOUS
<1>3. \A i \in one .. n : s[i] \in S
  BY <1>1, <1>2
<1>4. /\ SubSeq(s, one, n) \in Seq(S)
      /\ Len(SubSeq(s, one, n)) = IF one <= n THEN n - one + 1 ELSE 0
      /\ \A i \in 1 .. n - one + 1 : SubSeq(s, one, n)[i] = s[one + i - 1]
  BY <1>1, <1>2, <1>3, SubSeqProperties
<1>5. Take(s, n) = SubSeq(s, one, n)
  BY <1>2 DEF Take
<1>6. Len(Take(s, n)) = n
  BY <1>1, <1>2, <1>4, <1>5
<1>7. ASSUME NEW i \in 1 .. n PROVE Take(s, n)[i] = s[i]
  <2>1. i \in 1 .. n - one + 1 /\ one + i - 1 = i
    BY <1>1, <1>2
  <2> QED
    BY <1>4, <1>5, <2>1
<1> QED
  BY <1>4, <1>5, <1>6, <1>7

\* One sequence and then another
LEMMA CatIs ==
    ASSUME NEW S, NEW s \in Seq(S), NEW t \in Seq(S)
    PROVE  /\ s \o t \in Seq(S) /\ Len(s \o t) = Len(s) + Len(t)
           /\ Len(s) \in Nat /\ Len(t) \in Nat
           /\ \A i \in 1 .. Len(s) : (s \o t)[i] = s[i]
           /\ \A i \in 1 .. Len(t) : (s \o t)[Len(s) + i] = t[i]
<1>1. Len(s) \in Nat /\ Len(t) \in Nat
  BY LenProperties
<1>2. /\ s \o t \in Seq(S) /\ Len(s \o t) = Len(s) + Len(t)
      /\ \A i \in 1 .. Len(s) + Len(t) : (s \o t)[i] = IF i <= Len(s) THEN s[i] ELSE t[i - Len(s)]
  BY ConcatProperties
<1>3. ASSUME NEW i \in 1 .. Len(t) PROVE (s \o t)[Len(s) + i] = t[i]
  <2>1. Len(s) + i \in 1 .. Len(s) + Len(t) /\ ~(Len(s) + i <= Len(s)) /\ Len(s) + i - Len(s) = i
    BY <1>1
  <2> QED
    BY <1>2, <2>1
<1> QED
  BY <1>1, <1>2, <1>3

\* The first n and what is left are the whole.
LEMMA Halves ==
    ASSUME NEW S, NEW s \in Seq(S), NEW n \in 0 .. Len(s)
    PROVE  Take(s, n) \o Drop(s, n) = s
<1>1. Len(s) \in Nat
  BY LenProperties
<1>2. /\ Take(s, n) \in Seq(S) /\ Len(Take(s, n)) = n
      /\ \A i \in 1 .. n : Take(s, n)[i] = s[i]
  BY TakeIs
<1>3. /\ Drop(s, n) \in Seq(S) /\ Len(Drop(s, n)) = Len(s) - n
      /\ \A i \in 1 .. Len(s) - n : Drop(s, n)[i] = s[n + i]
  BY DropIs
<1>4. PICK a, b : a = Take(s, n) /\ b = Drop(s, n)
  OBVIOUS
<1>5. /\ a \o b \in Seq(S) /\ Len(a \o b) = Len(a) + Len(b)
      /\ \A i \in 1 .. Len(a) : (a \o b)[i] = a[i]
      /\ \A i \in 1 .. Len(b) : (a \o b)[Len(a) + i] = b[i]
  BY <1>2, <1>3, <1>4, CatIs
<1>6. Len(a \o b) = Len(s)
  BY <1>1, <1>2, <1>3, <1>4, <1>5
<1>7. ASSUME NEW i \in 1 .. Len(s) PROVE (a \o b)[i] = s[i]
  <2>1. CASE i <= n
    BY <1>1, <1>2, <1>4, <1>5, <2>1
  <2>2. CASE i > n
    <3>1. PICK j : j = i - n
      OBVIOUS
    <3>2. j \in 1 .. Len(s) - n /\ n + j = i
      BY <1>1, <2>2, <3>1
    <3>3. (a \o b)[n + j] = b[j] /\ b[j] = s[n + j]
      BY <1>2, <1>3, <1>4, <1>5, <3>2
    <3> QED
      BY <3>2, <3>3
  <2>3. i <= n \/ i > n
    BY <1>1
  <2> QED
    BY <2>1, <2>2, <2>3
<1>8. a \o b = s
  BY <1>5, <1>6, <1>7, SeqEqual
<1> QED
  BY <1>4, <1>8

----------------------------------------------------------------------------
(* What lies between writer and reader: the rest of the frame that is      *)
(* being read, and whole frames.                                           *)

Byte == [conn : Nat, frame : Nat, at : Nat, len : BodyLens]

Follows(p, b) ==
    IF b.at = 1 THEN b.frame = p.frame + 1 /\ p.at = Header + p.len
    ELSE b.frame = p.frame /\ b.at = p.at + 1 /\ b.len = p.len
Chain(c, u) ==
    /\ u \in Seq(Byte)
    /\ \A i \in 1 .. Len(u) : u[i].conn = c /\ u[i].at \in 1 .. Header + u[i].len
    /\ \A i \in 2 .. Len(u) : Follows(u[i - 1], u[i])
EndsAt(u, n) == u[Len(u)].frame = n /\ u[Len(u)].at = Header + u[Len(u)].len

\* The fields of a byte
LEMMA ByteIs ==
    ASSUME NEW b \in Byte
    PROVE  /\ b.conn \in Nat /\ b.frame \in Nat /\ b.at \in Nat /\ b.len \in BodyLens
           /\ b.len \in Nat /\ b.len # 0 /\ Header \in Nat /\ Header # 0
BY FrameAssumption DEF Byte

Starts(u, f, a, l) == u[1].frame = f /\ u[1].at = a /\ u[1].len = l
Reaches(a, d, l) == a + d <= Header + l

\* Up to the end of its frame, what follows a byte is of that frame.
LEMMA RunIs ==
    ASSUME NEW c, NEW u, Chain(c, u), NEW f, NEW a \in Nat, NEW l \in Nat, Starts(u, f, a, l),
           NEW d \in Nat, d + 1 <= Len(u), Reaches(a, d, l)
    PROVE  u[d + 1].frame = f /\ u[d + 1].len = l /\ u[d + 1].at = a + d
<1> DEFINE same(e) == u[e + 1].frame = f /\ u[e + 1].len = l /\ u[e + 1].at = a + e
           bad == {e \in Nat : e + 1 <= Len(u) /\ Reaches(a, e, l) /\ ~same(e)}
<1>1. Len(u) \in Nat /\ Header \in Nat
  BY LenProperties, FrameAssumption DEF Chain
<1>2. ASSUME bad # {} PROVE FALSE
  <2>1. PICK e \in bad : \A g \in bad : e <= g
    <3>1. bad \subseteq Nat
      OBVIOUS
    <3> HIDE DEF bad
    <3> QED
      BY <1>2, <3>1, Least
  <2>2. e \in Nat /\ e + 1 <= Len(u) /\ Reaches(a, e, l) /\ ~same(e)
    OBVIOUS
  <2>3. e # 0
    <3>1. ASSUME e = 0 PROVE e + 1 = 1 /\ a + e = a
      BY <3>1
    <3>2. ASSUME e = 0 PROVE same(e)
      BY <3>1, <3>2 DEF Starts
    <3> QED
      BY <2>2, <3>2
  <2>4. PICK g \in Nat : e = g + 1
    <3>1. e - 1 \in Nat /\ e = (e - 1) + 1
      BY <2>2, <2>3
    <3> QED
      BY <3>1
  <2> HIDE DEF bad
  <2>5. g + 1 <= Len(u) /\ e + 1 \in 2 .. Len(u) /\ (e + 1) - 1 = g + 1
    BY <1>1, <2>2, <2>4
  <2>6. Reaches(a, g, l) /\ a + g # Header + l
    BY <1>1, <2>2, <2>4 DEF Reaches
  <2>7. same(g)
    <3>1. ~(e <= g)
      BY <2>4
    <3>2. g \notin bad
      BY <2>1, <3>1
    <3> QED
      BY <2>5, <2>6, <3>2 DEF bad
  <2>8. Follows(u[g + 1], u[e + 1])
    <3>1. Follows(u[(e + 1) - 1], u[e + 1])
      BY <2>5 DEF Chain
    <3> QED
      BY <2>5, <3>1
  <2>9. u[g + 1].at # Header + u[g + 1].len
    BY <2>6, <2>7
  <2>10. /\ u[e + 1].frame = u[g + 1].frame /\ u[e + 1].len = u[g + 1].len
         /\ u[e + 1].at = u[g + 1].at + 1
    BY <2>8, <2>9 DEF Follows
  <2>11. (a + g) + 1 = a + e
    BY <2>4
  <2>12. same(e)
    BY <2>7, <2>10, <2>11
  <2> QED
    BY <2>2, <2>12
<1>3. d \notin bad
  BY <1>2
<1> QED
  BY <1>3

\* A frame is there to its end.
LEMMA EndIs ==
    ASSUME NEW c, NEW u, Chain(c, u), NEW n, EndsAt(u, n), u # <<>>,
           NEW f, NEW a, NEW l, Starts(u, f, a, l)
    PROVE  /\ Len(u) \in Nat \ {0} /\ a \in 1 .. Header + l /\ l \in BodyLens
           /\ a + Len(u) >= Header + l + 1
           /\ u[1] \in Byte /\ u[1].conn = c
<1>1. u \in Seq(Byte) /\ Len(u) \in Nat \ {0} /\ 1 \in 1 .. Len(u)
  BY EmptySeq, LenProperties DEF Chain
<1>2. u[1] \in Byte /\ u[1].conn = c /\ a \in 1 .. Header + l
  BY <1>1, ElementOfSeq DEF Chain, Starts
<1>3. a \in Nat /\ l \in Nat /\ l \in BodyLens /\ Header \in Nat
  BY <1>2, ByteIs DEF Starts
<1>4. PICK d \in Nat : Len(u) = d + 1
  <2>1. Len(u) - 1 \in Nat /\ Len(u) = (Len(u) - 1) + 1
    BY <1>1
  <2> QED
    BY <2>1
<1>5. ASSUME a + d < Header + l PROVE FALSE
  <2>1. Reaches(a, d, l) /\ d + 1 <= Len(u)
    BY <1>3, <1>4, <1>5 DEF Reaches
  <2>2. u[d + 1].len = l /\ u[d + 1].at = a + d
    BY <1>3, <2>1, RunIs
  <2>3. a + d = Header + l
    BY <1>4, <2>2 DEF EndsAt
  <2> QED
    BY <1>3, <1>5, <2>3
<1>6. a + Len(u) >= Header + l + 1
  BY <1>3, <1>4, <1>5
<1> QED
  BY <1>1, <1>2, <1>3, <1>6

\* The rest, when some of it has been read
LEMMA ChainDrop ==
    ASSUME NEW c, NEW u, Chain(c, u), NEW k \in 0 .. Len(u), NEW n, EndsAt(u, n)
    PROVE  /\ Chain(c, Drop(u, k)) /\ Len(Drop(u, k)) = Len(u) - k
           /\ Drop(u, k) # <<>> <=> k # Len(u)
           /\ k # Len(u) => EndsAt(Drop(u, k), n) /\ Drop(u, k)[1] = u[k + 1]
<1>1. u \in Seq(Byte) /\ Len(u) \in Nat
  BY LenProperties DEF Chain
<1>2. PICK d : d = Drop(u, k)
  OBVIOUS
<1>3. /\ d \in Seq(Byte) /\ Len(d) = Len(u) - k /\ Len(d) \in Nat
      /\ \A i \in 1 .. Len(u) - k : d[i] = u[k + i]
  <2>1. /\ d \in Seq(Byte) /\ Len(d) = Len(u) - k
        /\ \A i \in 1 .. Len(u) - k : d[i] = u[k + i]
    BY <1>1, <1>2, DropIs
  <2> QED
    BY <2>1, LenProperties
<1>4. \A i \in 1 .. Len(d) : d[i] = u[k + i] /\ k + i \in 1 .. Len(u)
  BY <1>1, <1>3
<1>5. \A i \in 1 .. Len(d) : d[i].conn = c /\ d[i].at \in 1 .. Header + d[i].len
  BY <1>4 DEF Chain
<1>6. ASSUME NEW i \in 2 .. Len(d) PROVE Follows(d[i - 1], d[i])
  <2>1. i \in 1 .. Len(d) /\ i - 1 \in 1 .. Len(d) /\ k + i \in 2 .. Len(u)
        /\ k + (i - 1) = (k + i) - 1
    BY <1>1, <1>3
  <2>2. d[i] = u[k + i] /\ d[i - 1] = u[(k + i) - 1]
    BY <1>4, <2>1
  <2>3. Follows(u[(k + i) - 1], u[k + i])
    BY <2>1 DEF Chain
  <2> QED
    BY <2>2, <2>3
<1>7. d # <<>> <=> k # Len(u)
  BY <1>1, <1>3, EmptySeq
<1>8. ASSUME k # Len(u) PROVE EndsAt(d, n) /\ d[1] = u[k + 1]
  <2>1. 1 \in 1 .. Len(d) /\ Len(d) \in 1 .. Len(d) /\ k + Len(d) = Len(u)
    BY <1>1, <1>3, <1>8
  <2>2. d[1] = u[k + 1] /\ d[Len(d)] = u[Len(u)]
    BY <1>4, <2>1
  <2> QED
    BY <2>2 DEF EndsAt
<1> QED
  BY <1>2, <1>3, <1>5, <1>6, <1>7, <1>8 DEF Chain

\* A frame, byte by byte
LEMMA BytesAre ==
    ASSUME NEW fd, conns[fd] \in Nat, NEW n \in Nat, NEW len \in BodyLens,
           NEW b, b = Bytes(fd, n, len)
    PROVE  /\ b \in Seq(Byte) /\ Len(b) \in Nat \ {0} /\ Len(b) = Header + len
           /\ \A i \in 1 .. Len(b) : /\ b[i].conn = conns[fd] /\ b[i].frame = n
                                     /\ b[i].at = i /\ b[i].len = len
<1>1. len \in Nat /\ Header \in Nat \ {0} /\ Header + len \in Nat \ {0}
  BY FrameAssumption
<1>2. PICK m : m = Header + len
  OBVIOUS
<1>3. /\ b = [i \in 1 .. m |-> b[i]] /\ DOMAIN b = 1 .. m
      /\ \A i \in 1 .. m : b[i] = [conn |-> conns[fd], frame |-> n, at |-> i, len |-> len]
  BY <1>2 DEF Bytes
<1>4. b \in [1 .. m -> Byte]
  <2>1. m \in Nat /\ \A i \in 1 .. m : i \in Nat
    BY <1>1, <1>2
  <2>2. \A i \in 1 .. m : [conn |-> conns[fd], frame |-> n, at |-> i, len |-> len] \in Byte
    BY <2>1 DEF Byte
  <2> QED
    BY <1>3, <2>2
<1>5. b \in Seq(Byte)
  BY <1>1, <1>2, <1>4, SeqDef
<1>6. DOMAIN b = 1 .. Len(b) /\ Len(b) \in Nat
  BY <1>5, LenProperties
<1>7. Len(b) = m
  BY <1>1, <1>2, <1>3, <1>6
<1>8. ASSUME NEW i \in 1 .. m
      PROVE  b[i].conn = conns[fd] /\ b[i].frame = n /\ b[i].at = i /\ b[i].len = len
  <2>1. PICK g : g = conns[fd]
    OBVIOUS
  <2>2. b[i] = [conn |-> g, frame |-> n, at |-> i, len |-> len]
    BY <1>3, <2>1
  <2> QED
    BY <2>1, <2>2
<1> QED
  BY <1>1, <1>2, <1>5, <1>7, <1>8

Appends(fd, u, a, len, n, b, v) == n = a + 1 /\ b = Bytes(fd, n, len) /\ v = u \o b
Added(c, u, n, b, v) ==
    /\ Chain(c, v) /\ EndsAt(v, n) /\ v # <<>> /\ v[1] = (IF u = <<>> THEN b[1] ELSE u[1])
    /\ b[1].frame = n /\ b[1].at = 1
EndsBefore(u, a) == u # <<>> => EndsAt(u, a)

\* One more frame
LEMMA ChainCat ==
    ASSUME NEW fd, NEW u, Chain(conns[fd], u), conns[fd] \in Nat, NEW a \in Nat,
           EndsBefore(u, a), NEW len \in BodyLens,
           NEW n, NEW b, NEW v, Appends(fd, u, a, len, n, b, v)
    PROVE  Added(conns[fd], u, n, b, v)
<1>1. /\ b \in Seq(Byte) /\ Len(b) \in Nat \ {0} /\ Len(b) = Header + len
      /\ \A i \in 1 .. Len(b) : /\ b[i].conn = conns[fd] /\ b[i].frame = n
                                /\ b[i].at = i /\ b[i].len = len
  <2>1. n \in Nat /\ b = Bytes(fd, n, len)
    BY DEF Appends
  <2> QED
    BY <2>1, BytesAre
<1>2. n \in Nat /\ n = a + 1
  BY DEF Appends
<1>3. u \in Seq(Byte) /\ Len(u) \in Nat /\ (u = <<>> <=> Len(u) = 0)
  BY EmptySeq, LenProperties DEF Chain
<1>4. v = u \o b
  BY DEF Appends
<1>5. /\ v \in Seq(Byte) /\ Len(v) = Len(u) + Len(b)
      /\ \A i \in 1 .. Len(u) : v[i] = u[i]
      /\ \A i \in 1 .. Len(b) : v[Len(u) + i] = b[i]
  <2>1. u \in Seq(Byte) /\ b \in Seq(Byte)
    BY <1>1, <1>3
  <2> QED
    BY <1>4, <2>1, CatIs
<1>6. \A i \in 1 .. Len(v) : i \in 1 .. Len(u) \/ \E j \in 1 .. Len(b) : i = Len(u) + j
  <2> SUFFICES ASSUME NEW i \in 1 .. Len(v), i \notin 1 .. Len(u)
               PROVE  \E j \in 1 .. Len(b) : i = Len(u) + j
    OBVIOUS
  <2>1. PICK j : j = i - Len(u)
    OBVIOUS
  <2>2. j \in 1 .. Len(b) /\ i = Len(u) + j
    BY <1>1, <1>2, <1>3, <1>5, <2>1
  <2> QED
    BY <2>2
<1>7. \A i \in 1 .. Len(v) : v[i].conn = conns[fd] /\ v[i].at \in 1 .. Header + v[i].len
  <2>1. \A i \in 1 .. Len(u) : v[i].conn = conns[fd] /\ v[i].at \in 1 .. Header + v[i].len
    BY <1>5 DEF Chain
  <2>2. \A j \in 1 .. Len(b) : b[j].conn = conns[fd] /\ b[j].at \in 1 .. Header + b[j].len
    BY <1>1, <1>2
  <2>3. \A j \in 1 .. Len(b) : /\ v[Len(u) + j].conn = conns[fd]
                               /\ v[Len(u) + j].at \in 1 .. Header + v[Len(u) + j].len
    BY <1>5, <2>2
  <2> SUFFICES ASSUME NEW i \in 1 .. Len(v)
               PROVE  v[i].conn = conns[fd] /\ v[i].at \in 1 .. Header + v[i].len
    OBVIOUS
  <2>4. CASE i \in 1 .. Len(u)
    BY <2>1, <2>4
  <2>5. ASSUME NEW j \in 1 .. Len(b), i = Len(u) + j
        PROVE  v[i].conn = conns[fd] /\ v[i].at \in 1 .. Header + v[i].len
    BY <2>3, <2>5
  <2> QED
    BY <1>6, <2>4, <2>5
<1>8. ASSUME NEW i \in 2 .. Len(v) PROVE Follows(v[i - 1], v[i])
  <2>1. CASE i \in 1 .. Len(u)
    <3>1. i \in 2 .. Len(u) /\ i - 1 \in 1 .. Len(u)
      BY <1>3, <2>1
    <3>2. v[i] = u[i] /\ v[i - 1] = u[i - 1] /\ Follows(u[i - 1], u[i])
      BY <1>5, <3>1 DEF Chain
    <3> QED
      BY <3>2
  <2>2. ASSUME NEW j \in 1 .. Len(b), i = Len(u) + j PROVE Follows(v[i - 1], v[i])
    <3>1. v[i] = b[j] /\ b[j].frame = n /\ b[j].at = j /\ b[j].len = len
      BY <1>1, <1>5, <2>2
    <3>2. CASE j = 1
      <4>1. Len(u) # 0 /\ i - 1 = Len(u) /\ Len(u) \in 1 .. Len(u)
        BY <1>3, <2>2, <3>2
      <4>2. v[i - 1] = u[Len(u)] /\ EndsAt(u, a)
        BY <1>3, <1>5, <4>1 DEF EndsBefore
      <4> QED
        BY <1>2, <3>1, <3>2, <4>2 DEF EndsAt, Follows
    <3>3. CASE j # 1
      <4>1. PICK k : k = j - 1
        OBVIOUS
      <4>2. k \in 1 .. Len(b) /\ i - 1 = Len(u) + k /\ j = k + 1 /\ k \in Nat
        BY <1>1, <1>2, <1>3, <2>2, <3>3, <4>1
      <4>3. v[i - 1] = b[k] /\ b[k].frame = n /\ b[k].at = k /\ b[k].len = len
        BY <1>1, <1>5, <4>2
      <4> QED
        BY <3>1, <3>3, <4>2, <4>3 DEF Follows
    <3> QED
      BY <3>2, <3>3
  <2>3. i \in 1 .. Len(v)
    BY <1>1, <1>2, <1>3, <1>5
  <2> QED
    BY <1>6, <2>1, <2>2, <2>3
<1>9. v # <<>> /\ EndsAt(v, n)
  <2>1. Len(b) \in 1 .. Len(b) /\ Len(v) = Len(u) + Len(b) /\ Len(v) # 0
    BY <1>1, <1>2, <1>3, <1>5
  <2>2. v[Len(v)] = b[Len(b)]
    BY <1>5, <2>1
  <2>3. v # <<>>
    BY <2>1, EmptySeq
  <2> QED
    BY <1>1, <2>1, <2>2, <2>3 DEF EndsAt
<1>10. v[1] = (IF u = <<>> THEN b[1] ELSE u[1]) /\ b[1].frame = n /\ b[1].at = 1
  <2>1. 1 \in 1 .. Len(b) /\ (Len(u) # 0 => 1 \in 1 .. Len(u)) /\ (Len(u) = 0 => Len(u) + 1 = 1)
    BY <1>1, <1>2, <1>3
  <2>2. b[1].frame = n /\ b[1].at = 1
    BY <1>1, <2>1
  <2> QED
    BY <1>3, <1>5, <2>1, <2>2
<1> QED
  BY <1>5, <1>7, <1>8, <1>9, <1>10 DEF Chain, Added
----------------------------------------------------------------------------
(* Moving bytes *)

\* All of a sequence
LEMMA TakeAll ==
    ASSUME NEW S, NEW s \in Seq(S) PROVE Take(s, Len(s)) = s
<1>1. Len(s) \in 0 .. Len(s) /\ Len(s) \in Nat
  BY LenProperties
<1>2. /\ Take(s, Len(s)) \in Seq(S) /\ Len(Take(s, Len(s))) = Len(s)
      /\ \A i \in 1 .. Len(s) : Take(s, Len(s))[i] = s[i]
  BY <1>1, TakeIs
<1> QED
  BY <1>2, SeqEqual

\* What is written is what was pending and what still is.
LEMMA Moved ==
    ASSUME NEW S, NEW st \in Seq(S), NEW l \in Seq(S), NEW k \in 0 .. Len(l)
    PROVE  /\ st \o Take(l, k) \in Seq(S)
           /\ (st \o Take(l, k)) \o Drop(l, k) = st \o l
           /\ k = Len(l) => st \o Take(l, k) = st \o l
<1>1. PICK a, b : a = Take(l, k) /\ b = Drop(l, k)
  OBVIOUS
<1>2. a \in Seq(S) /\ b \in Seq(S)
  BY <1>1, TakeIs, DropIs
<1>6. a \o b = l
  BY <1>1, Halves
<1>3. st \o a \in Seq(S)
  BY <1>2, CatIs
<1>4. (st \o a) \o b = st \o (a \o b)
  BY <1>2, ConcatAssociative
<1>5. k = Len(l) => a = l
  BY <1>1, TakeAll
<1> QED
  BY <1>1, <1>3, <1>4, <1>5, <1>6

\* Reading takes from the front.
LEMMA DropCat ==
    ASSUME NEW S, NEW s \in Seq(S), NEW t \in Seq(S), NEW k \in 0 .. Len(s)
    PROVE  Drop(s \o t, k) = Drop(s, k) \o t
<1>1. PICK v, d : v = s \o t /\ d = Drop(s, k)
  OBVIOUS
<1>2. /\ v \in Seq(S) /\ Len(v) = Len(s) + Len(t) /\ Len(s) \in Nat /\ Len(t) \in Nat
      /\ \A i \in 1 .. Len(s) : v[i] = s[i]
      /\ \A i \in 1 .. Len(t) : v[Len(s) + i] = t[i]
  BY <1>1, CatIs
<1>3. d \in Seq(S) /\ Len(d) = Len(s) - k /\ \A i \in 1 .. Len(s) - k : d[i] = s[k + i]
  BY <1>1, DropIs
<1>4. PICK w : w = d \o t
  OBVIOUS
<1>5. /\ w \in Seq(S) /\ Len(w) = Len(d) + Len(t)
      /\ \A i \in 1 .. Len(d) : w[i] = d[i]
      /\ \A i \in 1 .. Len(t) : w[Len(d) + i] = t[i]
  <2>1. d \in Seq(S)
    BY <1>3
  <2> QED
    BY <1>4, <2>1, CatIs
<1>6. k \in 0 .. Len(v)
  BY <1>2
<1>7. PICK e : e = Drop(v, k)
  OBVIOUS
<1>8. e \in Seq(S) /\ Len(e) = Len(v) - k /\ \A i \in 1 .. Len(v) - k : e[i] = v[k + i]
  BY <1>2, <1>6, <1>7, DropIs
<1>9. Len(e) = Len(w)
  BY <1>2, <1>3, <1>5, <1>8
<1>10. ASSUME NEW i \in 1 .. Len(e) PROVE e[i] = w[i]
  <2>1. i \in 1 .. Len(v) - k /\ e[i] = v[k + i]
    BY <1>8
  <2>2. CASE i <= Len(d)
    <3>1. i \in 1 .. Len(d) /\ i \in 1 .. Len(s) - k /\ k + i \in 1 .. Len(s)
      BY <1>2, <1>3, <2>2
    <3> QED
      BY <1>2, <1>3, <1>5, <2>1, <3>1
  <2>3. CASE i > Len(d)
    <3>1. PICK j : j = i - Len(d)
      OBVIOUS
    <3>2. j \in 1 .. Len(t) /\ Len(d) + j = i /\ Len(s) + j = k + i
      BY <1>2, <1>3, <1>8, <2>1, <2>3, <3>1
    <3>3. v[Len(s) + j] = t[j] /\ w[Len(d) + j] = t[j]
      BY <1>2, <1>5, <3>2
    <3> QED
      BY <2>1, <3>2, <3>3
  <2>4. i <= Len(d) \/ i > Len(d)
    BY <1>2, <1>3
  <2> QED
    BY <2>2, <2>3, <2>4
<1>11. e = w
  BY <1>5, <1>8, <1>9, <1>10, SeqEqual
<1> QED
  BY <1>1, <1>4, <1>7, <1>11

\* Reading twice takes as much as reading once.
LEMMA DropDrop ==
    ASSUME NEW S, NEW s \in Seq(S), NEW m \in 0 .. Len(s), NEW k \in 0 .. Len(Drop(s, m))
    PROVE  /\ m + k \in 0 .. Len(s) /\ Drop(Drop(s, m), k) = Drop(s, m + k)
<1>1. PICK d : d = Drop(s, m)
  OBVIOUS
<1>2. Len(s) \in Nat
  BY LenProperties
<1>3. d \in Seq(S) /\ Len(d) = Len(s) - m /\ \A i \in 1 .. Len(s) - m : d[i] = s[m + i]
  BY <1>1, DropIs
<1>4. PICK n : n = m + k
  OBVIOUS
<1>5. n \in 0 .. Len(s) /\ k \in 0 .. Len(d)
  BY <1>1, <1>2, <1>3, <1>4
<1>6. PICK e, w : e = Drop(d, k) /\ w = Drop(s, n)
  OBVIOUS
<1>7. e \in Seq(S) /\ Len(e) = Len(d) - k /\ \A i \in 1 .. Len(d) - k : e[i] = d[k + i]
  BY <1>3, <1>5, <1>6, DropIs
<1>8. w \in Seq(S) /\ Len(w) = Len(s) - n /\ \A i \in 1 .. Len(s) - n : w[i] = s[n + i]
  BY <1>5, <1>6, DropIs
<1>9. Len(e) = Len(w)
  BY <1>2, <1>3, <1>4, <1>5, <1>7, <1>8
<1>10. ASSUME NEW i \in 1 .. Len(e) PROVE e[i] = w[i]
  <2>1. i \in 1 .. Len(d) - k /\ i \in 1 .. Len(s) - n
    BY <1>7, <1>8, <1>9
  <2>2. k + i \in 1 .. Len(s) - m /\ m + (k + i) = n + i
    BY <1>2, <1>3, <1>4, <1>5, <2>1
  <2> QED
    BY <1>3, <1>7, <1>8, <2>1, <2>2
<1>11. e = w
  BY <1>7, <1>8, <1>9, <1>10, SeqEqual
<1> QED
  BY <1>1, <1>4, <1>5, <1>6, <1>11

----------------------------------------------------------------------------
(* The receiver: what is left to read goes on where it stopped, in the     *)
(* frame after those returned; what it has of that frame's header and body *)
(* is at its place.                                                        *)

Rx == [header : Seq(Byte), done : BOOLEAN, body_have : Nat]
Had(r) == Len(r.header) + r.body_have
StateOk(r, b) ==
    /\ r \in Rx /\ Len(r.header) <= Header /\ b \in Seq(Byte) /\ Len(b) = r.body_have
    /\ (r.done => Len(r.header) = Header) /\ (~r.done => Len(r.header) < Header /\ r.body_have = 0)
HeaderOk(c, h, f, l) ==
    \A i \in 1 .. Len(h) : h[i].conn = c /\ h[i].frame = f /\ h[i].at = i /\ h[i].len = l
BodyOk(b, f, l) ==
    \A i \in 1 .. Len(b) : b[i].frame \in {f, Junk} /\ b[i].at = Header + i /\ b[i].len = l
Reading(c, u, r, b, f) ==
    /\ u[1].frame = f /\ u[1].at = Had(r) + 1
    /\ HeaderOk(c, r.header, f, u[1].len) /\ BodyOk(b, f, u[1].len)
FdOk(c, u, r, b, g, a) ==
    /\ c \in Nat /\ a \in Nat /\ g \in Seq(Seq(Byte)) /\ Chain(c, u) /\ StateOk(r, b)
    /\ u = <<>> => Had(r) = 0 /\ a = Len(g)
    /\ u # <<>> => EndsAt(u, a) /\ Reading(c, u, r, b, Len(g) + 1)
GotOk(g) ==
    \A n \in 1 .. Len(g) : \A i \in 1 .. Len(g[n]) :
        g[n][i].frame \in {n, Junk} /\ g[n][i].at = Header + i /\ g[n][i].len = Len(g[n])

\* What the kernel holds is the front of it.
Front(st, u) == st \in Seq(Byte) /\ Len(st) <= Len(u) /\ \A i \in 1 .. Len(st) : st[i] = u[i]

\* The fields of the state of a receiver
LEMMA StateIs ==
    ASSUME NEW r, NEW b, StateOk(r, b)
    PROVE  /\ Len(r.header) \in Nat /\ r.body_have \in Nat /\ r.header \in Seq(Byte)
           /\ r.done \in BOOLEAN /\ Had(r) \in Nat /\ Header \in Nat \ {0}
<1>1. r \in Rx
  BY DEF StateOk
<1>2. r.header \in Seq(Byte) /\ r.body_have \in Nat /\ r.done \in BOOLEAN
  BY <1>1 DEF Rx
<1>3. Len(r.header) \in Nat
  BY <1>2, LenProperties
<1> QED
  BY <1>2, <1>3, FrameAssumption DEF Had

Joins(h, st, m, v) == v = h \o Take(st, m)

\* Bytes that follow those of the header that are there
LEMMA HeaderGrows ==
    ASSUME NEW c, NEW f, NEW l \in Nat, NEW h \in Seq(Byte), HeaderOk(c, h, f, l),
           NEW st, NEW u, Chain(c, u), Front(st, u), NEW m \in 0 .. Len(st), Len(h) + m <= Header,
           m > 0 => Starts(u, f, Len(h) + 1, l), NEW v, Joins(h, st, m, v)
    PROVE  v \in Seq(Byte) /\ Len(v) = Len(h) + m /\ HeaderOk(c, v, f, l)
<1>1. PICK t : t = Take(st, m) /\ v = h \o t
  BY DEF Joins
<1>2. t \in Seq(Byte) /\ Len(t) = m /\ \A i \in 1 .. m : t[i] = st[i]
  BY <1>1, TakeIs DEF Front
<1>3. /\ v \in Seq(Byte) /\ Len(v) = Len(h) + Len(t) /\ Len(h) \in Nat
      /\ \A i \in 1 .. Len(h) : v[i] = h[i]
      /\ \A i \in 1 .. Len(t) : v[Len(h) + i] = t[i]
  <2>1. t \in Seq(Byte)
    BY <1>2
  <2> QED
    BY <1>1, <2>1, CatIs
<1>4. Len(st) \in Nat /\ Len(u) \in Nat /\ Header \in Nat
  BY LenProperties, FrameAssumption DEF Chain, Front
<1>5. ASSUME NEW i \in 1 .. Len(v)
      PROVE  v[i].conn = c /\ v[i].frame = f /\ v[i].at = i /\ v[i].len = l
  <2>1. CASE i <= Len(h)
    <3>1. i \in 1 .. Len(h)
      BY <1>3, <2>1
    <3> QED
      BY <1>3, <3>1 DEF HeaderOk
  <2>2. CASE i > Len(h)
    <3>1. PICK d : d = i - Len(h) - 1
      OBVIOUS
    <3>2. /\ d \in Nat /\ d + 1 \in 1 .. m /\ Len(h) + (d + 1) = i /\ d + 1 <= Len(u)
          /\ d + 1 \in 1 .. Len(st) /\ d + 1 \in 1 .. Len(u)
      BY <1>2, <1>3, <1>4, <2>2, <3>1 DEF Front
    <3>3. v[i] = u[d + 1]
      BY <1>2, <1>3, <3>2 DEF Front
    <3>4. PICK a : a = Len(h) + 1
      OBVIOUS
    <3>5. a \in Nat /\ Reaches(a, d, l) /\ a + d = i
      BY <1>2, <1>3, <1>4, <3>2, <3>4 DEF Reaches
    <3>6. m > 0
      BY <3>2
    <3>7. Starts(u, f, a, l)
      BY <3>4, <3>6
    <3>8. u[d + 1].frame = f /\ u[d + 1].len = l /\ u[d + 1].at = a + d
      BY <3>2, <3>5, <3>7, RunIs
    <3>9. u[d + 1].conn = c
      BY <3>2 DEF Chain
    <3> QED
      BY <3>3, <3>5, <3>8, <3>9
  <2>3. i <= Len(h) \/ i > Len(h)
    BY <1>2, <1>3
  <2> QED
    BY <2>1, <2>2, <2>3
<1> QED
  BY <1>1, <1>2, <1>3, <1>5 DEF HeaderOk

\* net_tcp_recv_frame() with part of a header
LEMMA HeaderStep ==
    ASSUME NEW c, NEW u, NEW r, NEW b, NEW g, NEW a, FdOk(c, u, r, b, g, a), ~r.done,
           NEW st, Front(st, u), NEW k \in 1 .. Len(st), Len(r.header) + k < Header
    PROVE  FdOk(c, Drop(u, k), [r EXCEPT !.header = @ \o Take(st, k)], b, g, a)
<1>1. /\ c \in Nat /\ a \in Nat /\ g \in Seq(Seq(Byte)) /\ Chain(c, u) /\ StateOk(r, b)
      /\ r.body_have = 0
  BY DEF FdOk, StateOk
<1>2. /\ Len(r.header) \in Nat /\ r.body_have \in Nat /\ r.header \in Seq(Byte)
      /\ r.done \in BOOLEAN /\ Had(r) \in Nat /\ Header \in Nat \ {0}
  BY <1>1, StateIs
<1>3. st \in Seq(Byte) /\ Len(st) <= Len(u) /\ Len(u) \in Nat /\ Len(st) \in Nat
  BY <1>1, LenProperties DEF Front, Chain
<1>4. u # <<>> /\ k \in 0 .. Len(u) /\ k \in 0 .. Len(st)
  BY <1>3, EmptySeq
<1>5. EndsAt(u, a) /\ Reading(c, u, r, b, Len(g) + 1)
  BY <1>4 DEF FdOk
<1>6. PICK f, l, p, h : f = Len(g) + 1 /\ l = u[1].len /\ p = Had(r) + 1 /\ h = r.header
  OBVIOUS
<1>7. Starts(u, f, p, l)
  BY <1>5, <1>6 DEF Reading, Starts
<1>8. Len(u) \in Nat \ {0} /\ l \in BodyLens /\ p + Len(u) >= Header + l + 1
  BY <1>1, <1>4, <1>5, <1>7, EndIs
<1>9. l \in Nat \ {0} /\ p = Len(h) + 1 /\ p \in Nat /\ Len(h) \in Nat
  <2>1. l \in Nat \ {0}
    BY <1>8, FrameAssumption
  <2>2. Had(r) = Len(h) + 0 /\ Len(h) \in Nat
    BY <1>1, <1>2, <1>6 DEF Had
  <2> QED
    BY <1>6, <2>1, <2>2
<1>10. PICK v : Joins(h, st, k, v)
  BY DEF Joins
<1>11. v \in Seq(Byte) /\ Len(v) = Len(h) + k /\ HeaderOk(c, v, f, l)
  <2>1. HeaderOk(c, h, f, l) /\ h \in Seq(Byte)
    BY <1>2, <1>5, <1>6 DEF Reading
  <2>2. Len(h) + k <= Header /\ Starts(u, f, Len(h) + 1, l) /\ l \in Nat
    BY <1>2, <1>6, <1>7, <1>9
  <2>3. k \in 0 .. Len(st) /\ Chain(c, u)
    BY <1>1, <1>4
  <2> QED
    BY <1>10, <2>1, <2>2, <2>3, HeaderGrows
<1>12. PICK q : q = [r EXCEPT !.header = @ \o Take(st, k)]
  OBVIOUS
<1>13. q = [header |-> v, done |-> FALSE, body_have |-> 0]
  <2>1. r \in Rx
    BY <1>1 DEF StateOk
  <2>2. q = [header |-> v, done |-> r.done, body_have |-> r.body_have]
    BY <1>6, <1>10, <1>12, <2>1 DEF Rx, Joins
  <2>3. r.done = FALSE
    BY <1>2
  <2> QED
    BY <1>1, <2>2, <2>3
<1>14. StateOk(q, b) /\ Had(q) = Len(h) + k
  <2>1. q \in Rx /\ q.header = v /\ q.done = FALSE /\ q.body_have = 0
    BY <1>11, <1>13 DEF Rx
  <2>2. b \in Seq(Byte) /\ Len(b) = 0
    BY <1>1 DEF StateOk
  <2>3. Len(v) < Header /\ Len(v) \in Nat
    BY <1>2, <1>6, <1>9, <1>11
  <2> QED
    BY <1>2, <1>9, <1>11, <2>1, <2>2, <2>3 DEF StateOk, Had
<1>15. PICK w : w = Drop(u, k)
  OBVIOUS
<1>16. k # Len(u) /\ k + 1 <= Len(u) /\ k \in Nat /\ Reaches(p, k, l) /\ p + k = Len(h) + k + 1
  <2>1. Len(h) + k < Header /\ k \in Nat
    BY <1>3, <1>6
  <2>2. p + k < Header + l
    BY <1>2, <1>9, <2>1
  <2>3. k + 1 <= Len(u) /\ k # Len(u)
    BY <1>2, <1>3, <1>8, <1>9, <2>1
  <2> QED
    BY <1>2, <1>9, <2>1, <2>2, <2>3 DEF Reaches
<1>17. Chain(c, w) /\ EndsAt(w, a) /\ w[1] = u[k + 1] /\ w # <<>>
  <2>1. Chain(c, u) /\ EndsAt(u, a) /\ k \in 0 .. Len(u)
    BY <1>1, <1>4, <1>5
  <2>2. /\ Chain(c, w) /\ (w # <<>> <=> k # Len(u))
        /\ k # Len(u) => EndsAt(w, a) /\ w[1] = u[k + 1]
    BY <1>15, <2>1, ChainDrop
  <2> QED
    BY <1>16, <2>2
<1>18. w[1].frame = f /\ w[1].len = l /\ w[1].at = p + k
  <2>1. l \in Nat /\ p \in Nat /\ k \in Nat /\ k + 1 <= Len(u) /\ Reaches(p, k, l) /\ Chain(c, u)
    BY <1>1, <1>9, <1>16
  <2>2. u[k + 1].frame = f /\ u[k + 1].len = l /\ u[k + 1].at = p + k
    BY <1>7, <2>1, RunIs
  <2> QED
    BY <1>17, <2>2
<1>19. Reading(c, w, q, b, f)
  <2>1. w[1].at = Had(q) + 1
    BY <1>9, <1>14, <1>16, <1>18
  <2>2. BodyOk(b, f, l) /\ q.header = v
    BY <1>5, <1>6, <1>13 DEF Reading
  <2> QED
    BY <1>11, <1>18, <2>1, <2>2 DEF Reading
<1> QED
  BY <1>1, <1>6, <1>12, <1>14, <1>15, <1>17, <1>19 DEF FdOk

\* The buffer of a call: what was read into it before is there or not.
OldOf(b) == {b} \cup {[i \in DOMAIN b |-> [b[i] EXCEPT !.frame = Junk]]}
\* It has at its places what it had, lost or not.
LEMMA OldIs ==
    ASSUME NEW b \in Seq(Byte), NEW old \in OldOf(b), NEW f, NEW l, BodyOk(b, f, l)
    PROVE  old \in Seq(Byte) /\ Len(old) = Len(b) /\ BodyOk(old, f, l)
<1>1. CASE old = b
  BY <1>1
<1>2. CASE old = [i \in DOMAIN b |-> [b[i] EXCEPT !.frame = Junk]]
  <2>1. DOMAIN b = 1 .. Len(b) /\ Len(b) \in Nat /\ \A i \in 1 .. Len(b) : b[i] \in Byte
    BY LenProperties, ElementOfSeq
  <2>2. ASSUME NEW i \in 1 .. Len(b)
        PROVE  old[i] \in Byte /\ old[i].frame = Junk /\ old[i].at = b[i].at /\ old[i].len = b[i].len
    <3>1. PICK x \in Byte : x = b[i]
      BY <2>1
    <3>2. old[i] = [x EXCEPT !.frame = Junk]
      BY <1>2, <2>1, <3>1
    <3>3. old[i] = [conn |-> x.conn, frame |-> Junk, at |-> x.at, len |-> x.len]
      BY <3>2 DEF Byte
    <3> QED
      BY <3>1, <3>3 DEF Byte, Junk
  <2>3. old \in [1 .. Len(b) -> Byte]
    <3>1. DOMAIN old = 1 .. Len(b) /\ old = [i \in 1 .. Len(b) |-> old[i]]
      BY <1>2, <2>1
    <3> QED
      BY <2>2, <3>1
  <2>4. old \in Seq(Byte)
    BY <2>1, <2>3, SeqDef
  <2>5. Len(old) = Len(b)
    <3>1. DOMAIN old = 1 .. Len(old) /\ Len(old) \in Nat
      BY <2>4, LenProperties
    <3>2. DOMAIN old = 1 .. Len(b)
      BY <2>3
    <3>3. PICK x, y : x = Len(old) /\ y = Len(b)
      OBVIOUS
    <3>4. x \in Nat /\ y \in Nat /\ 1 .. x = 1 .. y
      BY <2>1, <3>1, <3>2, <3>3
    <3>5. x = y
      <4>1. x \in 1 .. x \/ x = 0
        BY <3>4
      <4>2. y \in 1 .. y \/ y = 0
        BY <3>4
      <4> QED
        BY <3>4, <4>1, <4>2
    <3> QED
      BY <3>3, <3>5
  <2> QED
    BY <2>2, <2>4, <2>5 DEF BodyOk
<1> QED
  BY <1>1, <1>2 DEF OldOf

\* Bytes that follow those of the body that are there
LEMMA BodyFills ==
    ASSUME NEW c, NEW f, NEW p \in Nat, NEW l \in Nat, NEW b \in Seq(Byte), BodyOk(b, f, l),
           NEW old \in OldOf(b), NEW st, NEW u, Chain(c, u), Front(st, u), Starts(u, f, p, l),
           NEW m \in 0 .. Len(st), NEW k \in 0 .. Len(Drop(st, m)),
           p + m = Header + Len(b) + 1, Len(b) + k <= l
    PROVE  LET filled == Take(old, Len(b)) \o Take(Drop(st, m), k)
           IN  filled \in Seq(Byte) /\ Len(filled) = Len(b) + k /\ BodyOk(filled, f, l)
<1>1. PICK a, rest, t, v : /\ a = Take(old, Len(b)) /\ rest = Drop(st, m) /\ t = Take(rest, k)
                           /\ v = a \o t
  OBVIOUS
<1>2. old \in Seq(Byte) /\ Len(old) = Len(b) /\ BodyOk(old, f, l)
  BY OldIs
<1>3. a = old
  BY <1>1, <1>2, TakeAll
<1>4. /\ rest \in Seq(Byte) /\ Len(rest) = Len(st) - m
      /\ \A i \in 1 .. Len(st) - m : rest[i] = st[m + i]
  BY <1>1, DropIs DEF Front
<1>5. k \in 0 .. Len(rest)
  BY <1>1
<1>6. t \in Seq(Byte) /\ Len(t) = k /\ \A i \in 1 .. k : t[i] = rest[i]
  <2>1. rest \in Seq(Byte)
    BY <1>4
  <2> QED
    BY <1>1, <1>5, <2>1, TakeIs
<1>7. /\ v \in Seq(Byte) /\ Len(v) = Len(old) + Len(t) /\ Len(old) \in Nat
      /\ \A i \in 1 .. Len(old) : v[i] = old[i]
      /\ \A i \in 1 .. Len(t) : v[Len(old) + i] = t[i]
  <2>1. t \in Seq(Byte) /\ old \in Seq(Byte) /\ v = old \o t
    BY <1>1, <1>2, <1>3, <1>6
  <2> QED
    BY <2>1, CatIs
<1>8. Len(st) \in Nat /\ Len(u) \in Nat /\ Header \in Nat
  BY LenProperties, FrameAssumption DEF Chain, Front
<1>11. PICK n \in Nat : n = Len(old) /\ n = Len(b)
  BY <1>2, <1>7
<1>12. Len(v) = n + k /\ p + m = Header + n + 1 /\ n + k <= l
  BY <1>6, <1>7, <1>11
<1>9. ASSUME NEW i \in 1 .. Len(v)
      PROVE  v[i].frame \in {f, Junk} /\ v[i].at = Header + i /\ v[i].len = l
  <2>1. CASE i <= Len(old)
    <3>1. i \in 1 .. Len(old)
      BY <1>7, <2>1
    <3> QED
      BY <1>2, <1>7, <3>1 DEF BodyOk
  <2>2. CASE i > Len(old)
    <3>1. PICK j : j = i - n
      OBVIOUS
    <3>2. j \in 1 .. k /\ n + j = i
      <4>1. i \in Int /\ i <= n + k
        BY <1>12
      <4>2. i > n
        BY <1>11, <2>2
      <4>3. k \in Int
        BY <1>5
      <4> QED
        BY <3>1, <4>1, <4>2, <4>3
    <3>3. PICK d : d = m + j - 1
      OBVIOUS
    <3>4. /\ d \in Nat /\ d + 1 = m + j /\ d + 1 <= Len(u) /\ d + 1 \in 1 .. Len(st)
          /\ j \in 1 .. Len(st) - m
      BY <1>4, <1>5, <1>8, <3>2, <3>3 DEF Front
    <3>5. v[i] = u[d + 1]
      <4>1. v[i] = t[j] /\ t[j] = rest[j] /\ rest[j] = st[m + j]
        BY <1>4, <1>6, <1>7, <1>11, <3>2, <3>4
      <4>2. st[d + 1] = u[d + 1]
        BY <3>4 DEF Front
      <4> QED
        BY <3>4, <4>1, <4>2
    <3>6. p + d = Header + i
      BY <1>8, <1>12, <3>2, <3>3
    <3>7. Reaches(p, d, l)
      BY <1>8, <1>12, <3>2, <3>6 DEF Reaches
    <3>8. u[d + 1].frame = f /\ u[d + 1].len = l /\ u[d + 1].at = p + d
      BY <3>4, <3>7, RunIs
    <3> QED
      BY <3>5, <3>6, <3>8
  <2>3. i <= Len(old) \/ i > Len(old)
    BY <1>6, <1>7
  <2> QED
    BY <2>1, <2>2, <2>3
<1>10. v \in Seq(Byte) /\ Len(v) = Len(b) + k /\ BodyOk(v, f, l)
  BY <1>2, <1>6, <1>7, <1>9 DEF BodyOk
<1> QED
  BY <1>1, <1>10

\* A header that is whole says the length.
LEMMA HeaderSays ==
    ASSUME NEW c, NEW h, NEW f, NEW l, HeaderOk(c, h, f, l), Len(h) = Header
    PROVE  Says(h) = {l}
<1>1. 1 \in 1 .. Header /\ Header \in Nat
  BY FrameAssumption
<1>2. \A i \in 1 .. Header : h[i].conn = c /\ h[i].frame = f /\ h[i].at = i /\ h[i].len = l
  BY DEF HeaderOk
<1> QED
  BY <1>1, <1>2 DEF Says

\* What a call got: of the frame f that u is of, l bytes long, all of the
\* header h and `have` bytes v of the body, the first n of u among them.
Gets(c, u, f, a, l, h, have, n, v) ==
    /\ Chain(c, u) /\ EndsAt(u, a) /\ n \in 1 .. Len(u)
    /\ \E p \in Nat : /\ Starts(u, f, p, l) /\ p + n = Header + have + 1
                      /\ p + Len(u) >= Header + l + 1
    /\ l \in BodyLens /\ have \in Nat /\ have <= l
    /\ h \in Seq(Byte) /\ Len(h) = Header /\ HeaderOk(c, h, f, l)
    /\ v \in Seq(Byte) /\ Len(v) = have /\ BodyOk(v, f, l)

\* ... not yet all of the body,
LEMMA GetsPart ==
    ASSUME NEW c \in Nat, NEW u, NEW g \in Seq(Seq(Byte)), NEW a \in Nat, NEW f, f = Len(g) + 1,
           NEW l, NEW h, NEW have, NEW n, NEW v, Gets(c, u, f, a, l, h, have, n, v), have < l
    PROVE  FdOk(c, Drop(u, n), [header |-> h, done |-> TRUE, body_have |-> have], v, g, a)
<1>1. Chain(c, u) /\ EndsAt(u, a) /\ n \in 0 .. Len(u) /\ Len(u) \in Nat /\ Header \in Nat \ {0}
  BY LenProperties, FrameAssumption DEF Gets, Chain
<1>2. PICK p \in Nat : Starts(u, f, p, l) /\ p + n = Header + have + 1 /\ p + Len(u) >= Header + l + 1
  BY DEF Gets
<1>3. l \in Nat /\ have \in Nat /\ n \in Nat
  BY <1>1, FrameAssumption DEF Gets
<1>4. n + 1 <= Len(u) /\ n # Len(u) /\ p + n <= Header + l
  BY <1>1, <1>2, <1>3
<1>5. PICK w : w = Drop(u, n)
  OBVIOUS
<1>6. Chain(c, w) /\ EndsAt(w, a) /\ w[1] = u[n + 1] /\ w # <<>>
  <2>1. /\ Chain(c, w) /\ (w # <<>> <=> n # Len(u))
        /\ n # Len(u) => EndsAt(w, a) /\ w[1] = u[n + 1]
    BY <1>1, <1>5, ChainDrop
  <2> QED
    BY <1>4, <2>1
<1>7. w[1].frame = f /\ w[1].len = l /\ w[1].at = p + n
  <2>1. Reaches(p, n, l)
    BY <1>4 DEF Reaches
  <2>2. u[n + 1].frame = f /\ u[n + 1].len = l /\ u[n + 1].at = p + n
    BY <1>1, <1>2, <1>3, <1>4, <2>1, RunIs
  <2> QED
    BY <1>6, <2>2
<1>8. PICK q : q = [header |-> h, done |-> TRUE, body_have |-> have]
  OBVIOUS
<1>9. q.header = h /\ q.done = TRUE /\ q.body_have = have
  BY <1>8
<1>10. /\ h \in Seq(Byte) /\ Len(h) = Header /\ HeaderOk(c, h, f, l)
       /\ v \in Seq(Byte) /\ Len(v) = have /\ BodyOk(v, f, l)
  BY DEF Gets
<1>11. StateOk(q, v) /\ Had(q) = Header + have
  <2>1. q \in Rx
    BY <1>3, <1>8, <1>10 DEF Rx
  <2> QED
    BY <1>1, <1>9, <1>10, <2>1 DEF StateOk, Had
<1>12. Reading(c, w, q, v, f)
  <2>1. w[1].at = Had(q) + 1
    BY <1>2, <1>7, <1>11
  <2> QED
    BY <1>7, <1>9, <1>10, <2>1 DEF Reading
<1> QED
  BY <1>5, <1>6, <1>8, <1>11, <1>12 DEF FdOk

\* ... or all of it.
LEMMA GetsWhole ==
    ASSUME NEW c \in Nat, NEW u, NEW g \in Seq(Seq(Byte)), NEW a \in Nat, NEW f, f = Len(g) + 1,
           NEW l, NEW h, NEW have, NEW n, NEW v, Gets(c, u, f, a, l, h, have, n, v), have = l
    PROVE  FdOk(c, Drop(u, n), Start, <<>>, Append(g, v), a)
<1>1. /\ Chain(c, u) /\ EndsAt(u, a) /\ n \in 0 .. Len(u) /\ n \in 1 .. Len(u)
      /\ Len(u) \in Nat /\ Header \in Nat \ {0}
  BY LenProperties, FrameAssumption DEF Gets, Chain
<1>2. PICK p \in Nat : Starts(u, f, p, l) /\ p + n = Header + l + 1
  BY DEF Gets
<1>3. l \in Nat /\ n \in Nat /\ v \in Seq(Byte)
  BY <1>1, FrameAssumption DEF Gets
<1>4. PICK d \in Nat : n = d + 1
  <2>1. n - 1 \in Nat /\ n = (n - 1) + 1
    BY <1>1
  <2> QED
    BY <2>1
<1>5. u[n].frame = f /\ u[n].len = l /\ u[n].at = Header + l
  <2>1. d + 1 <= Len(u) /\ p + d = Header + l
    BY <1>1, <1>2, <1>3, <1>4
  <2>2. Reaches(p, d, l)
    BY <1>1, <1>3, <2>1 DEF Reaches
  <2>3. u[d + 1].frame = f /\ u[d + 1].len = l /\ u[d + 1].at = p + d
    BY <1>1, <1>2, <1>3, <2>1, <2>2, RunIs
  <2> QED
    BY <1>4, <2>1, <2>3
<1>6. PICK w, gs : w = Drop(u, n) /\ gs = Append(g, v)
  OBVIOUS
<1>7. gs \in Seq(Seq(Byte)) /\ Len(gs) = f
  BY <1>3, <1>6, AppendProperties
<1>8. f \in Nat
  BY LenProperties
<1>9. /\ Chain(c, w) /\ (w # <<>> <=> n # Len(u))
      /\ n # Len(u) => EndsAt(w, a) /\ w[1] = u[n + 1]
  BY <1>1, <1>6, ChainDrop
<1>10. /\ Start \in Rx /\ Start.header = <<>> /\ Start.done = FALSE /\ Start.body_have = 0
       /\ Len(Start.header) = 0 /\ <<>> \in Seq(Byte) /\ Had(Start) = 0
  <2>1. <<>> \in Seq(Byte) /\ Len(<<>>) = 0
    BY EmptySeq
  <2> QED
    BY <2>1 DEF Start, Rx, Had
<1>11. StateOk(Start, <<>>)
  BY <1>1, <1>10 DEF StateOk
<1>12. ASSUME w = <<>> PROVE a = Len(gs)
  <2>1. n = Len(u)
    BY <1>9, <1>12
  <2>2. u[n].frame = a
    BY <1>1, <2>1 DEF EndsAt
  <2> QED
    BY <1>5, <1>7, <2>2
<1>13. ASSUME w # <<>> PROVE EndsAt(w, a) /\ Reading(c, w, Start, <<>>, Len(gs) + 1)
  <2>1. EndsAt(w, a) /\ w[1] = u[n + 1] /\ n # Len(u)
    BY <1>9, <1>13
  <2>2. n + 1 \in 2 .. Len(u) /\ n + 1 \in 1 .. Len(u) /\ (n + 1) - 1 = n
    BY <1>1, <2>1
  <2>3. Follows(u[(n + 1) - 1], u[n + 1])
    BY <1>1, <2>2 DEF Chain
  <2>4. Follows(u[n], w[1])
    BY <2>1, <2>2, <2>3
  <2>5. w[1].at \in 1 .. Header + w[1].len
    BY <1>1, <2>1, <2>2 DEF Chain
  <2>6. ASSUME w[1].at # 1 PROVE FALSE
    <3>1. w[1].at = (Header + l) + 1 /\ w[1].len = l
      BY <1>5, <2>4, <2>6 DEF Follows
    <3> QED
      BY <1>1, <1>3, <2>5, <3>1
  <2>7. w[1].at = 1 /\ w[1].frame = f + 1
    BY <1>5, <2>4, <2>6 DEF Follows
  <2> QED
    BY <1>7, <1>10, <2>1, <2>7 DEF Reading, HeaderOk, BodyOk
<1> QED
  BY <1>6, <1>7, <1>9, <1>10, <1>11, <1>12, <1>13 DEF FdOk

\* The frames returned stay in order with one more.
LEMMA GotMore ==
    ASSUME NEW g \in Seq(Seq(Byte)), GotOk(g), NEW v \in Seq(Byte), NEW f, f = Len(g) + 1,
           BodyOk(v, f, Len(v))
    PROVE  GotOk(Append(g, v))
<1>1. PICK gs : gs = Append(g, v)
  OBVIOUS
<1>2. /\ Len(gs) = Len(g) + 1 /\ Len(g) \in Nat
      /\ \A i \in 1 .. Len(g) : gs[i] = g[i]
      /\ gs[Len(g) + 1] = v
  BY <1>1, AppendProperties, LenProperties
<1>3. ASSUME NEW n \in 1 .. Len(gs), NEW i \in 1 .. Len(gs[n])
      PROVE  gs[n][i].frame \in {n, Junk} /\ gs[n][i].at = Header + i /\ gs[n][i].len = Len(gs[n])
  <2>1. CASE n \in 1 .. Len(g)
    BY <1>2, <1>3, <2>1 DEF GotOk
  <2>2. CASE n = f
    BY <1>2, <1>3, <2>2 DEF BodyOk
  <2>3. n \in 1 .. Len(g) \/ n = f
    BY <1>2
  <2> QED
    BY <2>1, <2>2, <2>3
<1> QED
  BY <1>1, <1>3 DEF GotOk

RestOf(r, st, m, h, rest) ==
    m = Header - Len(r.header) /\ Joins(r.header, st, m, h) /\ rest = Drop(st, m)
FillOf(r, old, rest, k, v) == v = Take(old, r.body_have) \o Take(rest, k)

\* net_tcp_recv_frame() with the rest of a header, or a header before, and
\* bytes of the body
LEMMA BodyGets ==
    ASSUME NEW c, NEW u, NEW r, NEW b, NEW g, NEW a, FdOk(c, u, r, b, g, a),
           NEW st, Front(st, u), st # <<>>,
           NEW m, NEW h, NEW rest, RestOf(r, st, m, h, rest), m <= Len(st),
           NEW len \in Says(h), NEW k \in 0 .. Len(rest), NEW old \in OldOf(b), m > 0 \/ k > 0,
           NEW v, FillOf(r, old, rest, k, v), NEW have, have = r.body_have + k, have <= len,
           NEW f, f = Len(g) + 1, NEW n, n = m + k
    PROVE  Gets(c, u, f, a, len, h, have, n, v) /\ n \in 1 .. Len(st) /\ m \in 0 .. Len(st)
<1>1. c \in Nat /\ a \in Nat /\ g \in Seq(Seq(Byte)) /\ Chain(c, u) /\ StateOk(r, b)
  BY DEF FdOk
<1>2. /\ Len(r.header) \in Nat /\ r.body_have \in Nat /\ r.header \in Seq(Byte)
      /\ r.done \in BOOLEAN /\ Had(r) \in Nat /\ Header \in Nat \ {0}
  BY <1>1, StateIs
<1>3. st \in Seq(Byte) /\ Len(st) <= Len(u) /\ Len(u) \in Nat /\ Len(st) \in Nat \ {0}
  BY <1>1, LenProperties, EmptySeq DEF Front, Chain
<1>4. u # <<>>
  BY <1>3, EmptySeq
<1>5. EndsAt(u, a) /\ Reading(c, u, r, b, f)
  BY <1>4 DEF FdOk
<1>6. PICK l, p, x, hd : l = u[1].len /\ p = Had(r) + 1 /\ x = r.body_have /\ hd = r.header
  OBVIOUS
<1>7. Starts(u, f, p, l)
  BY <1>5, <1>6 DEF Reading, Starts
<1>8. Len(u) \in Nat \ {0} /\ l \in BodyLens /\ p + Len(u) >= Header + l + 1
  BY <1>1, <1>4, <1>5, <1>7, EndIs
<1>9. l \in Nat \ {0} /\ p = Len(hd) + x + 1 /\ p \in Nat /\ Len(hd) \in Nat /\ x \in Nat
  <2>1. l \in Nat \ {0}
    BY <1>8, FrameAssumption
  <2>2. Had(r) = Len(hd) + x /\ Len(hd) \in Nat /\ x \in Nat
    BY <1>2, <1>6 DEF Had
  <2> QED
    BY <1>6, <2>1, <2>2
<1>10. /\ m = Header - Len(hd) /\ m \in 0 .. Len(st) /\ Len(hd) + m = Header /\ m \in Nat
       /\ Len(hd) <= Header
  <2>1. m = Header - Len(hd) /\ Len(hd) <= Header
    BY <1>1, <1>6 DEF RestOf, StateOk
  <2> QED
    BY <1>2, <1>3, <1>9, <2>1
<1>11. ASSUME m > 0 PROVE x = 0
  <2>1. Len(hd) < Header
    BY <1>2, <1>9, <1>10, <1>11
  <2>2. Len(hd) # Header
    BY <1>2, <1>9, <2>1
  <2>3. ~r.done
    BY <1>1, <1>6, <2>2 DEF StateOk
  <2> QED
    BY <1>1, <1>6, <2>3 DEF StateOk
<1>12. HeaderOk(c, hd, f, l) /\ BodyOk(b, f, l) /\ hd \in Seq(Byte) /\ b \in Seq(Byte) /\ Len(b) = x
  BY <1>1, <1>2, <1>5, <1>6 DEF Reading, StateOk
<1>13. h \in Seq(Byte) /\ Len(h) = Header /\ HeaderOk(c, h, f, l)
  <2>1. Len(hd) + m <= Header /\ l \in Nat
    BY <1>2, <1>9, <1>10
  <2>2. ASSUME m > 0 PROVE Starts(u, f, Len(hd) + 1, l)
    <3>1. p = Len(hd) + 1
      BY <1>9, <1>11, <2>2
    <3> QED
      BY <1>7, <3>1
  <2>3. PICK w : Joins(hd, st, m, w)
    BY DEF Joins
  <2>4. w \in Seq(Byte) /\ Len(w) = Len(hd) + m /\ HeaderOk(c, w, f, l)
    <3>1. Chain(c, u) /\ m \in 0 .. Len(st) /\ HeaderOk(c, hd, f, l) /\ hd \in Seq(Byte)
      BY <1>1, <1>10, <1>12
    <3>2. m > 0 => Starts(u, f, Len(hd) + 1, l)
      BY <2>2
    <3> QED
      BY SMTT(30), <2>1, <2>3, <3>1, <3>2, HeaderGrows
  <2>5. h = w
    BY <1>6, <2>3 DEF RestOf, Joins
  <2> QED
    BY <1>10, <2>4, <2>5
<1>14. len = l
  <2>1. Says(h) = {l}
    BY <1>13, HeaderSays
  <2> QED
    BY <2>1
<1>15. rest = Drop(st, m) /\ Len(rest) = Len(st) - m
  <2>1. rest = Drop(st, m)
    BY DEF RestOf
  <2> QED
    BY <1>3, <1>10, <2>1, DropIs
<1>16. k \in Nat /\ have = x + k /\ have \in Nat /\ have <= l /\ n \in 1 .. Len(st) /\ n \in 1 .. Len(u)
  <2>1. k \in Nat /\ k <= Len(st) - m
    BY <1>3, <1>10, <1>15
  <2>2. have = x + k /\ have \in Nat /\ have <= l
    BY <1>6, <1>9, <1>14, <2>1
  <2>3. n \in 1 .. Len(st)
    BY <1>3, <1>10, <2>1
  <2> QED
    BY <1>3, <2>1, <2>2, <2>3
<1>17. p + m = Header + x + 1
  BY <1>2, <1>9, <1>10
<1>18. p + n = Header + have + 1
  BY SMTT(30), <1>2, <1>9, <1>10, <1>16, <1>17
<1>19. v \in Seq(Byte) /\ Len(v) = have /\ BodyOk(v, f, l)
  <2>1. p + m = Header + Len(b) + 1 /\ Len(b) + k <= l /\ l \in Nat
    BY <1>9, <1>12, <1>16, <1>17
  <2>2. k \in 0 .. Len(Drop(st, m))
    BY <1>15
  <2>3. PICK w : w = Take(old, Len(b)) \o Take(Drop(st, m), k)
    OBVIOUS
  <2>4. w \in Seq(Byte) /\ Len(w) = Len(b) + k /\ BodyOk(w, f, l)
    <3>1. /\ Chain(c, u) /\ Starts(u, f, p, l) /\ p \in Nat /\ m \in 0 .. Len(st)
          /\ b \in Seq(Byte) /\ BodyOk(b, f, l)
      BY <1>1, <1>7, <1>9, <1>10, <1>12
    <3> QED
      BY <2>1, <2>2, <2>3, <3>1, BodyFills
  <2>5. v = w
    BY <1>6, <1>12, <1>15, <2>3 DEF FillOf
  <2> QED
    BY <1>12, <1>16, <2>4, <2>5
<1> QED
  BY <1>1, <1>5, <1>7, <1>8, <1>9, <1>10, <1>13, <1>14, <1>16, <1>18, <1>19 DEF Gets

----------------------------------------------------------------------------
(* The sender: at most one slot of the table is a connection's.            *)

SlotType == {FreeSlot} \cup [fd : Fds, left : Seq(Byte)]
PendOk(p) ==
    /\ p \in [Slots -> SlotType]
    /\ \A s, t \in Slots : p[s].fd = p[t].fd /\ p[s].fd # NoFd => s = t
\* All that is unread: Unread
IsRest(p, st, fd, u) ==
    \/ (\A s \in Slots : p[s].fd # fd) /\ u = st
    \/ \E s \in Slots : p[s].fd = fd /\ u = st \o p[s].left
Same(p, q, fd) ==
    \A s \in Slots : (p[s].fd = fd <=> q[s].fd = fd) /\ (p[s].fd = fd => q[s] = p[s])

\* A slot that is a connection's has bytes.
LEMMA SlotIs ==
    ASSUME NEW p, PendOk(p), NEW s \in Slots, NEW fd \in Fds, p[s].fd = fd
    PROVE  p[s].left \in Seq(Byte) /\ p[s] = [fd |-> fd, left |-> p[s].left]
<1>1. p[s] # FreeSlot
  BY FrameAssumption DEF FreeSlot
<1>2. p[s] \in [fd : Fds, left : Seq(Byte)]
  BY <1>1 DEF PendOk, SlotType
<1> QED
  BY <1>2

\* What of a frame the kernel did not take is put in a slot
PutsIn(p, s, fd, l, k, q) == q = [p EXCEPT ![s] = Flushed([fd |-> fd, left |-> l], k)]

\* The bytes the kernel took and those in the slot are the whole, no other slot
\* becomes the connection's, and those of the others stay theirs.
LEMMA PutIn ==
    ASSUME NEW p, PendOk(p), NEW s \in Slots, NEW fd \in Fds, p[s].fd \in {fd, NoFd},
           \A t \in Slots \ {s} : p[t].fd # fd,
           NEW l \in Seq(Byte), NEW k \in 0 .. Len(l), NEW st \in Seq(Byte),
           NEW q, PutsIn(p, s, fd, l, k, q)
    PROVE  /\ PendOk(q) /\ st \o Take(l, k) \in Seq(Byte)
           /\ IsRest(q, st \o Take(l, k), fd, st \o l)
           /\ \A g \in Fds \ {fd} : Same(p, q, g)
<1>1. PICK d : d = Drop(l, k)
  OBVIOUS
<1>2. d \in Seq(Byte)
  BY <1>1, DropIs
<1>3. PICK x : x = Flushed([fd |-> fd, left |-> l], k)
  OBVIOUS
<1>4. /\ k = Len(l) => x = FreeSlot
      /\ k # Len(l) => x = [fd |-> fd, left |-> d]
  BY <1>1, <1>3 DEF Flushed
<1>5. x \in SlotType /\ x.fd \in {fd, NoFd}
  BY <1>2, <1>4 DEF SlotType, FreeSlot
<1>6. p \in [Slots -> SlotType] /\ fd # NoFd /\ NoFd \notin Fds
  BY FrameAssumption DEF PendOk
<1>7. q[s] = x /\ (\A t \in Slots \ {s} : q[t] = p[t]) /\ q \in [Slots -> SlotType]
  BY <1>3, <1>5, <1>6 DEF PutsIn
<1>8. PendOk(q)
  <2>1. ASSUME NEW r \in Slots, NEW t \in Slots, q[r].fd = q[t].fd, q[r].fd # NoFd
        PROVE  r = t
    <3>1. CASE r = s
      BY <1>5, <1>7, <2>1, <3>1
    <3>2. CASE t = s
      BY <1>5, <1>7, <2>1, <3>2
    <3>3. CASE r # s /\ t # s
      BY <1>7, <2>1, <3>3 DEF PendOk
    <3> QED
      BY <3>1, <3>2, <3>3
  <2> QED
    BY <1>7, <2>1 DEF PendOk
<1>9. \A g \in Fds \ {fd} : Same(p, q, g)
  BY <1>5, <1>6, <1>7 DEF Same
<1>10. /\ st \o Take(l, k) \in Seq(Byte) /\ (st \o Take(l, k)) \o d = st \o l
       /\ k = Len(l) => st \o Take(l, k) = st \o l
  BY <1>1, Moved
<1>11. IsRest(q, st \o Take(l, k), fd, st \o l)
  <2>1. PICK a, b : a = st \o Take(l, k) /\ b = st \o l
    OBVIOUS
  <2>2. CASE k = Len(l)
    <3>1. \A t \in Slots : q[t].fd # fd
      BY <1>4, <1>6, <1>7, <2>2 DEF FreeSlot
    <3>2. b = a
      BY <1>10, <2>1, <2>2
    <3> QED
      BY <2>1, <3>1, <3>2 DEF IsRest
  <2>3. CASE k # Len(l)
    <3>1. q[s].fd = fd /\ q[s].left = d
      BY <1>4, <1>7, <2>3
    <3>2. b = a \o d
      BY <1>10, <2>1
    <3> QED
      BY <2>1, <3>1, <3>2 DEF IsRest
  <2> QED
    BY <2>2, <2>3
<1> QED
  BY <1>8, <1>9, <1>10, <1>11

\* What is unread of a connection does not change with slots of others.
LEMMA SameRest ==
    ASSUME NEW p, NEW q, NEW fd, Same(p, q, fd), NEW st, NEW u, IsRest(p, st, fd, u)
    PROVE  IsRest(q, st, fd, u)
<1>1. CASE (\A s \in Slots : p[s].fd # fd) /\ u = st
  BY <1>1 DEF Same, IsRest
<1>2. ASSUME NEW s \in Slots, p[s].fd = fd, u = st \o p[s].left PROVE IsRest(q, st, fd, u)
  <2>1. q[s].fd = fd /\ q[s] = p[s]
    BY <1>2 DEF Same
  <2> QED
    BY <1>2, <2>1 DEF IsRest
<1> QED
  BY <1>1, <1>2 DEF IsRest

\* Reading from the kernel's part
LEMMA ReadRest ==
    ASSUME NEW p, PendOk(p), NEW fd \in Fds, NEW st \in Seq(Byte), NEW u, IsRest(p, st, fd, u)
    PROVE  /\ u \in Seq(Byte) /\ Front(st, u)
           /\ \A k \in 0 .. Len(st) : Drop(st, k) \in Seq(Byte) /\ IsRest(p, Drop(st, k), fd, Drop(u, k))
<1>1. \A k \in 0 .. Len(st) : Drop(st, k) \in Seq(Byte)
  BY DropIs
<1>2. Len(st) \in Nat
  BY LenProperties
<1>3. CASE (\A s \in Slots : p[s].fd # fd) /\ u = st
  BY <1>1, <1>2, <1>3 DEF Front, IsRest
<1>4. ASSUME NEW s \in Slots, p[s].fd = fd, u = st \o p[s].left
      PROVE  /\ u \in Seq(Byte) /\ Front(st, u)
             /\ \A k \in 0 .. Len(st) : IsRest(p, Drop(st, k), fd, Drop(u, k))
  <2>1. PICK l : l = p[s].left
    OBVIOUS
  <2>2. l \in Seq(Byte)
    BY <1>4, <2>1, SlotIs
  <2>3. u = st \o l
    BY <1>4, <2>1
  <2>4. /\ u \in Seq(Byte) /\ Len(u) = Len(st) + Len(l) /\ Len(l) \in Nat
        /\ \A i \in 1 .. Len(st) : u[i] = st[i]
    BY <2>2, <2>3, CatIs
  <2>5. Front(st, u)
    BY <1>2, <2>4 DEF Front
  <2>6. ASSUME NEW k \in 0 .. Len(st) PROVE IsRest(p, Drop(st, k), fd, Drop(u, k))
    <3>1. Drop(st \o l, k) = Drop(st, k) \o l
      BY <2>2, DropCat
    <3>2. PICK a, b : a = Drop(st, k) /\ b = Drop(u, k)
      OBVIOUS
    <3>3. b = a \o l
      BY <2>3, <3>1, <3>2
    <3>4. IsRest(p, a, fd, b)
      BY <1>4, <2>1, <3>3 DEF IsRest
    <3> QED
      BY <3>2, <3>4
  <2> QED
    BY <2>4, <2>5, <2>6
<1> QED
  BY <1>1, <1>3, <1>4 DEF IsRest

\* A frame more to read
LEMMA FrameAdded ==
    ASSUME NEW fd, NEW u, NEW r, NEW b, NEW g, NEW a, FdOk(conns[fd], u, r, b, g, a),
           NEW len \in BodyLens, NEW n, n = a + 1, NEW bytes, bytes = Bytes(fd, n, len)
    PROVE  FdOk(conns[fd], u \o bytes, r, b, g, n)
<1>1. /\ conns[fd] \in Nat /\ a \in Nat /\ g \in Seq(Seq(Byte)) /\ Chain(conns[fd], u)
      /\ StateOk(r, b) /\ (u # <<>> => EndsAt(u, a)) /\ n \in Nat
  BY DEF FdOk
<1>2. PICK v : v = u \o bytes
  OBVIOUS
<1>3. /\ Chain(conns[fd], v) /\ EndsAt(v, n) /\ v # <<>>
      /\ v[1] = IF u = <<>> THEN bytes[1] ELSE u[1]
      /\ bytes[1].frame = n /\ bytes[1].at = 1
  <2>1. Appends(fd, u, a, len, n, bytes, v)
    BY <1>2 DEF Appends
  <2>2. /\ conns[fd] \in Nat /\ a \in Nat /\ Chain(conns[fd], u)
        /\ EndsBefore(u, a)
    BY <1>1 DEF EndsBefore
  <2>3. Added(conns[fd], u, n, bytes, v)
    BY <2>1, <2>2, ChainCat
  <2> QED
    BY <2>3 DEF Added
<1>4. CASE u = <<>>
  <2>1. Had(r) = 0 /\ a = Len(g)
    BY <1>4 DEF FdOk
  <2>2. Len(r.header) = 0 /\ Len(b) = 0
    BY <1>1, <2>1, StateIs DEF Had, StateOk
  <2>3. v[1].frame = Len(g) + 1 /\ v[1].at = Had(r) + 1
    BY <1>3, <1>4, <2>1
  <2>4. Reading(conns[fd], v, r, b, Len(g) + 1)
    BY <2>2, <2>3 DEF Reading, HeaderOk, BodyOk
  <2> QED
    BY <1>1, <1>2, <1>3, <2>4 DEF FdOk
<1>5. CASE u # <<>>
  <2>1. Reading(conns[fd], u, r, b, Len(g) + 1) /\ v[1] = u[1]
    BY <1>3, <1>5 DEF FdOk
  <2>2. Reading(conns[fd], v, r, b, Len(g) + 1)
    BY <2>1 DEF Reading
  <2> QED
    BY <1>1, <1>2, <1>3, <2>2 DEF FdOk
<1> QED
  BY <1>4, <1>5

----------------------------------------------------------------------------
(* The invariant *)

Types ==
    /\ conns \in [Fds -> Nat] /\ broken \in [Fds -> BOOLEAN] /\ stream \in [Fds -> Seq(Byte)]
    /\ rx \in [Fds -> Rx] /\ body \in [Fds -> Seq(Byte)]
    /\ accepted \in [Fds -> Nat] /\ got \in [Fds -> Seq(Seq(Byte))]
FdInv(fd) ==
    /\ broken[fd] => stream[fd] = <<>>
    /\ ~broken[fd] => \E u : /\ IsRest(pending, stream[fd], fd, u)
                             /\ FdOk(conns[fd], u, rx[fd], body[fd], got[fd], accepted[fd])
    /\ GotOk(got[fd])
TcpInv == Types /\ PendOk(pending) /\ \A fd \in Fds : FdInv(fd)

OnlyOf(fd) ==
    \A g \in Fds \ {fd} :
        /\ conns'[g] = conns[g] /\ broken'[g] = broken[g] /\ stream'[g] = stream[g]
        /\ rx'[g] = rx[g] /\ body'[g] = body[g] /\ accepted'[g] = accepted[g] /\ got'[g] = got[g]
        /\ Same(pending, pending', g)

\* What a step does to one connection leaves the others alone.
LEMMA OthersKeep ==
    ASSUME TcpInv, NEW fd \in Fds, OnlyOf(fd), Types', PendOk(pending'), FdInv(fd)'
    PROVE  TcpInv'
<1>1. ASSUME NEW g \in Fds, g # fd PROVE FdInv(g)'
  <2>1. /\ conns'[g] = conns[g] /\ broken'[g] = broken[g] /\ stream'[g] = stream[g]
        /\ rx'[g] = rx[g] /\ body'[g] = body[g] /\ accepted'[g] = accepted[g] /\ got'[g] = got[g]
        /\ Same(pending, pending', g)
    BY <1>1 DEF OnlyOf
  <2>2. FdInv(g)
    BY DEF TcpInv
  <2>3. ASSUME ~broken[g]
        PROVE  \E u : /\ IsRest(pending', stream[g], g, u)
                      /\ FdOk(conns[g], u, rx[g], body[g], got[g], accepted[g])
    <3>1. PICK u : /\ IsRest(pending, stream[g], g, u)
                   /\ FdOk(conns[g], u, rx[g], body[g], got[g], accepted[g])
      BY <2>2, <2>3 DEF FdInv
    <3>2. IsRest(pending', stream[g], g, u)
      BY <2>1, <3>1, SameRest
    <3> QED
      BY <3>1, <3>2
  <2> QED
    BY <2>1, <2>2, <2>3 DEF FdInv
<1> QED
  BY <1>1 DEF TcpInv

\* The rest of a connection that has no slot, and of one that has
LEMMA RestNone ==
    ASSUME NEW fd, NEW st, NEW u, IsRest(pending, st, fd, u), SlotsOf(fd) = {}
    PROVE  u = st
BY DEF SlotsOf, IsRest

RestBy(s, fd, st, u) ==
    u = st \o pending[s].left /\ \A t \in Slots \ {s} : pending[t].fd # fd
\* ... one: the part of the kernel, then that of the slot
LEMMA RestOne ==
    ASSUME PendOk(pending), NEW fd \in Fds, NEW st, NEW u, IsRest(pending, st, fd, u),
           NEW s \in SlotsOf(fd)
    PROVE  RestBy(s, fd, st, u) /\ SlotsOf(fd) = {s}
<1>1. fd # NoFd
  BY FrameAssumption
<1>2. s \in Slots /\ pending[s].fd = fd
  BY DEF SlotsOf
<1>3. \A t \in Slots : pending[t].fd = fd => t = s
  BY <1>1, <1>2 DEF PendOk
<1>4. SlotsOf(fd) = {s}
  BY <1>2, <1>3 DEF SlotsOf
<1>5. u = st \o pending[s].left
  BY <1>2, <1>3 DEF IsRest
<1> QED
  BY <1>3, <1>4, <1>5 DEF RestBy

\* What the invariant says of an open connection
LEMMA Alive ==
    ASSUME TcpInv, NEW fd \in Fds, ~broken[fd]
    PROVE  \E u : /\ IsRest(pending, stream[fd], fd, u) /\ u \in Seq(Byte)
                  /\ FdOk(conns[fd], u, rx[fd], body[fd], got[fd], accepted[fd])
<1>1. PICK u : /\ IsRest(pending, stream[fd], fd, u)
               /\ FdOk(conns[fd], u, rx[fd], body[fd], got[fd], accepted[fd])
  BY DEF TcpInv, FdInv
<1>2. PICK st : st = stream[fd]
  OBVIOUS
<1>3. st \in Seq(Byte) /\ PendOk(pending) /\ IsRest(pending, st, fd, u)
  BY <1>1, <1>2 DEF TcpInv, Types
<1>4. u \in Seq(Byte)
  BY <1>3, ReadRest
<1> QED
  BY <1>1, <1>4

\* net_tcp_send_frame_ex() with nothing pending
LEMMA SendFrameKeeps ==
    ASSUME TcpInv, NEW fd \in Fds, NEW len \in BodyLens, SendFrame(fd, len) PROVE TcpInv'
<1>1. PICK n, bytes, st : n = accepted[fd] + 1 /\ bytes = Bytes(fd, n, len) /\ st = stream[fd]
  OBVIOUS
<1>2. PICK s \in SlotsOf(NoFd), k \in 0 .. Len(bytes) :
         /\ pending' = [pending EXCEPT ![s] = Flushed([fd |-> fd, left |-> bytes], k)]
         /\ stream' = [stream EXCEPT ![fd] = @ \o Take(bytes, k)]
         /\ accepted' = [accepted EXCEPT ![fd] = n]
  BY <1>1 DEF SendFrame
<1>3. ~broken[fd] /\ SlotsOf(fd) = {} /\ UNCHANGED <<conns, broken, rx, body, got>>
  BY DEF SendFrame
<1>4. PICK u : /\ IsRest(pending, st, fd, u) /\ u \in Seq(Byte)
               /\ FdOk(conns[fd], u, rx[fd], body[fd], got[fd], accepted[fd])
  BY <1>1, <1>3, Alive
<1>5. PendOk(pending) /\ Types /\ GotOk(got[fd])
  BY DEF TcpInv, FdInv
<1>6. u = st
  BY <1>3, <1>4, RestNone
<1>7. accepted[fd] \in Nat /\ n \in Nat /\ conns[fd] \in Nat /\ st \in Seq(Byte)
  BY <1>1, <1>5 DEF Types
<1>8. bytes \in Seq(Byte)
  BY <1>1, <1>7, BytesAre
<1>9. PICK v : v = st \o Take(bytes, k)
  OBVIOUS
<1>10. /\ PendOk(pending') /\ v \in Seq(Byte) /\ IsRest(pending', v, fd, st \o bytes)
       /\ \A g \in Fds \ {fd} : Same(pending, pending', g)
  <2>1. /\ s \in Slots /\ pending[s].fd \in {fd, NoFd} /\ (\A t \in Slots \ {s} : pending[t].fd # fd)
        /\ PutsIn(pending, s, fd, bytes, k, pending')
    BY <1>2, <1>3 DEF SlotsOf, PutsIn
  <2> QED
    BY <1>5, <1>7, <1>8, <1>9, <2>1, PutIn
<1>11. FdOk(conns[fd], st \o bytes, rx[fd], body[fd], got[fd], n)
  BY <1>1, <1>4, <1>6, FrameAdded
<1>12. stream' = [stream EXCEPT ![fd] = v]
  BY <1>1, <1>2, <1>9
<1>13. Types'
  BY <1>2, <1>3, <1>5, <1>7, <1>10, <1>12 DEF Types
<1>14. OnlyOf(fd)
  BY <1>2, <1>3, <1>5, <1>10, <1>12 DEF OnlyOf, Types
<1>15. stream'[fd] = v /\ accepted'[fd] = n
  BY <1>2, <1>5, <1>12 DEF Types
<1>16. FdInv(fd)'
  <2>1. PICK w : w = st \o bytes
    OBVIOUS
  <2>2. IsRest(pending', v, fd, w) /\ FdOk(conns[fd], w, rx[fd], body[fd], got[fd], n)
    BY <1>10, <1>11, <2>1
  <2> QED
    BY <1>3, <1>5, <1>15, <2>2 DEF FdInv
<1> QED
  BY <1>10, <1>13, <1>14, <1>16, OthersKeep

\* k bytes of what is pending are flushed and nothing else happens.
Flushes(fd, s, k) ==
    /\ pending' = [pending EXCEPT ![s] = Flushed(@, k)]
    /\ stream' = [stream EXCEPT ![fd] = @ \o Take(pending[s].left, k)]
    /\ UNCHANGED <<conns, broken, rx, body, accepted, got>>

\* A flush moves bytes and changes nothing of what is unread.
LEMMA FlushKeeps ==
    ASSUME TcpInv, NEW fd \in Fds, ~broken[fd], NEW s \in SlotsOf(fd),
           NEW k \in 0 .. Len(pending[s].left), Flushes(fd, s, k)
    PROVE  TcpInv'
<1>1. PICK old, st : old = pending[s].left /\ st = stream[fd]
  OBVIOUS
<1>2. PICK u : /\ IsRest(pending, st, fd, u) /\ u \in Seq(Byte)
               /\ FdOk(conns[fd], u, rx[fd], body[fd], got[fd], accepted[fd])
  BY <1>1, Alive
<1>3. PendOk(pending) /\ Types /\ GotOk(got[fd])
  BY DEF TcpInv, FdInv
<1>4. s \in Slots /\ pending[s].fd = fd /\ st \in Seq(Byte)
  BY <1>1, <1>3 DEF SlotsOf, Types
<1>5. u = st \o old /\ \A t \in Slots \ {s} : pending[t].fd # fd
  <2>1. RestBy(s, fd, st, u)
    BY <1>2, <1>3, RestOne
  <2> QED
    BY <1>1, <2>1 DEF RestBy
<1>6. old \in Seq(Byte) /\ pending[s] = [fd |-> fd, left |-> old]
  BY <1>1, <1>3, <1>4, SlotIs
<1>7. PICK v : v = st \o Take(old, k)
  OBVIOUS
<1>8. /\ PendOk(pending') /\ v \in Seq(Byte) /\ IsRest(pending', v, fd, st \o old)
      /\ \A g \in Fds \ {fd} : Same(pending, pending', g)
  <2>1. /\ k \in 0 .. Len(old) /\ pending[s].fd \in {fd, NoFd}
        /\ PutsIn(pending, s, fd, old, k, pending')
    BY <1>1, <1>4, <1>6 DEF Flushes, PutsIn
  <2> QED
    BY <1>3, <1>4, <1>5, <1>6, <1>7, <2>1, PutIn
<1>9. stream' = [stream EXCEPT ![fd] = v] /\ UNCHANGED <<conns, broken, rx, body, accepted, got>>
  BY <1>1, <1>7 DEF Flushes
<1>10. Types' /\ OnlyOf(fd) /\ stream'[fd] = v
  BY <1>3, <1>8, <1>9 DEF Types, OnlyOf
<1>11. FdInv(fd)'
  <2>1. IsRest(pending', v, fd, u)
    BY <1>5, <1>8
  <2> QED
    BY <1>2, <1>3, <1>9, <1>10, <2>1 DEF FdInv
<1> QED
  BY <1>8, <1>10, <1>11, OthersKeep

\* All that was pending goes, and j bytes of a new frame.
Behind(fd, s, n, bytes, j) ==
    /\ pending' = [pending EXCEPT ![s] = Flushed([fd |-> fd, left |-> bytes], j)]
    /\ stream' = [stream EXCEPT ![fd] = @ \o pending[s].left \o Take(bytes, j)]
    /\ accepted' = [accepted EXCEPT ![fd] = n]
    /\ UNCHANGED <<conns, broken, rx, body, got>>

\* net_tcp_send_frame_ex() after a flush of all that was pending
LEMMA BehindKeeps ==
    ASSUME TcpInv, NEW fd \in Fds, ~broken[fd], NEW s \in SlotsOf(fd), NEW len \in BodyLens,
           NEW n, n = accepted[fd] + 1, NEW bytes, bytes = Bytes(fd, n, len),
           NEW j \in 0 .. Len(bytes), Behind(fd, s, n, bytes, j)
    PROVE  TcpInv'
<1>1. PICK old, st : old = pending[s].left /\ st = stream[fd]
  OBVIOUS
<1>2. PICK u : /\ IsRest(pending, st, fd, u) /\ u \in Seq(Byte)
               /\ FdOk(conns[fd], u, rx[fd], body[fd], got[fd], accepted[fd])
  BY <1>1, Alive
<1>3. PendOk(pending) /\ Types /\ GotOk(got[fd])
  BY DEF TcpInv, FdInv
<1>4. /\ s \in Slots /\ pending[s].fd = fd /\ st \in Seq(Byte)
      /\ accepted[fd] \in Nat /\ n \in Nat /\ conns[fd] \in Nat
  BY <1>1, <1>3 DEF SlotsOf, Types
<1>5. u = st \o old /\ \A t \in Slots \ {s} : pending[t].fd # fd
  <2>1. RestBy(s, fd, st, u)
    BY <1>2, <1>3, RestOne
  <2> QED
    BY <1>1, <2>1 DEF RestBy
<1>6. bytes \in Seq(Byte)
  BY <1>4, BytesAre
<1>7. PICK v, w : v = u \o Take(bytes, j) /\ w = u \o bytes
  OBVIOUS
<1>8. /\ PendOk(pending') /\ v \in Seq(Byte) /\ IsRest(pending', v, fd, w)
      /\ \A g \in Fds \ {fd} : Same(pending, pending', g)
  <2>1. pending[s].fd \in {fd, NoFd} /\ PutsIn(pending, s, fd, bytes, j, pending')
    BY <1>4 DEF PutsIn, Behind
  <2>2. /\ PendOk(pending) /\ u \in Seq(Byte) /\ bytes \in Seq(Byte) /\ s \in Slots
        /\ \A t \in Slots \ {s} : pending[t].fd # fd
    BY <1>2, <1>3, <1>4, <1>5, <1>6
  <2>3. /\ PendOk(pending') /\ u \o Take(bytes, j) \in Seq(Byte)
        /\ IsRest(pending', u \o Take(bytes, j), fd, u \o bytes)
        /\ \A g \in Fds \ {fd} : Same(pending, pending', g)
    BY <2>1, <2>2, PutIn
  <2> QED
    BY <1>7, <2>3
<1>9. FdOk(conns[fd], w, rx[fd], body[fd], got[fd], n)
  BY <1>2, <1>7, FrameAdded
<1>10. /\ stream' = [stream EXCEPT ![fd] = v] /\ accepted' = [accepted EXCEPT ![fd] = n]
       /\ UNCHANGED <<conns, broken, rx, body, got>>
  BY <1>1, <1>5, <1>7 DEF Behind
<1>11. Types' /\ OnlyOf(fd) /\ stream'[fd] = v /\ accepted'[fd] = n
  <2>1. Types'
    BY <1>3, <1>4, <1>8, <1>10 DEF Types
  <2>2. OnlyOf(fd)
    BY <1>3, <1>8, <1>10 DEF Types, OnlyOf
  <2>3. stream'[fd] = v /\ accepted'[fd] = n
    BY <1>3, <1>10 DEF Types
  <2> QED
    BY <2>1, <2>2, <2>3
<1>12. FdInv(fd)'
  BY <1>3, <1>8, <1>9, <1>10, <1>11 DEF FdInv
<1> QED
  BY <1>8, <1>11, <1>12, OthersKeep

\* The steps of the sender keep the invariant.
LEMMA SendsKeep ==
    ASSUME TcpInv, NEW fd \in Fds,
           (\E len \in BodyLens : SendFrame(fd, len) \/ SendBehind(fd, len)) \/ FlushWritable(fd)
    PROVE  TcpInv'
<1>1. ASSUME NEW len \in BodyLens, SendFrame(fd, len) PROVE TcpInv'
  BY <1>1, SendFrameKeeps
<1>2. ASSUME NEW len \in BodyLens, SendBehind(fd, len) PROVE TcpInv'
  <2>1. ~broken[fd] /\ UNCHANGED <<conns, broken, rx, body, got>>
    BY <1>2 DEF SendBehind
  <2>5. PICK n, bytes : n = accepted[fd] + 1 /\ bytes = Bytes(fd, n, len)
    OBVIOUS
  <2>6. PICK s \in SlotsOf(fd) : \E k \in 0 .. Len(pending[s].left) :
          LET old == pending[s].left
          IN IF k < Len(old)
             THEN /\ pending' = [pending EXCEPT ![s] = Flushed(@, k)]
                  /\ stream' = [stream EXCEPT ![fd] = @ \o Take(old, k)]
                  /\ UNCHANGED accepted
             ELSE \E j \in 0 .. Len(bytes) :
                  /\ pending' = [pending EXCEPT
                                    ![s] = Flushed([fd |-> fd, left |-> bytes], j)]
                  /\ stream' = [stream EXCEPT ![fd] = @ \o old \o Take(bytes, j)]
                  /\ accepted' = [accepted EXCEPT ![fd] = n]
    BY <1>2, <2>5 DEF SendBehind
  <2>2. PICK k \in 0 .. Len(pending[s].left) :
          /\ k < Len(pending[s].left) =>
                  /\ pending' = [pending EXCEPT ![s] = Flushed(@, k)]
                  /\ stream' = [stream EXCEPT ![fd] = @ \o Take(pending[s].left, k)]
                  /\ UNCHANGED accepted
          /\ ~(k < Len(pending[s].left)) =>
               \E j \in 0 .. Len(bytes) :
                  /\ pending' = [pending EXCEPT ![s] = Flushed([fd |-> fd, left |-> bytes], j)]
                  /\ stream' = [stream EXCEPT ![fd] = @ \o pending[s].left \o Take(bytes, j)]
                  /\ accepted' = [accepted EXCEPT ![fd] = n]
    BY <2>6
  <2>3. CASE k < Len(pending[s].left)
    <3>1. Flushes(fd, s, k)
      BY <2>1, <2>2, <2>3 DEF Flushes
    <3> QED
      BY <2>1, <3>1, FlushKeeps
  <2>4. CASE ~(k < Len(pending[s].left))
    <3>2. PICK j \in 0 .. Len(bytes) :
             /\ pending' = [pending EXCEPT ![s] = Flushed([fd |-> fd, left |-> bytes], j)]
             /\ stream' = [stream EXCEPT ![fd] = @ \o pending[s].left \o Take(bytes, j)]
             /\ accepted' = [accepted EXCEPT ![fd] = n]
      BY <2>2, <2>4
    <3> QED
      BY <2>1, <2>5, <3>2, BehindKeeps DEF Behind
  <2> QED
    BY <2>3, <2>4
<1>3. ASSUME FlushWritable(fd) PROVE TcpInv'
  <2>1. PICK s \in SlotsOf(fd) : \E k \in 1 .. Len(pending[s].left) :
           /\ pending' = [pending EXCEPT ![s] = Flushed(@, k)]
           /\ stream' = [stream EXCEPT ![fd] = @ \o Take(pending[s].left, k)]
    BY <1>3 DEF FlushWritable
  <2>3. PICK k \in 1 .. Len(pending[s].left) :
           /\ pending' = [pending EXCEPT ![s] = Flushed(@, k)]
           /\ stream' = [stream EXCEPT ![fd] = @ \o Take(pending[s].left, k)]
    BY <2>1
  <2>4. PICK z : z = Len(pending[s].left)
    OBVIOUS
  <2>5. k \in 1 .. z
    BY <2>3, <2>4
  <2>6. k \in 0 .. z
    BY <2>5
  <2>2. ~broken[fd] /\ k \in 0 .. Len(pending[s].left) /\ Flushes(fd, s, k)
    BY <1>3, <2>3, <2>4, <2>6 DEF FlushWritable, Flushes
  <2> QED
    BY <2>2, FlushKeeps
<1> QED
  BY <1>1, <1>2, <1>3

\* A connection that just began
LEMMA EmptyIs ==
    ASSUME NEW c \in Nat PROVE FdOk(c, <<>>, Start, <<>>, <<>>, 0) /\ GotOk(<<>>)
<1>1. Len(<<>>) = 0 /\ <<>> \in Seq(Byte) /\ <<>> \in Seq(Seq(Byte))
  BY EmptySeq
<1>2. /\ Start \in Rx /\ Start.header = <<>> /\ Start.done = FALSE /\ Start.body_have = 0
      /\ Had(Start) = 0
  BY <1>1 DEF Start, Rx, Had
<1>3. Chain(c, <<>>)
  BY <1>1 DEF Chain
<1>4. StateOk(Start, <<>>)
  BY <1>1, <1>2, FrameAssumption DEF StateOk
<1> QED
  BY <1>1, <1>2, <1>3, <1>4 DEF FdOk, GotOk

\* A connection breaks, and what was pending goes.
LEMMA BrokenKeep ==
    ASSUME TcpInv, NEW fd \in Fds, Break(fd) \/ SendFails(fd) PROVE TcpInv'
<1>1. PendOk(pending) /\ Types /\ GotOk(got[fd]) /\ (broken[fd] => stream[fd] = <<>>)
  BY DEF TcpInv, FdInv
<1>2. <<>> \in Seq(Byte)
  BY EmptySeq
<1>3. CASE Break(fd)
  <2>1. /\ broken' = [broken EXCEPT ![fd] = TRUE] /\ stream' = [stream EXCEPT ![fd] = <<>>]
        /\ UNCHANGED <<conns, pending, rx, body, accepted, got>>
    BY <1>3 DEF Break
  <2>2. Types' /\ OnlyOf(fd) /\ PendOk(pending')
    BY <1>1, <1>2, <2>1 DEF Types, OnlyOf, Same
  <2>3. broken'[fd] = TRUE /\ stream'[fd] = <<>> /\ got'[fd] = got[fd]
    BY <1>1, <2>1 DEF Types
  <2> QED
    BY <1>1, <2>2, <2>3, OthersKeep DEF FdInv
<1>4. CASE SendFails(fd)
  <2>1. PICK s \in SlotsOf(fd) : pending' = [pending EXCEPT ![s] = FreeSlot]
    BY <1>4 DEF SendFails
  <2>2. broken[fd] /\ UNCHANGED <<conns, broken, stream, rx, body, accepted, got>>
    BY <1>4 DEF SendFails
  <2>3. s \in Slots /\ pending[s].fd = fd /\ fd # NoFd /\ FreeSlot.fd = NoFd /\ FreeSlot \in SlotType
    BY FrameAssumption DEF SlotsOf, FreeSlot, SlotType
  <2>4. pending'[s] = FreeSlot /\ \A t \in Slots \ {s} : pending'[t] = pending[t]
    BY <1>1, <2>1, <2>3 DEF PendOk
  <2>5. PendOk(pending')
    <3>1. pending' \in [Slots -> SlotType]
      BY <1>1, <2>1, <2>3 DEF PendOk
    <3>2. \A r, t \in Slots : pending'[r].fd = pending'[t].fd /\ pending'[r].fd # NoFd => r = t
      BY <1>1, <2>3, <2>4 DEF PendOk
    <3> QED
      BY <3>1, <3>2 DEF PendOk
  <2>6. \A g \in Fds \ {fd} : Same(pending, pending', g)
    BY <2>3, <2>4, FrameAssumption DEF Same
  <2>7. Types' /\ OnlyOf(fd)
    BY <1>1, <2>2, <2>6 DEF Types, OnlyOf
  <2>8. FdInv(fd)'
    BY <1>1, <2>2 DEF FdInv
  <2> QED
    BY <2>5, <2>7, <2>8, OthersKeep
<1> QED
  BY <1>3, <1>4

\* A new connection finds nothing of the one before.
LEMMA ReopenKeeps ==
    ASSUME TcpInv, NEW fd \in Fds, Reopen(fd) PROVE TcpInv'
<1>1. PendOk(pending) /\ Types /\ broken[fd] /\ stream[fd] = <<>>
  BY DEF TcpInv, FdInv, Reopen
<1>2. PICK c : c = conns[fd] + 1
  OBVIOUS
<1>3. c \in Nat
  BY <1>1, <1>2 DEF Types
<1>4. /\ conns' = [conns EXCEPT ![fd] = c] /\ broken' = [broken EXCEPT ![fd] = FALSE]
      /\ rx' = [rx EXCEPT ![fd] = Start] /\ body' = [body EXCEPT ![fd] = <<>>]
      /\ accepted' = [accepted EXCEPT ![fd] = 0] /\ got' = [got EXCEPT ![fd] = <<>>]
      /\ stream' = stream
  BY <1>2 DEF Reopen
<1>5. pending' = [s \in Slots |-> IF pending[s].fd = fd THEN FreeSlot ELSE pending[s]]
  BY DEF Reopen
<1>6. fd # NoFd /\ NoFd \notin Fds /\ FreeSlot.fd = NoFd /\ FreeSlot \in SlotType
  BY FrameAssumption DEF FreeSlot, SlotType
<1>7. ASSUME NEW s \in Slots
      PROVE  /\ pending[s].fd = fd => pending'[s] = FreeSlot
             /\ pending[s].fd # fd => pending'[s] = pending[s]
             /\ pending'[s] \in SlotType /\ pending[s] \in SlotType
  BY <1>1, <1>5, <1>6 DEF PendOk
<1>8. PendOk(pending')
  <2>1. pending' \in [Slots -> SlotType]
    BY <1>5, <1>7
  <2>2. ASSUME NEW r \in Slots, NEW t \in Slots, pending'[r].fd = pending'[t].fd, pending'[r].fd # NoFd
        PROVE  r = t
    <3>1. pending'[r] = pending[r] /\ pending'[t] = pending[t]
      BY <1>6, <1>7, <2>2
    <3> QED
      BY <1>1, <2>2, <3>1 DEF PendOk
  <2> QED
    BY <2>1, <2>2 DEF PendOk
<1>9. \A g \in Fds \ {fd} : Same(pending, pending', g)
  BY <1>6, <1>7 DEF Same
<1>10. \A s \in Slots : pending'[s].fd # fd
  BY <1>6, <1>7
<1>11. Start \in Rx /\ <<>> \in Seq(Byte) /\ <<>> \in Seq(Seq(Byte))
  BY EmptyIs, <1>3, EmptySeq DEF FdOk, StateOk
<1>12. Types'
  BY <1>1, <1>3, <1>4, <1>11 DEF Types
<1>13. OnlyOf(fd)
  BY <1>1, <1>4, <1>9 DEF Types, OnlyOf
<1>14. /\ conns'[fd] = c /\ broken'[fd] = FALSE /\ rx'[fd] = Start /\ body'[fd] = <<>>
       /\ accepted'[fd] = 0 /\ got'[fd] = <<>> /\ stream'[fd] = <<>>
  BY <1>1, <1>4 DEF Types
<1>15. IsRest(pending', <<>>, fd, <<>>)
  BY <1>10 DEF IsRest
<1>16. FdOk(c, <<>>, Start, <<>>, <<>>, 0) /\ GotOk(<<>>)
  BY <1>3, EmptyIs
<1>17. FdInv(fd)'
  BY <1>14, <1>15, <1>16 DEF FdInv
<1> QED
  BY <1>8, <1>12, <1>13, <1>17, OthersKeep

\* RecvBody, with names for the header and what follows it
Takes(fd, r, m, h, rest) ==
    \E len \in Says(h), k \in 0 .. Len(rest), old \in Before(fd) :
                /\ r.body_have + k <= len
                /\ m > 0 \/ k > 0
                /\ stream' = [stream EXCEPT ![fd] = Drop(rest, k)]
                /\ LET filled == Take(old, r.body_have) \o Take(rest, k)
                   IN IF r.body_have + k < len
                      THEN /\ rx' = [rx EXCEPT ![fd] =
                                [header |-> h, done |-> TRUE, body_have |-> r.body_have + k]]
                           /\ body' = [body EXCEPT ![fd] = filled]
                           /\ UNCHANGED got
                      ELSE /\ rx' = [rx EXCEPT ![fd] = Start]
                           /\ body' = [body EXCEPT ![fd] = <<>>]
                           /\ got' = [got EXCEPT ![fd] = Append(@, filled)]

\* The kernel hands over what it has, in order.
LEMMA ReceiveKeeps ==
    ASSUME TcpInv, NEW fd \in Fds, Recv(fd) PROVE TcpInv'
<1>1. PendOk(pending) /\ Types /\ GotOk(got[fd]) /\ ~broken[fd]
  BY DEF TcpInv, FdInv, Recv, RecvHeader, RecvBody
<1>2. PICK st, r, b, g, c, a :
         /\ st = stream[fd] /\ r = rx[fd] /\ b = body[fd] /\ g = got[fd] /\ c = conns[fd]
         /\ a = accepted[fd]
  OBVIOUS
<1>3. PICK u : IsRest(pending, st, fd, u) /\ FdOk(c, u, r, b, g, a)
  BY <1>1, <1>2, Alive
<1>4. /\ st \in Seq(Byte) /\ r \in Rx /\ b \in Seq(Byte) /\ g \in Seq(Seq(Byte)) /\ c \in Nat
      /\ a \in Nat
  BY <1>1, <1>2 DEF Types
<1>5. /\ Front(st, u)
      /\ \A k \in 0 .. Len(st) : Drop(st, k) \in Seq(Byte) /\ IsRest(pending, Drop(st, k), fd, Drop(u, k))
  BY <1>1, <1>3, <1>4, ReadRest
<1>6. /\ Len(r.header) \in Nat /\ r.body_have \in Nat /\ Header \in Nat \ {0}
      /\ Len(r.header) <= Header /\ Len(st) \in Nat
  <2>1. StateOk(r, b)
    BY <1>3 DEF FdOk
  <2> QED
    BY <1>4, <2>1, StateIs, LenProperties DEF StateOk
\* what the step leaves of the receiver's part
<1>7. ASSUME NEW n \in 0 .. Len(st), NEW r2, NEW b2, NEW g2,
             FdOk(c, Drop(u, n), r2, b2, g2, a), GotOk(g2),
             stream' = [stream EXCEPT ![fd] = Drop(st, n)], rx' = [rx EXCEPT ![fd] = r2],
             body' = [body EXCEPT ![fd] = b2], got' = [got EXCEPT ![fd] = g2],
             UNCHANGED <<conns, broken, pending, accepted>>
      PROVE  TcpInv'
  <2>1. PICK d, w : d = Drop(st, n) /\ w = Drop(u, n)
    OBVIOUS
  <2>2. d \in Seq(Byte) /\ IsRest(pending, d, fd, w) /\ FdOk(c, w, r2, b2, g2, a)
    BY <1>5, <1>7, <2>1
  <2>3. stream' = [stream EXCEPT ![fd] = d]
    BY <1>7, <2>1
  <2>4. r2 \in Rx /\ b2 \in Seq(Byte) /\ g2 \in Seq(Seq(Byte))
    BY <2>2 DEF FdOk, StateOk
  <2>5. Types'
    BY <1>1, <1>7, <2>2, <2>3, <2>4 DEF Types
  <2>6. OnlyOf(fd) /\ PendOk(pending')
    BY <1>1, <1>7, <2>3 DEF Types, OnlyOf, Same
  <2>7. /\ stream'[fd] = d /\ rx'[fd] = r2 /\ body'[fd] = b2 /\ got'[fd] = g2
        /\ conns'[fd] = c /\ accepted'[fd] = a /\ broken'[fd] = broken[fd] /\ pending' = pending
    BY <1>1, <1>2, <1>7, <2>3 DEF Types
  <2>8. FdInv(fd)'
    BY <1>1, <1>7, <2>2, <2>7 DEF FdInv
  <2> QED
    BY <2>5, <2>6, <2>8, OthersKeep
<1>8. CASE RecvHeader(fd)
  <2>1. PICK k \in 1 .. Len(st) :
           /\ Len(r.header) + k < Header
           /\ rx' = [rx EXCEPT ![fd].header = @ \o Take(st, k)]
           /\ stream' = [stream EXCEPT ![fd] = Drop(@, k)]
    BY <1>2, <1>8 DEF RecvHeader
  <2>2. ~r.done /\ UNCHANGED <<conns, broken, pending, body, accepted, got>>
    BY <1>2, <1>8 DEF RecvHeader
  <2>3. PICK q : q = [r EXCEPT !.header = @ \o Take(st, k)]
    OBVIOUS
  <2>4. FdOk(c, Drop(u, k), q, b, g, a)
    BY <1>3, <1>5, <2>1, <2>2, <2>3, HeaderStep
  <2>5. /\ rx' = [rx EXCEPT ![fd] = q] /\ stream' = [stream EXCEPT ![fd] = Drop(st, k)]
        /\ body' = [body EXCEPT ![fd] = b] /\ got' = [got EXCEPT ![fd] = g]
    BY <1>1, <1>2, <2>1, <2>2, <2>3 DEF Types
  <2>6. k \in 0 .. Len(st)
    BY <1>6
  <2> QED
    BY <1>1, <1>2, <1>7, <2>2, <2>4, <2>5, <2>6
<1>9. CASE RecvBody(fd)
  <2>1. PICK m, h, rest : RestOf(r, st, m, h, rest)
    BY DEF RestOf, Joins
  <2>2. /\ m = Header - Len(r.header) /\ h = r.header \o Take(st, m) /\ rest = Drop(st, m)
    BY <2>1 DEF RestOf, Joins
  <2>3. Len(st) > 0 /\ m <= Len(st) /\ UNCHANGED <<conns, broken, pending, accepted>>
    BY <1>2, <1>9, <2>2 DEF RecvBody
  <2>13. Takes(fd, r, m, h, rest)
    <3>1. Takes(fd, rx[fd], Header - Len(rx[fd].header),
                rx[fd].header \o Take(stream[fd], Header - Len(rx[fd].header)),
                Drop(stream[fd], Header - Len(rx[fd].header)))
      BY <1>9 DEF RecvBody, Takes
    <3>2. r = rx[fd] /\ Header - Len(rx[fd].header) = m
      BY <1>2, <2>2
    <3>3. rx[fd].header \o Take(stream[fd], m) = h /\ Drop(stream[fd], m) = rest
      BY <1>2, <2>2
    <3> QED
      BY <3>1, <3>2, <3>3
  <2>4. Before(fd) = OldOf(b)
    BY <1>2 DEF Before, OldOf
  <2>5. PICK len \in Says(h), k \in 0 .. Len(rest), old \in OldOf(b) :
                /\ r.body_have + k <= len
                /\ m > 0 \/ k > 0
                /\ stream' = [stream EXCEPT ![fd] = Drop(rest, k)]
                /\ LET filled == Take(old, r.body_have) \o Take(rest, k)
                   IN IF r.body_have + k < len
                      THEN /\ rx' = [rx EXCEPT ![fd] =
                                [header |-> h, done |-> TRUE, body_have |-> r.body_have + k]]
                           /\ body' = [body EXCEPT ![fd] = filled]
                           /\ UNCHANGED got
                      ELSE /\ rx' = [rx EXCEPT ![fd] = Start]
                           /\ body' = [body EXCEPT ![fd] = <<>>]
                           /\ got' = [got EXCEPT ![fd] = Append(@, filled)]
    BY <2>4, <2>13 DEF Takes
  <2>6. PICK v, have, f, n : FillOf(r, old, rest, k, v) /\ have = r.body_have + k
                             /\ f = Len(g) + 1 /\ n = m + k
    BY DEF FillOf
  <2>7. /\ have <= len /\ (m > 0 \/ k > 0) /\ stream' = [stream EXCEPT ![fd] = Drop(rest, k)]
        /\ have < len => /\ rx' = [rx EXCEPT ![fd] = [header |-> h, done |-> TRUE, body_have |-> have]]
                         /\ body' = [body EXCEPT ![fd] = v] /\ UNCHANGED got
        /\ ~(have < len) => /\ rx' = [rx EXCEPT ![fd] = Start] /\ body' = [body EXCEPT ![fd] = <<>>]
                            /\ got' = [got EXCEPT ![fd] = Append(@, v)]
    BY <2>5, <2>6 DEF FillOf
  <2>8. Gets(c, u, f, a, len, h, have, n, v) /\ n \in 1 .. Len(st) /\ m \in 0 .. Len(st)
    <3>1. st # <<>> /\ m <= Len(st)
      BY <1>4, <2>3, EmptySeq
    <3> QED
      BY <1>3, <1>5, <2>1, <2>6, <2>7, <3>1, BodyGets
  <2>9. n \in 0 .. Len(st) /\ Drop(rest, k) = Drop(st, n)
    <3>1. k \in 0 .. Len(Drop(st, m))
      BY <2>2
    <3>2. m + k \in 0 .. Len(st) /\ Drop(Drop(st, m), k) = Drop(st, m + k)
      BY <1>4, <2>8, <3>1, DropDrop
    <3> QED
      BY <2>2, <2>6, <3>2
  <2>10. stream' = [stream EXCEPT ![fd] = Drop(st, n)]
    BY <2>7, <2>9
  <2>11. CASE have < len
    <3>1. PICK q : q = [header |-> h, done |-> TRUE, body_have |-> have]
      OBVIOUS
    <3>2. FdOk(c, Drop(u, n), q, v, g, a)
      BY <1>4, <2>6, <2>8, <2>11, <3>1, GetsPart
    <3>3. /\ rx' = [rx EXCEPT ![fd] = q] /\ body' = [body EXCEPT ![fd] = v]
          /\ got' = [got EXCEPT ![fd] = g]
      BY <1>1, <1>2, <2>7, <2>11, <3>1 DEF Types
    <3> QED
      BY <1>1, <1>2, <1>7, <2>3, <2>9, <2>10, <3>2, <3>3
  <2>12. CASE ~(have < len)
    <3>1. have = len /\ len \in BodyLens /\ v \in Seq(Byte) /\ BodyOk(v, f, Len(v))
      <4>1. /\ have \in Nat /\ have <= len /\ len \in BodyLens /\ v \in Seq(Byte) /\ Len(v) = have
            /\ BodyOk(v, f, len)
        BY <2>8 DEF Gets
      <4>2. len \in Nat
        BY <4>1, FrameAssumption
      <4>3. have = len
        BY <2>12, <4>1, <4>2
      <4> QED
        BY <4>1, <4>3
    <3>2. PICK gs : gs = Append(g, v)
      OBVIOUS
    <3>3. FdOk(c, Drop(u, n), Start, <<>>, gs, a)
      BY <1>4, <2>6, <2>8, <3>1, <3>2, GetsWhole
    <3>4. GotOk(gs)
      BY <1>1, <1>2, <1>4, <2>6, <3>1, <3>2, GotMore
    <3>5. /\ rx' = [rx EXCEPT ![fd] = Start] /\ body' = [body EXCEPT ![fd] = <<>>]
          /\ got' = [got EXCEPT ![fd] = gs]
      BY <1>2, <2>7, <2>12, <3>2
    <3> QED
      BY <1>7, <2>3, <2>9, <2>10, <3>3, <3>4, <3>5
  <2> QED
    BY <2>11, <2>12
<1> QED
  BY <1>8, <1>9 DEF Recv

\* No descriptor has a connection at first.
LEMMA FirstFrames == Init => TcpInv
<1> SUFFICES ASSUME Init PROVE TcpInv
  OBVIOUS
<1>1. <<>> \in Seq(Byte) /\ <<>> \in Seq(Seq(Byte)) /\ Start \in Rx /\ GotOk(<<>>)
  <2>1. FdOk(0, <<>>, Start, <<>>, <<>>, 0) /\ GotOk(<<>>)
    BY EmptyIs
  <2> QED
    BY <2>1, EmptySeq DEF FdOk, StateOk
<1>2. FreeSlot \in SlotType /\ FreeSlot.fd = NoFd
  BY DEF FreeSlot, SlotType
<1>3. Types
  BY <1>1 DEF Init, Types
<1>4. PendOk(pending)
  BY <1>2 DEF Init, PendOk
<1>5. \A fd \in Fds : FdInv(fd)
  BY <1>1 DEF Init, FdInv
<1> QED
  BY <1>3, <1>4, <1>5 DEF TcpInv

\* Every step keeps the invariant.
LEMMA FramesStep == TcpInv /\ [Next]_vars => TcpInv'
<1> SUFFICES ASSUME TcpInv, [Next]_vars PROVE TcpInv'
  OBVIOUS
<1>1. CASE UNCHANGED vars
  BY <1>1 DEF vars, TcpInv, Types, FdInv
<1>2. ASSUME NEW fd \in Fds,
             \/ \E len \in BodyLens : SendFrame(fd, len) \/ SendBehind(fd, len)
             \/ FlushWritable(fd) \/ Break(fd) \/ SendFails(fd) \/ Reopen(fd)
             \/ Recv(fd)
      PROVE  TcpInv'
  BY <1>2, SendsKeep, BrokenKeep, ReopenKeeps, ReceiveKeeps
<1> QED
  BY <1>1, <1>2 DEF Next

\* Unread is what the invariant says is unread.
LEMMA UnreadIs ==
    ASSUME PendOk(pending), NEW fd \in Fds, NEW u, IsRest(pending, stream[fd], fd, u),
           stream[fd] \in Seq(Byte)
    PROVE  Unread(fd) = u /\ Cardinality(SlotsOf(fd)) <= 1
<1>1. PICK st : st = stream[fd]
  OBVIOUS
<1>2. CASE SlotsOf(fd) = {}
  <2>1. u = st
    BY <1>1, <1>2, RestNone
  <2>2. Unread(fd) = st \o <<>>
    BY <1>1, <1>2 DEF Unread
  <2>3. st \o <<>> = st
    BY <1>1, ConcatEmptySeq
  <2>4. Cardinality(SlotsOf(fd)) = 0
    BY <1>2, FS_EmptySet
  <2> QED
    BY <2>1, <2>2, <2>3, <2>4
<1>3. ASSUME NEW s \in SlotsOf(fd) PROVE Unread(fd) = u /\ Cardinality(SlotsOf(fd)) <= 1
  <2>1. u = st \o pending[s].left /\ SlotsOf(fd) = {s}
    BY <1>1, RestOne DEF RestBy
  <2>2. (CHOOSE t \in SlotsOf(fd) : TRUE) = s
    BY <2>1
  <2>3. Unread(fd) = st \o pending[s].left
    BY <1>1, <2>1, <2>2 DEF Unread
  <2>4. Cardinality(SlotsOf(fd)) = 1
    BY <2>1, FS_Singleton
  <2> QED
    BY <2>1, <2>3, <2>4
<1> QED
  BY <1>2, <1>3

\* net_tcp_send_frame_ex(), net_tcp_flush_writable() and net_tcp_recv_frame()
\* keep writer and reader in step: one slot of the table at most is a
\* connection's, and what is to be read is the rest of the frame that is being
\* read and then whole frames, for any number of connections, slots, lengths
\* and reconnections.
THEOREM ReadInStep == Spec => []InStep
<1>1. TcpInv => InStep
  <2> SUFFICES ASSUME TcpInv PROVE InStep
    OBVIOUS
  <2> DEFINE rest(fd) == Unread(fd)
             had(fd) == Len(rx[fd].header) + rx[fd].body_have
  <2>1. ASSUME NEW fd \in Fds, ~broken[fd]
        PROVE  /\ Cardinality(SlotsOf(fd)) <= 1
               /\ \A i \in 1 .. Len(rest(fd)) :
                    /\ rest(fd)[i].conn = conns[fd]
                    /\ IF i = 1
                       THEN /\ rest(fd)[1].frame = Len(got[fd]) + 1 /\ rest(fd)[1].at = had(fd) + 1
                            /\ had(fd) > 0 => rx[fd].header[1].frame = rest(fd)[1].frame
                       ELSE IF rest(fd)[i].at = 1
                       THEN /\ rest(fd)[i].frame = rest(fd)[i - 1].frame + 1
                            /\ rest(fd)[i - 1].at = Header + rest(fd)[i - 1].len
                       ELSE /\ rest(fd)[i].frame = rest(fd)[i - 1].frame
                            /\ rest(fd)[i].at = rest(fd)[i - 1].at + 1
    <3>1. PICK u : /\ IsRest(pending, stream[fd], fd, u) /\ u \in Seq(Byte)
                   /\ FdOk(conns[fd], u, rx[fd], body[fd], got[fd], accepted[fd])
      BY <2>1, Alive
    <3>2. Unread(fd) = u /\ Cardinality(SlotsOf(fd)) <= 1
      BY <3>1, UnreadIs DEF TcpInv, Types
    <3>3. Chain(conns[fd], u) /\ StateOk(rx[fd], body[fd])
      BY <3>1 DEF FdOk
    <3>4. /\ Len(rx[fd].header) \in Nat /\ rx[fd].body_have \in Nat
          /\ rx[fd].done \in BOOLEAN /\ Header \in Nat \ {0}
      BY <3>3, StateIs
    <3>5. ASSUME NEW i \in 1 .. Len(u), i = 1
          PROVE  /\ u[1].frame = Len(got[fd]) + 1 /\ u[1].at = had(fd) + 1
                 /\ had(fd) > 0 => rx[fd].header[1].frame = u[1].frame
      <4>1. u # <<>>
        BY <3>5, EmptySeq
      <4>2. Reading(conns[fd], u, rx[fd], body[fd], Len(got[fd]) + 1)
        BY <3>1, <4>1 DEF FdOk
      <4>3. ASSUME had(fd) > 0 PROVE 1 \in 1 .. Len(rx[fd].header)
        <5>1. CASE rx[fd].done
          BY <3>3, <3>4, <5>1 DEF StateOk
        <5>2. CASE ~rx[fd].done
          BY <3>3, <3>4, <4>3, <5>2 DEF StateOk
        <5> QED
          BY <5>1, <5>2
      <4>4. had(fd) > 0 => rx[fd].header[1].frame = Len(got[fd]) + 1
        BY <4>2, <4>3 DEF Reading, HeaderOk
      <4> QED
        BY <4>2, <4>4 DEF Reading, Had
    <3>6. ASSUME NEW i \in 1 .. Len(u), i # 1
          PROVE  IF u[i].at = 1
                 THEN u[i].frame = u[i - 1].frame + 1 /\ u[i - 1].at = Header + u[i - 1].len
                 ELSE u[i].frame = u[i - 1].frame /\ u[i].at = u[i - 1].at + 1
      <4>1. i \in 2 .. Len(u)
        BY <3>6
      <4>2. Follows(u[i - 1], u[i])
        BY <3>3, <4>1 DEF Chain
      <4> QED
        BY <4>2 DEF Follows
    <3>7. \A i \in 1 .. Len(u) : u[i].conn = conns[fd]
      BY <3>3 DEF Chain
    <3> QED
      BY <3>2, <3>5, <3>6, <3>7
  <2> QED
    BY <2>1 DEF InStep
<1> QED
  BY <1>1, FirstFrames, FramesStep, PTL DEF Spec

\* net_tcp_recv_frame() returns the frames in the order in which they were
\* accepted, each with its length, and every byte of a body that is not lost
\* at its place.
THEOREM ReturnedInOrder == Spec => []FramesInOrder
<1>1. TcpInv => FramesInOrder
  <2> SUFFICES ASSUME TcpInv PROVE FramesInOrder
    OBVIOUS
  <2>1. \A fd \in Fds : GotOk(got[fd])
    BY DEF TcpInv, FdInv
  <2> QED
    BY <2>1 DEF FramesInOrder, GotOk
<1> QED
  BY <1>1, FirstFrames, FramesStep, PTL DEF Spec

=============================================================================
