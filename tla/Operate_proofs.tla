--------------------------- MODULE Operate_proofs ---------------------------
(***************************************************************************)
(* Theorems about what keeps a running camex in step with its              *)
(* surroundings, part by part: the control socket's connections, where the *)
(* socket is, a follower that waits on it, the reload, the client's        *)
(* tunnel, the device under it.                                            *)
(***************************************************************************)
EXTENDS ControlConns, ControlPath, StatusWait, Reload, ClientTunnel, TunDevice, TLAPS

----------------------------------------------------------------------------
(***************************************************************************)
(* A WAIT is told a state there was after it asked, for any number of      *)
(* connections, states and seconds.                                        *)
(*                                                                         *)
(* All connections share one fingerprint, which may be 250 ms old.  What   *)
(* makes it good enough for one of them is that it is worked out anew when *)
(* its WAIT comes in: so the invariant says that a fingerprint that is not *)
(* worked out again is one there was since each of those that wait asked.  *)
(***************************************************************************)

Phases == {"closed", "reading", "waiting", "writing"}
ConnType == [phase : Phases, since : Nat, given : States \cup {AnyState}, until : Nat,
             answer : States \cup {AnyState}, seen : SUBSET States]

\* A WAIT that was answered
Told(c) == c.answer \in c.seen /\ (c.until > 0 => c.answer # c.given)

\* A connection, the clients' state being s, and k what is known of it
Sound(c, s, k) ==
    /\ c.phase = "reading" => c.seen = {}
    /\ c.phase = "waiting" => s \in c.seen /\ (k.recent => k.hash \in c.seen)
    /\ c.phase = "writing" /\ c.seen # {} => Told(c)

ConnsInv ==
    /\ clients \in States
    /\ conns \in [Conns -> ConnType]
    /\ \A c \in Conns : Sound(conns[c], clients, cached)

----------------------------------------------------------------------------
\* A connection that is closed, or has just been accepted, has no WAIT
LEMMA NoWait ==
    ASSUME NEW s, NEW k
    PROVE  /\ Closed \in ConnType /\ Accepted \in ConnType
           /\ Sound(Closed, s, k) /\ Sound(Accepted, s, k)
BY DEF Closed, Accepted, ConnType, Phases, Sound

\* control_wait_answer(): a WAIT that is told h, which there was
LEMMA Answered ==
    ASSUME NEW c \in ConnType, NEW h \in States, h \in c.seen, c.until > 0 => h # c.given,
           NEW d \in WaitAnswered(c, h), NEW s, NEW k
    PROVE  d \in ConnType /\ Sound(d, s, k)
<1>1. CASE d = Closed
  BY <1>1, NoWait
<1>2. CASE d = [c EXCEPT !.phase = "writing", !.answer = h]
  <2>1. /\ d \in ConnType /\ d.phase = "writing" /\ d.answer = h
        /\ d.seen = c.seen /\ d.until = c.until /\ d.given = c.given
    BY <1>2 DEF ConnType, Phases
  <2> QED
    BY <2>1 DEF Sound, Told
<1> QED
  BY <1>1, <1>2 DEF WaitAnswered

\* control_fdset(): one that waits is told the common fingerprint
LEMMA SetSound ==
    ASSUME NEW c \in ConnType, clients \in States, Sound(c, clients, cached), NEW d \in Set(c)
    PROVE  /\ d \in ConnType
           /\ d.phase = "waiting" => d = c /\ Hash \in c.seen
           /\ \A s, k : d.phase # "waiting" => Sound(d, s, k)
<1>1. CASE c.phase = "waiting"
  <2>1. Hash \in c.seen /\ Hash \in States
    BY <1>1 DEF Sound, Hash, ConnType
  <2>2. CASE Hash # c.given \/ c.until = 0
    <3> DEFINE e == [c EXCEPT !.since = 0]
    <3>1. e \in ConnType /\ e.seen = c.seen /\ e.until = c.until /\ e.given = c.given
      BY DEF ConnType
    <3>2. d \in WaitAnswered(e, Hash)
      BY <1>1, <2>2 DEF Set
    <3> HIDE DEF e
    <3>3. d \in ConnType /\ \A s, k : Sound(d, s, k)
      BY <2>1, <2>2, <3>1, <3>2, Answered
    <3>4. d.phase # "waiting"
      <4>1. CASE d = Closed
        BY <4>1 DEF Closed
      <4>2. CASE d = [e EXCEPT !.phase = "writing", !.answer = Hash]
        BY <3>1, <4>2 DEF ConnType
      <4> QED
        BY <3>2, <4>1, <4>2 DEF WaitAnswered
    <3> QED
      BY <3>3, <3>4
  <2>3. CASE ~(Hash # c.given \/ c.until = 0)
    BY <1>1, <2>1, <2>3 DEF Set
  <2> QED
    BY <2>2, <2>3
<1>2. CASE c.phase # "waiting"
  <2>1. d \in {c, Closed}
    BY <1>2 DEF Set
  <2>2. CASE d = Closed
    BY <2>2, NoWait DEF Closed
  <2>3. CASE d = c
    BY <1>2, <2>3 DEF Sound
  <2> QED
    BY <2>1, <2>2, <2>3
<1> QED
  BY <1>1, <1>2

\* control_wait_start(): the fingerprint is the clients' state of this moment
LEMMA StartSound ==
    ASSUME NEW c \in ConnType, clients \in States, NEW g \in States \cup {AnyState}, NEW u \in Nat,
           NEW d \in WaitStart(c, g, u), NEW k, k.hash = clients
    PROVE  /\ d \in ConnType /\ Sound(d, clients, k)
           /\ d = Closed \/ d.seen # {}
<1>1. CASE g = clients /\ u > 0
  <2>1. d = [c EXCEPT !.phase = "waiting", !.given = g, !.until = u, !.seen = {clients}]
    BY <1>1 DEF WaitStart
  <2>2. d \in ConnType /\ d.phase = "waiting" /\ d.seen = {clients}
    BY <2>1 DEF ConnType, Phases
  <2> QED
    BY <2>2 DEF Sound
<1>2. CASE ~(g = clients /\ u > 0)
  <2> DEFINE e == [c EXCEPT !.given = g, !.until = u, !.seen = {clients}]
  <2>1. e \in ConnType /\ e.given = g /\ e.until = u /\ e.seen = {clients}
    BY DEF ConnType
  <2>2. d \in WaitAnswered(e, clients)
    BY <1>2 DEF WaitStart
  <2> HIDE DEF e
  <2>3. d \in ConnType /\ Sound(d, clients, k)
    BY <1>2, <2>1, <2>2, Answered
  <2>4. d = Closed \/ d.seen # {}
    BY <2>1, <2>2 DEF WaitAnswered, ConnType
  <2> QED
    BY <2>3, <2>4
<1> QED
  BY <1>1, <1>2

\* control_handle(): one that waits goes on waiting, or is closed; one that is
\* read may begin to wait, and the fingerprint is worked out anew
LEMMA HandledSound ==
    ASSUME NEW c \in ConnType, clients \in States, Sound(c, clients, cached), NEW d \in Handled(c),
           NEW k, k.hash = clients \/ (k = cached /\ (c.phase = "reading" => d.seen = {}))
    PROVE  d \in ConnType /\ Sound(d, clients, k)
<1>1. CASE d \in {Closed, Accepted}
  BY <1>1, NoWait
<1>2. CASE d = c
  BY <1>2 DEF Sound
<1>3. CASE c.phase = "reading" /\ d = [c EXCEPT !.phase = "writing"]
  <2>1. d \in ConnType /\ d.phase = "writing" /\ d.seen = c.seen
    BY <1>3 DEF ConnType, Phases
  <2> QED
    BY <1>3, <2>1 DEF Sound
<1>4. ASSUME c.phase = "reading", NEW g \in States \cup {AnyState}, NEW u \in 0 .. WaitMax,
             d \in WaitStart(c, g, u), d # Closed
      PROVE  d \in ConnType /\ Sound(d, clients, k)
  <2>1. u \in Nat
    BY ControlAssumption
  <2>2. d.seen # {}
    <3>1. [hash |-> clients].hash = clients
      OBVIOUS
    <3> QED
      BY <1>4, <2>1, <3>1, StartSound
  <2>3. k.hash = clients
    BY <1>4, <2>2
  <2> QED
    BY <1>4, <2>1, <2>3, StartSound
<1>5. \/ d \in {Closed, Accepted}
      \/ d = c
      \/ c.phase = "reading" /\ d = [c EXCEPT !.phase = "writing"]
      \/ c.phase = "reading" /\ \E g \in States \cup {AnyState}, u \in 0 .. WaitMax : d \in WaitStart(c, g, u)
  BY DEF Handled
<1> QED
  BY <1>1, <1>2, <1>3, <1>4, <1>5

\* The time of a WAIT runs down, also after its answer
LEMMA OlderSound ==
    ASSUME NEW c \in ConnType, NEW s, NEW k, Sound(c, s, k)
    PROVE  Older(c) \in ConnType /\ Sound(Older(c), s, [k EXCEPT !.recent = FALSE])
<1> DEFINE since == IF c.phase # "closed" /\ c.since <= ControlTimeout THEN c.since + 1 ELSE c.since
           until == IF c.until > 0 THEN c.until - 1 ELSE 0
<1>1. c.since \in Nat /\ c.until \in Nat
  BY DEF ConnType
<1>2. since \in Nat /\ until \in Nat /\ (until > 0 => c.until > 0)
  BY <1>1
<1>3. Older(c) = [c EXCEPT !.since = since, !.until = until]
  BY DEF Older
<1> HIDE DEF since, until
<1>4. /\ Older(c) \in ConnType /\ Older(c).phase = c.phase /\ Older(c).seen = c.seen
      /\ Older(c).given = c.given /\ Older(c).answer = c.answer /\ Older(c).until = until
  BY <1>2, <1>3 DEF ConnType
<1> QED
  BY <1>2, <1>4 DEF Sound, Told

----------------------------------------------------------------------------
\* A connection of OneOf is one of those it may be
LEMMA OneOfEach ==
    ASSUME NEW sets, NEW f \in OneOf(sets), \A c \in Conns : \A d \in sets[c] : d \in ConnType
    PROVE  f \in [Conns -> ConnType] /\ \A c \in Conns : f[c] \in sets[c]
BY DEF OneOf

\* Whatever the connections do and however the clients change, the fingerprint
\* is good enough for each WAIT
LEMMA ConnsInvariant == ControlSpec => []ConnsInv
<1>1. ControlInit => ConnsInv
  <2> SUFFICES ASSUME ControlInit PROVE ConnsInv
    OBVIOUS
  <2>1. clients \in States /\ conns = [c \in Conns |-> Closed]
    BY DEF ControlInit
  <2> QED
    BY <2>1, NoWait DEF ConnsInv
<1>2. ConnsInv /\ [ControlNext]_controlVars => ConnsInv'
  <2> SUFFICES ASSUME ConnsInv, [ControlNext]_controlVars PROVE ConnsInv'
    OBVIOUS
  <2>0. clients \in States /\ \A c \in Conns : conns[c] \in ConnType /\ Sound(conns[c], clients, cached)
    BY DEF ConnsInv
  <2>1. ASSUME FdSet PROVE ConnsInv'
    <3> DEFINE sets == [c \in Conns |-> Set(conns[c])]
    <3>1. conns' \in OneOf(sets) /\ UNCHANGED clients
      BY <2>1 DEF FdSet
    <3>2. \A c \in Conns : \A d \in sets[c] :
             /\ d \in ConnType
             /\ d.phase = "waiting" => d = conns[c] /\ Hash \in conns[c].seen
             /\ \A s, k : d.phase # "waiting" => Sound(d, s, k)
      BY <2>0, SetSound
    <3>3. conns' \in [Conns -> ConnType] /\ \A c \in Conns : conns'[c] \in sets[c]
      <4> HIDE DEF sets
      <4> QED
        BY <3>1, <3>2, OneOfEach
    <3>4. ASSUME NEW c \in Conns PROVE Sound(conns'[c], clients, cached')
      <4>1. CASE conns'[c].phase = "waiting"
        <5>1. conns'[c] = conns[c] /\ Hash \in conns[c].seen
          BY <3>2, <3>3, <4>1
        <5>2. cached' = [hash |-> Hash, recent |-> TRUE]
          BY <2>1, <4>1, <5>1 DEF FdSet
        <5> QED
          BY <2>0, <4>1, <5>1, <5>2 DEF Sound
      <4>2. CASE conns'[c].phase # "waiting"
        <5> HIDE DEF sets
        <5> QED
          BY <3>2, <3>3, <4>2
      <4> QED
        BY <4>1, <4>2
    <3> QED
      BY <2>0, <3>1, <3>3, <3>4 DEF ConnsInv
  <2>2. ASSUME Handle PROVE ConnsInv'
    <3> DEFINE sets == [c \in Conns |-> Handled(conns[c])]
    <3>1. conns' \in OneOf(sets) /\ UNCHANGED clients
      BY <2>2 DEF Handle
    <3>2. \/ cached' = [hash |-> clients, recent |-> TRUE]
          \/ cached' = cached /\ \A c \in Conns : conns[c].phase = "reading" => conns'[c].seen = {}
      BY <2>2 DEF Handle
    <3>3. \A c \in Conns : \A d \in sets[c] : d \in ConnType
      <4>1. ASSUME NEW c \in Conns, NEW d \in Handled(conns[c]) PROVE d \in ConnType
        <5> DEFINE k == [hash |-> clients]
        <5>1. k.hash = clients
          OBVIOUS
        <5> HIDE DEF k
        <5> QED
          BY <2>0, <4>1, <5>1, HandledSound
      <4> QED
        BY <4>1
    <3>4. conns' \in [Conns -> ConnType] /\ \A c \in Conns : conns'[c] \in Handled(conns[c])
      <4>1. conns' \in [Conns -> ConnType] /\ \A c \in Conns : conns'[c] \in sets[c]
        <5> HIDE DEF sets
        <5> QED
          BY <3>1, <3>3, OneOfEach
      <4> QED
        BY <4>1
    <3>5. ASSUME NEW c \in Conns PROVE Sound(conns'[c], clients, cached')
      <4>1. \/ cached'.hash = clients
            \/ cached' = cached /\ (conns[c].phase = "reading" => conns'[c].seen = {})
        BY <3>2
      <4> QED
        BY <2>0, <3>4, <4>1, HandledSound
    <3> QED
      BY <2>0, <3>1, <3>4, <3>5 DEF ConnsInv
  <2>3. ASSUME NEW s \in States, Change(s) PROVE ConnsInv'
    <3>1. /\ clients' = s /\ UNCHANGED cached
          /\ conns' = [c \in Conns |-> IF conns[c].phase = "waiting"
                                       THEN [conns[c] EXCEPT !.seen = @ \cup {s}] ELSE conns[c]]
      BY <2>3 DEF Change
    <3>2. ASSUME NEW c \in Conns PROVE conns'[c] \in ConnType /\ Sound(conns'[c], s, cached)
      <4>1. CASE conns[c].phase = "waiting"
        <5>1. conns'[c] = [conns[c] EXCEPT !.seen = @ \cup {s}]
          BY <3>1, <4>1
        <5>2. /\ conns'[c] \in ConnType /\ conns'[c].phase = "waiting"
              /\ conns'[c].seen = conns[c].seen \cup {s}
          BY <2>0, <4>1, <5>1 DEF ConnType
        <5> QED
          BY <2>0, <4>1, <5>2 DEF Sound
      <4>2. CASE conns[c].phase # "waiting"
        <5>1. conns'[c] = conns[c]
          BY <3>1, <4>2
        <5> QED
          BY <2>0, <4>2, <5>1 DEF Sound
      <4> QED
        BY <4>1, <4>2
    <3>3. conns' \in [Conns -> ConnType]
      BY <3>1, <3>2
    <3> QED
      BY <3>1, <3>2, <3>3 DEF ConnsInv
  <2>4. ASSUME Quarter PROVE ConnsInv'
    <3>1. cached' = [cached EXCEPT !.recent = FALSE] /\ UNCHANGED <<clients, conns>>
      BY <2>4 DEF Quarter
    <3>2. cached'.recent = FALSE \/ cached' = cached
      BY <3>1
    <3>3. \A c \in Conns : Sound(conns[c], clients, cached')
      BY <2>0, <3>2 DEF Sound
    <3> QED
      BY <3>1, <3>3 DEF ConnsInv
  <2>5. ASSUME ControlTick PROVE ConnsInv'
    <3>1. /\ cached' = [cached EXCEPT !.recent = FALSE] /\ UNCHANGED clients
          /\ conns' = [c \in Conns |-> Older(conns[c])]
      BY <2>5 DEF ControlTick
    <3>2. \A c \in Conns : /\ Older(conns[c]) \in ConnType
                           /\ Sound(Older(conns[c]), clients, [cached EXCEPT !.recent = FALSE])
      BY <2>0, OlderSound
    <3> QED
      BY <3>1, <3>2 DEF ConnsInv
  <2>6. CASE UNCHANGED controlVars
    BY <2>6 DEF controlVars, ConnsInv, ConnType, Sound, Told
  <2> QED
    BY <2>1, <2>2, <2>3, <2>4, <2>5, <2>6 DEF ControlNext
<1> QED
  BY <1>1, <1>2, PTL DEF ControlSpec

\* control_wait_start(), control_fdset(): a WAIT is told a state there was
\* after it asked, and before its time is up another one than it gave
THEOREM WaitsAreTold == ControlSpec => []WaitTold
<1>1. ConnsInv => WaitTold
  BY DEF ConnsInv, WaitTold, Sound, Told
<1> QED
  BY <1>1, ConnsInvariant, PTL

----------------------------------------------------------------------------
(***************************************************************************)
(* A reload is all or nothing: for any configurations, and wherever memory *)
(* runs out, what is in force between two reloads belongs together.        *)
(*                                                                         *)
(* ReloadAtomic speaks of the states between two reloads only.  The        *)
(* invariant says how far each step of one has got, and that what was      *)
(* saved can be put back: it belongs together, and a keystore that was not *)
(* rebuilt is the saved one.                                               *)
(***************************************************************************)

Steps == {"idle", "global", "keystore", "clients", "commit", "restore"}
IsRecord == /\ ks = [entries |-> ks.entries, block |-> ks.block]
            /\ saved.ks = [entries |-> saved.ks.entries, block |-> saved.ks.block]
            /\ saved = [db |-> saved.db, ks |-> saved.ks, global |-> saved.global,
                        rebuilt |-> saved.rebuilt]

\* What a file asks for when --psk is c
GlobalFor(c, f) == IF c # NoText THEN c ELSE IF f.psk \in Passwords THEN f.psk ELSE NoText
KeysFor(c, f) == GlobalEntry(GlobalFor(c, f)) \cup {ClientEntry(f, id) : id \in Keyed(f)}
InForce(c, d, k, g) ==
    /\ d.complete /\ Usable(KeysFor(c, d.file)) # {}
    /\ k.entries = KeysFor(c, d.file) /\ g = GlobalFor(c, d.file)

\* The entries made when the keys of ids are still to be made
Made(c, f, ids) == GlobalEntry(GlobalFor(c, f)) \cup {ClientEntry(f, id) : id \in Keyed(f) \ ids}

Progress ==
    /\ todo.step \in {"global", "keystore", "clients", "commit"} => db.complete
    /\ todo.step \in {"keystore", "clients", "commit"} => global = GlobalFor(cli, db.file)
    /\ todo.step \in {"clients", "commit"} => saved.rebuilt
    /\ todo.step = "clients" => /\ todo.ids \subseteq Keyed(db.file)
                                /\ ks.entries = Made(cli, db.file, todo.ids)
    /\ todo.step = "commit" => ks.entries = KeysFor(cli, db.file) /\ Usable(ks.entries) # {}

CanRestore ==
    todo.step # "idle" => /\ InForce(cli, saved.db, saved.ks, saved.global)
                          /\ ~saved.rebuilt => ks = saved.ks

ReloadInv ==
    /\ IsRecord /\ todo.step \in Steps
    /\ todo.step = "idle" => InForce(cli, db, ks, global)
    /\ Progress /\ CanRestore

----------------------------------------------------------------------------
\* The model's definitions are these, with --psk as it is
LEMMA AsGiven ==
    ASSUME NEW f
    PROVE  GlobalOf(f) = GlobalFor(cli, f) /\ KeystoreOf(f) = KeysFor(cli, f)
BY DEF GlobalOf, GlobalFor, KeystoreOf, KeysFor

\* config_build_keystore(): before the first key of a client there is the
\* global one
LEMMA NoneMade == ASSUME NEW c, NEW f PROVE Made(c, f, Keyed(f)) = GlobalEntry(GlobalFor(c, f))
BY DEF Made

\* ... then one client's key after the other
LEMMA OneMade ==
    ASSUME NEW c, NEW f, NEW ids, NEW id \in ids, ids \subseteq Keyed(f)
    PROVE  Made(c, f, ids \ {id}) = Made(c, f, ids) \cup {ClientEntry(f, id)}
BY DEF Made

\* ... and with the last, all of them
LEMMA AllMade == ASSUME NEW c, NEW f PROVE Made(c, f, {}) = KeysFor(c, f)
BY DEF Made, KeysFor

----------------------------------------------------------------------------
\* A reload starts: what is in force is saved
LEMMA ParseKeeps ==
    ASSUME ReloadInv, UNCHANGED cli, NEW f, Parse(f) PROVE ReloadInv'
<1>1. /\ saved' = [db |-> db, ks |-> ks, global |-> global, rebuilt |-> FALSE]
      /\ UNCHANGED <<ks, global>>
      /\ InForce(cli, db, ks, global)
  BY DEF Parse, ReloadInv
<1>2. PICK complete \in BOOLEAN :
         /\ db' = [file |-> f, complete |-> complete, block |-> OtherBlock(db.block)]
         /\ todo' = [step |-> IF complete THEN "global" ELSE "restore", ids |-> {}]
  BY DEF Parse, Goto
<1>3. /\ saved'.db = db /\ saved'.ks = ks /\ saved'.global = global
      /\ db'.complete = complete /\ todo'.step = (IF complete THEN "global" ELSE "restore")
  BY <1>1, <1>2
<1>4. IsRecord'
  BY <1>1 DEF IsRecord, ReloadInv
<1>5. CanRestore'
  BY <1>1, <1>3 DEF CanRestore
<1>6. Progress' /\ todo'.step \in Steps /\ todo'.step # "idle"
  BY <1>3 DEF Progress, Steps
<1> QED
  BY <1>4, <1>5, <1>6 DEF ReloadInv

\* The global key is the one the file asks for, or the reload is given up
LEMMA MakeGlobalKeeps ==
    ASSUME ReloadInv, UNCHANGED cli, MakeGlobal PROVE ReloadInv'
<1>1. /\ todo.step = "global" /\ db.complete /\ UNCHANGED <<db, ks, saved>>
      /\ InForce(cli, saved.db, saved.ks, saved.global) /\ (~saved.rebuilt => ks = saved.ks)
  BY DEF MakeGlobal, ReloadInv, Progress, CanRestore
<1>2. \/ global' = GlobalFor(cli, db.file) /\ todo'.step = "keystore"
      \/ todo'.step = "restore"
  <2>1. CASE /\ cli # NoText \/ db.file.psk \in {NoText, Bad}
             /\ global' = GlobalOf(db.file) /\ Goto("keystore", {})
    BY <2>1, AsGiven DEF Goto
  <2>2. CASE /\ cli = NoText /\ db.file.psk \in Passwords
             /\ global' = db.file.psk /\ Goto("keystore", {})
    BY <2>2 DEF Goto, GlobalFor
  <2>3. CASE Goto("restore", {})
    BY <2>3 DEF Goto
  <2> QED
    BY <2>1, <2>2, <2>3 DEF MakeGlobal
<1>3. IsRecord'
  BY <1>1 DEF IsRecord, ReloadInv
<1>4. CanRestore'
  BY <1>1 DEF CanRestore
<1>5. Progress' /\ todo'.step \in Steps /\ todo'.step # "idle"
  BY <1>1, <1>2 DEF Progress, Steps
<1> QED
  BY <1>3, <1>4, <1>5 DEF ReloadInv

\* The keystore is overwritten: from now on the saved one has to come back
LEMMA StartKeystoreKeeps ==
    ASSUME ReloadInv, UNCHANGED cli, StartKeystore PROVE ReloadInv'
<1>1. /\ todo.step = "keystore" /\ db.complete /\ UNCHANGED <<db, global>>
      /\ global = GlobalFor(cli, db.file)
      /\ InForce(cli, saved.db, saved.ks, saved.global)
      /\ saved' = [saved EXCEPT !.rebuilt = TRUE]
  BY DEF StartKeystore, ReloadInv, Progress, CanRestore
<1>2. /\ saved' = [db |-> saved.db, ks |-> saved.ks, global |-> saved.global, rebuilt |-> TRUE]
  BY <1>1 DEF ReloadInv, IsRecord
<1>r. saved'.ks = saved.ks /\ saved.ks = [entries |-> saved.ks.entries, block |-> saved.ks.block]
  BY <1>2 DEF ReloadInv, IsRecord
<1>3. CanRestore'
  BY <1>1, <1>2 DEF CanRestore
<1>4. CASE /\ ks' = [entries |-> GlobalEntry(global), block |-> OtherBlock(ks.block)]
           /\ todo' = [step |-> "clients", ids |-> Keyed(db.file)]
  <2>1. IsRecord'
    BY <1>2, <1>r, <1>4 DEF IsRecord
  <2>2. ks'.entries = Made(cli, db.file, Keyed(db.file))
    BY <1>1, <1>4, NoneMade
  <2>3. Progress' /\ todo'.step \in Steps /\ todo'.step # "idle"
    BY <1>1, <1>4, <2>2 DEF Progress, Steps
  <2> QED
    BY <1>3, <2>1, <2>3 DEF ReloadInv
<1>5. CASE ks' = [entries |-> {}, block |-> 0] /\ todo' = [step |-> "restore", ids |-> {}]
  <2>1. IsRecord'
    BY <1>2, <1>r, <1>5 DEF IsRecord
  <2>2. Progress' /\ todo'.step \in Steps /\ todo'.step # "idle"
    BY <1>5 DEF Progress, Steps
  <2> QED
    BY <1>3, <2>1, <2>2 DEF ReloadInv
<1> QED
  BY <1>4, <1>5 DEF StartKeystore, Goto

\* A key of a client is added, or the half that is made is freed
LEMMA ClientKeyKeeps ==
    ASSUME ReloadInv, UNCHANGED cli, NEW id \in todo.ids, ClientKey(id) PROVE ReloadInv'
<1>1. /\ todo.step = "clients" /\ db.complete /\ UNCHANGED <<db, global, saved>>
      /\ global = GlobalFor(cli, db.file) /\ saved.rebuilt
      /\ todo.ids \subseteq Keyed(db.file) /\ ks.entries = Made(cli, db.file, todo.ids)
      /\ InForce(cli, saved.db, saved.ks, saved.global)
  BY DEF ClientKey, ReloadInv, Progress, CanRestore
<1>2. CanRestore'
  BY <1>1 DEF CanRestore
<1>3. CASE /\ ks' = [ks EXCEPT !.entries = @ \cup {ClientEntry(db.file, id)}]
           /\ todo' = [step |-> "clients", ids |-> todo.ids \ {id}]
  <2>1. ks' = [entries |-> ks.entries \cup {ClientEntry(db.file, id)}, block |-> ks.block]
    BY <1>3 DEF ReloadInv, IsRecord
  <2>2. ks'.entries = Made(cli, db.file, todo.ids \ {id})
    BY <1>1, <2>1, OneMade
  <2>3. IsRecord'
    BY <1>1, <2>1 DEF ReloadInv, IsRecord
  <2>4. Progress' /\ todo'.step \in Steps /\ todo'.step # "idle"
    BY <1>1, <1>3, <2>2 DEF Progress, Steps
  <2> QED
    BY <1>2, <2>3, <2>4 DEF ReloadInv
<1>4. CASE ks' = [entries |-> {}, block |-> 0] /\ todo' = [step |-> "restore", ids |-> {}]
  <2>1. IsRecord'
    BY <1>1, <1>4 DEF ReloadInv, IsRecord
  <2>2. Progress' /\ todo'.step \in Steps /\ todo'.step # "idle"
    BY <1>4 DEF Progress, Steps
  <2> QED
    BY <1>2, <2>1, <2>2 DEF ReloadInv
<1> QED
  BY <1>3, <1>4 DEF ClientKey, NoKeystore, Goto

\* The keystore is done; it is committed only when some key can be used
LEMMA EndKeystoreKeeps ==
    ASSUME ReloadInv, UNCHANGED cli, EndKeystore PROVE ReloadInv'
<1>1. /\ todo.step = "clients" /\ todo.ids = {} /\ db.complete /\ UNCHANGED <<db, global, saved>>
      /\ global = GlobalFor(cli, db.file) /\ saved.rebuilt
      /\ ks.entries = Made(cli, db.file, {})
      /\ InForce(cli, saved.db, saved.ks, saved.global)
  BY DEF EndKeystore, ReloadInv, Progress, CanRestore
<1>2. CanRestore'
  BY <1>1 DEF CanRestore
<1>3. CASE ks' = [entries |-> {}, block |-> 0] /\ todo' = [step |-> "restore", ids |-> {}]
  <2>1. IsRecord'
    BY <1>1, <1>3 DEF ReloadInv, IsRecord
  <2>2. Progress' /\ todo'.step \in Steps /\ todo'.step # "idle"
    BY <1>3 DEF Progress, Steps
  <2> QED
    BY <1>2, <2>1, <2>2 DEF ReloadInv
<1>4. CASE /\ UNCHANGED ks
           /\ todo' = [step |-> IF Usable(ks.entries) # {} THEN "commit" ELSE "restore", ids |-> {}]
  <2>1. IsRecord'
    BY <1>1, <1>4 DEF ReloadInv, IsRecord
  <2>2. ks'.entries = KeysFor(cli, db.file)
    BY <1>1, <1>4, AllMade
  <2>3. /\ todo'.step \in {"commit", "restore"}
        /\ todo'.step = "commit" => Usable(ks'.entries) # {}
    BY <1>4 DEF Usable
  <2>4. Progress' /\ todo'.step \in Steps /\ todo'.step # "idle"
    BY <1>1, <2>2, <2>3 DEF Progress, Steps
  <2> QED
    BY <1>2, <2>1, <2>4 DEF ReloadInv
<1> QED
  BY <1>3, <1>4 DEF EndKeystore, NoKeystore, Goto

\* What is new belongs together
LEMMA CommitKeeps ==
    ASSUME ReloadInv, UNCHANGED cli, Commit PROVE ReloadInv'
<1>1. /\ todo.step = "commit" /\ db.complete /\ UNCHANGED <<db, ks, global, saved>>
      /\ global = GlobalFor(cli, db.file)
      /\ ks.entries = KeysFor(cli, db.file) /\ Usable(ks.entries) # {}
      /\ todo' = [step |-> "idle", ids |-> {}]
  BY DEF Commit, Goto, ReloadInv, Progress
<1>2. InForce(cli, db, ks, global)
  BY <1>1 DEF InForce
<1>3. InForce(cli, db, ks, global)' /\ IsRecord'
  BY <1>1, <1>2 DEF ReloadInv, IsRecord
<1>4. todo'.step = "idle"
  BY <1>1
<1> QED
  BY <1>3, <1>4 DEF ReloadInv, Progress, CanRestore, Steps

\* What was saved belongs together
LEMMA RestoreKeeps ==
    ASSUME ReloadInv, UNCHANGED cli, Restore PROVE ReloadInv'
<1>1. /\ todo.step = "restore" /\ UNCHANGED saved
      /\ db' = saved.db /\ ks' = (IF saved.rebuilt THEN saved.ks ELSE ks) /\ global' = saved.global
      /\ todo' = [step |-> "idle", ids |-> {}]
      /\ InForce(cli, saved.db, saved.ks, saved.global) /\ (~saved.rebuilt => ks = saved.ks)
  BY DEF Restore, Goto, ReloadInv, CanRestore
<1>2. ks' = saved.ks
  BY <1>1
<1>3. InForce(cli, db, ks, global)'
  BY <1>1, <1>2
<1>4. todo'.step = "idle"
  BY <1>1
<1>5. IsRecord'
  BY <1>1, <1>2 DEF ReloadInv, IsRecord
<1> QED
  BY <1>1, <1>2, <1>3, <1>4, <1>5 DEF ReloadInv, Progress, CanRestore, Steps

\* The server's start: it has loaded a file it could load
LEMMA InitHolds == ReloadInit => ReloadInv
<1> SUFFICES ASSUME ReloadInit PROVE ReloadInv
  OBVIOUS
<1>1. PICK f \in Files :
         /\ Loadable(f)
         /\ db = [file |-> f, complete |-> TRUE, block |-> 1]
         /\ ks = [entries |-> KeystoreOf(f), block |-> 1]
         /\ global = GlobalOf(f)
  BY DEF ReloadInit
<1>2. InForce(cli, db, ks, global)
  BY <1>1, AsGiven DEF InForce, Loadable
<1>3. IsRecord
  BY <1>1 DEF ReloadInit, IsRecord
<1>4. todo.step = "idle"
  BY DEF ReloadInit
<1> QED
  BY <1>2, <1>3, <1>4 DEF ReloadInv, Progress, CanRestore, Steps

\* Every step of a reload keeps what it needs to commit or to restore.
LEMMA ReloadStays == ReloadInv /\ [ReloadNext]_reloadVars => ReloadInv'
<1>1. CASE ReloadNext
  BY <1>1, ParseKeeps, MakeGlobalKeeps, StartKeystoreKeeps, ClientKeyKeeps, EndKeystoreKeeps,
     CommitKeeps, RestoreKeeps DEF ReloadNext, ReloadStep
<1>2. CASE UNCHANGED reloadVars
  BY <1>2 DEF reloadVars, ReloadInv, IsRecord, Progress, CanRestore
<1> QED
  BY <1>1, <1>2

\* camex_run(), config_build_keystore(): whichever step of a reload fails, the
\* file, the keystore and the global key in force belong together, and some
\* client can connect
THEOREM AllOrNothing == ReloadSpec => []ReloadAtomic
<1>1. ReloadInv /\ [ReloadNext]_reloadVars => ReloadInv'
  BY ReloadStays
<1>2. ReloadInv => ReloadAtomic
  <2> SUFFICES ASSUME ReloadInv, todo.step = "idle"
               PROVE  /\ db.complete /\ Loadable(db.file)
                      /\ ks.entries = KeystoreOf(db.file) /\ global = GlobalOf(db.file)
    BY DEF ReloadAtomic
  <2>1. InForce(cli, db, ks, global)
    BY DEF ReloadInv
  <2> QED
    BY <2>1, AsGiven DEF InForce, Loadable
<1> QED
  BY <1>1, <1>2, InitHolds, PTL DEF ReloadSpec

----------------------------------------------------------------------------
(***************************************************************************)
(* ... and it leaves nothing behind: each block of memory is freed once,   *)
(* and the cache of derived keys holds those in force.                     *)
(***************************************************************************)

\* The blocks while a reload is under way: those saved, the new server_db,
\* and the new keystore if it was begun
HeapInv ==
    IF todo.step = "idle"
    THEN /\ db.block \in {1, 2} /\ ks.block \in {1, 2}
         /\ heap = {<<"db", db.block>>, <<"ks", ks.block>>}
    ELSE /\ saved.db.block \in {1, 2} /\ saved.ks.block \in {1, 2}
         /\ db.block = OtherBlock(saved.db.block)
         /\ IF saved.rebuilt THEN ks.block \in {0, OtherBlock(saved.ks.block)}
                             ELSE ks.block = saved.ks.block
         /\ heap = {<<"db", saved.db.block>>, <<"ks", saved.ks.block>>, <<"db", db.block>>}
                     \cup (IF ks.block = 0 THEN {} ELSE {<<"ks", ks.block>>})
         /\ todo.step \in {"global", "keystore"} => ~saved.rebuilt
         /\ todo.step \in {"clients", "commit"} => saved.rebuilt /\ ks.block # 0

Texts(entries) == {e[2] : e \in Usable(entries)}
Cached(f, keys, ids) == \A id \in ids : f.clients[id] \in keys \cup {Bad}

\* The cache while a reload is under way: without the fresh keys it is that of
\* what was saved; the keys seen are those of the entries made
CacheInv ==
    LET old == cache.keys \ cache.fresh IN
    /\ cache = [keys |-> cache.keys, seen |-> cache.seen, fresh |-> cache.fresh]
    /\ IF todo.step = "idle"
       THEN cache.keys \subseteq Texts(ks.entries) /\ Cached(db.file, cache.keys, Keyed(db.file))
       ELSE /\ old \subseteq Texts(saved.ks.entries)
            /\ Cached(saved.db.file, old, Keyed(saved.db.file))
            /\ cache.seen \subseteq cache.keys
    /\ todo.step = "global" => cache.seen = {}
    /\ todo.step = "keystore" => cache.seen \subseteq {global} \ {NoText, Bad}
    /\ todo.step \in {"clients", "commit"} =>
          /\ cache.seen \subseteq Texts(ks.entries)
          /\ Cached(db.file, cache.seen, Keyed(db.file) \ todo.ids)
    /\ todo.step = "commit" => todo.ids = {}

TidyInv == ReloadInv /\ HeapInv /\ CacheInv

\* A file and the keystore each have two blocks, one of them in use.
LEMMA OtherIs == \A b \in {1, 2} : OtherBlock(b) \in {1, 2} /\ OtherBlock(b) # b
BY DEF OtherBlock

\* The texts of more entries are more, and those of an entry that is no
\* locked one have its text.
LEMMA MoreTexts ==
    ASSUME NEW es, NEW more
    PROVE  /\ Texts(es) \subseteq Texts(es \cup more)
           /\ \A x, text : text # Bad /\ <<x, text>> \in es => text \in Texts(es)
BY DEF Texts, Usable

\* A key that is derived is fresh, one that is found was there: without the
\* fresh ones the cache is as it was.
LEMMA DerivedKeeps ==
    ASSUME CacheInv, NEW text
    PROVE  LET d == Derived(text)
           IN /\ d = [keys |-> d.keys, seen |-> d.seen, fresh |-> d.fresh]
              /\ d.keys \ d.fresh = cache.keys \ cache.fresh
              /\ d.seen = cache.seen \cup {text}
              /\ cache.seen \subseteq cache.keys => d.seen \subseteq d.keys
BY DEF Derived

\* key_cache_mark() keeps the keys only
LEMMA MarkedIs ==
    ASSUME NEW c, c = [keys |-> c.keys, seen |-> c.seen, fresh |-> c.fresh]
    PROVE  [c EXCEPT !.seen = {}, !.fresh = {}] = [keys |-> c.keys, seen |-> {}, fresh |-> {}]
<1>1. DOMAIN c = {"keys", "seen", "fresh"}
  OBVIOUS
<1> DEFINE d == [c EXCEPT !.seen = {}]
<1>2. DOMAIN d = {"keys", "seen", "fresh"} /\ d.keys = c.keys /\ d.seen = {} /\ d.fresh = c.fresh
  BY <1>1
<1>3. d = [keys |-> c.keys, seen |-> {}, fresh |-> c.fresh]
  BY <1>2
<1> HIDE DEF d
<1>4. [d EXCEPT !.fresh = {}] = [keys |-> c.keys, seen |-> {}, fresh |-> {}]
  BY <1>3
<1> QED
  BY <1>4 DEF d

\* The new file has a block of its own, and no key is marked yet.
LEMMA ParseTidy ==
    ASSUME TidyInv, NEW f \in Files, Parse(f) PROVE HeapInv' /\ CacheInv'
<1>a. cache = [keys |-> cache.keys, seen |-> cache.seen, fresh |-> cache.fresh]
  BY DEF TidyInv, CacheInv
<1>b. Marked = [keys |-> cache.keys, seen |-> {}, fresh |-> {}]
  BY <1>a, MarkedIs DEF Marked
<1>c. /\ db'.block = OtherBlock(db.block)
      /\ todo'.step \in {"global", "restore"}
  BY DEF Parse, Goto
<1>1. /\ todo.step = "idle" /\ UNCHANGED <<ks, global>>
      /\ saved' = [db |-> db, ks |-> ks, global |-> global, rebuilt |-> FALSE]
      /\ cache' = [keys |-> cache.keys, seen |-> {}, fresh |-> {}]
      /\ heap' = heap \cup {<<"db", OtherBlock(db.block)>>}
      /\ db'.block = OtherBlock(db.block)
      /\ todo'.step \in {"global", "restore"}
  BY <1>b, <1>c DEF Parse
<1>2. /\ saved'.db = db /\ saved'.ks = ks /\ saved'.rebuilt = FALSE
      /\ cache'.keys = cache.keys /\ cache'.seen = {} /\ cache'.fresh = {}
  BY <1>1
<1>3. HeapInv'
  BY <1>1, <1>2, OtherIs DEF TidyInv, HeapInv
<1>4. CacheInv'
  BY <1>1, <1>2 DEF TidyInv, CacheInv, Cached
<1> QED
  BY <1>3, <1>4

\* The global settings take nothing from the heap.
LEMMA MakeGlobalTidy ==
    ASSUME TidyInv, MakeGlobal PROVE HeapInv' /\ CacheInv'
<1>1. /\ todo.step = "global" /\ todo'.step \in {"keystore", "restore"}
      /\ UNCHANGED <<db, ks, saved, heap>>
  BY DEF MakeGlobal, Goto
<1>2. HeapInv'
  BY <1>1 DEF TidyInv, HeapInv
<1>3. CASE UNCHANGED cache
  BY <1>1, <1>2, <1>3 DEF TidyInv, CacheInv, Cached
<1>4. CASE db.file.psk \in Passwords /\ global' = db.file.psk /\ cache' = Derived(db.file.psk)
  <2> DEFINE d == Derived(db.file.psk)
  <2>1. /\ d = [keys |-> d.keys, seen |-> d.seen, fresh |-> d.fresh]
        /\ d.keys \ d.fresh = cache.keys \ cache.fresh
        /\ d.seen = cache.seen \cup {db.file.psk}
        /\ d.seen \subseteq d.keys /\ cache.seen = {}
    BY <1>1, DerivedKeeps DEF TidyInv, CacheInv
  <2>2. db.file.psk # Bad /\ db.file.psk # NoText
    BY <1>4, ReloadAssumption
  <2>3. d.seen \subseteq {global'} \ {NoText, Bad}
    BY <1>4, <2>1, <2>2
  <2> HIDE DEF d
  <2>4. cache' = d
    BY <1>4 DEF d
  <2> QED
    BY <1>1, <1>2, <2>1, <2>3, <2>4 DEF TidyInv, CacheInv, Cached
<1>5. UNCHANGED cache \/ (db.file.psk \in Passwords /\ global' = db.file.psk /\ cache' = Derived(db.file.psk))
  BY DEF MakeGlobal
<1> QED
  BY <1>2, <1>3, <1>4, <1>5

\* The new keystore has a block of its own, or the old one is kept.
LEMMA StartKeystoreTidy ==
    ASSUME TidyInv, StartKeystore PROVE HeapInv' /\ CacheInv'
<1>1. /\ todo.step = "keystore" /\ UNCHANGED <<db, global, cache>>
      /\ saved'.db = saved.db /\ saved'.ks = saved.ks /\ saved'.rebuilt = TRUE
  BY DEF StartKeystore, TidyInv, ReloadInv, IsRecord
<1>2. CASE /\ ks' = [entries |-> GlobalEntry(global), block |-> OtherBlock(ks.block)]
           /\ heap' = heap \cup {<<"ks", OtherBlock(ks.block)>>}
           /\ Goto("clients", Keyed(db.file))
  <2>1. /\ ks'.entries = GlobalEntry(global) /\ ks'.block = OtherBlock(ks.block)
        /\ todo'.step = "clients" /\ todo'.ids = Keyed(db.file)
    BY <1>2 DEF Goto
  <2>2. ks.block = saved.ks.block /\ saved.ks.block \in {1, 2}
    BY <1>1 DEF TidyInv, HeapInv
  <2>3. HeapInv'
    <3>1. ks'.block = OtherBlock(saved.ks.block) /\ ks'.block # 0 /\ ks.block # 0
      BY <2>1, <2>2, OtherIs
    <3> QED
      BY <1>1, <1>2, <2>1, <2>2, <3>1 DEF TidyInv, HeapInv
  <2>4. cache.seen \subseteq Texts(GlobalEntry(global))
    <3>1. cache.seen \subseteq {global} \ {NoText, Bad}
      BY <1>1 DEF TidyInv, CacheInv
    <3>2. CASE global \notin {NoText, Bad}
      <4>1. <<"", global>> \in GlobalEntry(global)
        BY <3>2 DEF GlobalEntry
      <4> QED
        BY <3>1, <3>2, <4>1, MoreTexts
    <3> QED
      BY <3>1, <3>2
  <2>5. CacheInv'
    BY <1>1, <2>1, <2>4 DEF TidyInv, CacheInv, Cached
  <2> QED
    BY <2>3, <2>5
<1>3. CASE ks' = [entries |-> {}, block |-> 0] /\ Goto("restore", {}) /\ UNCHANGED heap
  <2>1. ks'.block = 0 /\ todo'.step = "restore"
    BY <1>3 DEF Goto
  <2>2. ks.block = saved.ks.block /\ saved.ks.block \in {1, 2}
    BY <1>1 DEF TidyInv, HeapInv
  <2>3. HeapInv'
    BY <1>1, <1>3, <2>1, <2>2 DEF TidyInv, HeapInv
  <2>4. CacheInv'
    BY <1>1, <2>1 DEF TidyInv, CacheInv, Cached
  <2> QED
    BY <2>3, <2>4
<1> QED
  BY <1>2, <1>3 DEF StartKeystore

\* The half that is built is freed.
LEMMA NoKeystoreTidy ==
    ASSUME TidyInv, todo.step = "clients", NoKeystore, UNCHANGED <<db, global, saved, cache>>
    PROVE  HeapInv' /\ CacheInv'
<1>1. /\ ks'.block = 0 /\ todo'.step = "restore" /\ heap' = heap \ {<<"ks", ks.block>>}
  BY DEF NoKeystore, Goto
<1>2. /\ saved.ks.block \in {1, 2} /\ ks.block = OtherBlock(saved.ks.block)
      /\ ks.block # saved.ks.block /\ saved.rebuilt
  BY OtherIs DEF TidyInv, HeapInv
<1>3. HeapInv'
  BY <1>1, <1>2 DEF TidyInv, HeapInv
<1>4. CacheInv'
  BY <1>1 DEF TidyInv, CacheInv, Cached
<1> QED
  BY <1>3, <1>4

\* A client's key is in the cache and marked, or the reload fails.
LEMMA ClientKeyTidy ==
    ASSUME TidyInv, NEW id \in todo.ids, ClientKey(id) PROVE HeapInv' /\ CacheInv'
<1> DEFINE text == db.file.clients[id]
<1>1. todo.step = "clients" /\ UNCHANGED <<db, global, saved>>
  BY DEF ClientKey
<1>2. CASE /\ ks' = [ks EXCEPT !.entries = @ \cup {ClientEntry(db.file, id)}]
           /\ cache' = IF text = Bad THEN cache ELSE Derived(text)
           /\ Goto("clients", todo.ids \ {id}) /\ UNCHANGED heap
  <2>1. /\ ks'.block = ks.block /\ ks'.entries = ks.entries \cup {<<id, text>>}
        /\ todo'.step = "clients" /\ todo'.ids = todo.ids \ {id}
    BY <1>2 DEF TidyInv, ReloadInv, IsRecord, ClientEntry, Goto
  <2>2. HeapInv'
    BY <1>1, <1>2, <2>1 DEF TidyInv, HeapInv
  <2>3. /\ cache' = [keys |-> cache'.keys, seen |-> cache'.seen, fresh |-> cache'.fresh]
        /\ cache'.keys \ cache'.fresh = cache.keys \ cache.fresh
        /\ cache'.seen \subseteq cache'.keys
        /\ cache'.seen = IF text = Bad THEN cache.seen ELSE cache.seen \cup {text}
    <3>1. CASE text = Bad
      BY <1>1, <1>2, <3>1 DEF TidyInv, CacheInv
    <3>2. CASE text # Bad
      <4> DEFINE d == Derived(text)
      <4>1. /\ d = [keys |-> d.keys, seen |-> d.seen, fresh |-> d.fresh]
            /\ d.keys \ d.fresh = cache.keys \ cache.fresh
            /\ d.seen = cache.seen \cup {text}
            /\ d.seen \subseteq d.keys
        <5> HIDE DEF text
        <5> QED
          BY <1>1, DerivedKeeps DEF TidyInv, CacheInv
      <4>2. cache' = d
        BY <1>2, <3>2
      <4> HIDE DEF d
      <4> QED
        BY <3>2, <4>1, <4>2
    <3> QED
      BY <3>1, <3>2
  <2> HIDE DEF text
  <2>4. cache'.seen \subseteq Texts(ks'.entries)
    <3>1. Texts(ks.entries) \subseteq Texts(ks'.entries)
      BY <2>1, MoreTexts
    <3>2. text # Bad => text \in Texts(ks'.entries)
      BY <2>1, MoreTexts
    <3>3. cache.seen \subseteq Texts(ks.entries)
      BY <1>1 DEF TidyInv, CacheInv
    <3> QED
      BY <2>3, <3>1, <3>2, <3>3
  <2>5. Cached(db.file, cache'.seen, Keyed(db.file) \ todo'.ids)
    BY <1>1, <2>1, <2>3 DEF TidyInv, CacheInv, Cached, text
  <2>6. CacheInv'
    BY <1>1, <2>1, <2>3, <2>4, <2>5 DEF TidyInv, CacheInv
  <2> QED
    BY <2>2, <2>6
<1>3. CASE NoKeystore /\ UNCHANGED cache
  BY <1>1, <1>3, NoKeystoreTidy
<1> QED
  BY <1>2, <1>3 DEF ClientKey

\* A keystore without keys is given back at once.
LEMMA EndKeystoreTidy ==
    ASSUME TidyInv, EndKeystore PROVE HeapInv' /\ CacheInv'
<1>1. /\ todo.step = "clients" /\ todo.ids = {} /\ UNCHANGED <<db, global, saved, cache>>
  BY DEF EndKeystore
<1>2. CASE NoKeystore
  BY <1>1, <1>2, NoKeystoreTidy
<1>3. CASE ~NoKeystore
  <2>1. UNCHANGED <<ks, heap>> /\ todo'.step \in {"commit", "restore"} /\ todo'.ids = {}
    BY <1>3 DEF EndKeystore, Goto
  <2>2. HeapInv'
    BY <1>1, <2>1 DEF TidyInv, HeapInv
  <2>3. CacheInv'
    BY <1>1, <2>1 DEF TidyInv, CacheInv, Cached
  <2> QED
    BY <2>2, <2>3
<1> QED
  BY <1>2, <1>3

\* A commit frees the old blocks and sweeps the keys no file names.
LEMMA CommitTidy ==
    ASSUME TidyInv, Commit PROVE HeapInv' /\ CacheInv'
<1>1. /\ todo.step = "commit" /\ UNCHANGED <<db, ks, global, saved>> /\ todo'.step = "idle"
      /\ heap' = heap \ {<<"db", saved.db.block>>, <<"ks", saved.ks.block>>}
      /\ cache' = [keys |-> cache.keys \cap cache.seen, seen |-> cache.seen, fresh |-> cache.fresh]
  BY DEF Commit, Goto, Swept, TidyInv, CacheInv
<1>2. HeapInv'
  BY <1>1, OtherIs DEF TidyInv, HeapInv
<1>3. /\ cache.seen \subseteq Texts(ks.entries)
      /\ Cached(db.file, cache.seen, Keyed(db.file))
      /\ cache.seen \subseteq cache.keys
  <2>1. Keyed(db.file) \ todo.ids = Keyed(db.file)
    BY <1>1 DEF TidyInv, CacheInv
  <2> QED
    BY <1>1, <2>1 DEF TidyInv, CacheInv
<1>4. CacheInv'
  <2>1. cache'.keys = cache.seen
    BY <1>1, <1>3
  <2>2. Cached(db.file, cache'.keys, Keyed(db.file))
    BY <1>3, <2>1
  <2> QED
    BY <1>1, <1>3, <2>1, <2>2 DEF CacheInv
<1> QED
  BY <1>2, <1>4

\* A restore frees the new blocks and the keys this reload derived.
LEMMA RestoreTidy ==
    ASSUME TidyInv, Restore PROVE HeapInv' /\ CacheInv'
<1>1. /\ todo.step = "restore" /\ UNCHANGED saved /\ todo'.step = "idle"
      /\ heap' = heap \ ({<<"db", db.block>>}
                            \cup (IF saved.rebuilt THEN {<<"ks", ks.block>>} ELSE {}))
      /\ cache' = [keys |-> cache.keys \ cache.fresh, seen |-> cache.seen, fresh |-> cache.fresh]
      /\ db' = saved.db /\ ks' = saved.ks
  BY DEF Restore, Goto, NewDropped, TidyInv, ReloadInv, CacheInv, CanRestore
<1>2. HeapInv'
  BY <1>1, OtherIs DEF TidyInv, HeapInv
<1>3. CacheInv'
  BY <1>1 DEF TidyInv, CacheInv, Cached
<1> QED
  BY <1>2, <1>3

\* The cache starts with the keys of the first file, all of those seen fresh.
LEMMA InitTidy == ReloadInit => HeapInv /\ CacheInv
<1> SUFFICES ASSUME ReloadInit PROVE HeapInv /\ CacheInv
  OBVIOUS
<1>1. PICK f \in Files :
          /\ db = [file |-> f, complete |-> TRUE, block |-> 1]
          /\ ks = [entries |-> KeystoreOf(f), block |-> 1]
          /\ cache = [keys |-> {e[2] : e \in Usable(KeystoreOf(f))}, seen |-> {}, fresh |-> {}]
  BY DEF ReloadInit
<1>2. todo.step = "idle" /\ heap = {<<"db", 1>>, <<"ks", 1>>}
  BY DEF ReloadInit
<1>3. HeapInv
  BY <1>1, <1>2 DEF HeapInv
<1>4. cache.keys = Texts(ks.entries)
  BY <1>1 DEF Texts
<1>5. Cached(db.file, cache.keys, Keyed(db.file))
  <2> SUFFICES ASSUME NEW id \in Keyed(f), f.clients[id] # Bad
               PROVE  f.clients[id] \in Texts(ks.entries)
    BY <1>1, <1>4 DEF Cached
  <2>1. <<id, f.clients[id]>> \in ks.entries
    BY <1>1 DEF KeystoreOf, ClientEntry
  <2> DEFINE text == f.clients[id]
  <2> HIDE DEF text
  <2>2. text # Bad /\ <<id, text>> \in ks.entries
    BY <2>1 DEF text
  <2>3. text \in Texts(ks.entries)
    BY <2>2, MoreTexts
  <2> QED
    BY <2>3 DEF text
<1>6. CacheInv
  <2>1. cache.keys \ cache.fresh = cache.keys
    BY <1>1
  <2> QED
    BY <1>1, <1>2, <1>4, <1>5 DEF CacheInv
<1> QED
  BY <1>3, <1>6

\* Whenever no reload is under way, the two blocks in force are the only ones
\* allocated (a second free, or none, would show here), and the cache holds
\* the key of every passphrase in force, and none that is not
\* (config_reload(), key_cache_sweep(), key_cache_drop_new()).
THEOREM NothingKept == ReloadSpec => []NothingLeft
<1>1. TidyInv /\ [ReloadNext]_reloadVars => TidyInv'
  <2>1. ReloadInv /\ [ReloadNext]_reloadVars => ReloadInv'
    BY ReloadStays
  <2>2. CASE TidyInv /\ ReloadNext
    <3>1. HeapInv' /\ CacheInv'
      BY <2>2, ParseTidy, MakeGlobalTidy, StartKeystoreTidy, ClientKeyTidy, EndKeystoreTidy,
         CommitTidy, RestoreTidy DEF ReloadNext, ReloadStep
    <3> QED
      BY <2>1, <2>2, <3>1 DEF TidyInv
  <2>3. CASE TidyInv /\ UNCHANGED reloadVars
    <3>1. HeapInv'
      BY <2>3 DEF TidyInv, HeapInv, reloadVars
    <3>2. CacheInv'
      BY <2>3 DEF TidyInv, CacheInv, Cached, reloadVars
    <3> QED
      BY <2>1, <2>3, <3>1, <3>2 DEF TidyInv
  <2> QED
    BY <2>2, <2>3
<1>2. TidyInv => NothingLeft
  BY DEF TidyInv, HeapInv, CacheInv, Cached, NothingLeft, Texts
<1>3. ReloadInit => TidyInv
  BY InitHolds, InitTidy DEF TidyInv
<1> QED
  BY <1>1, <1>2, <1>3, PTL DEF ReloadSpec

----------------------------------------------------------------------------
(***************************************************************************)
(* The client's tunnel and its routes are those of current_config unless   *)
(* the next handshake is to try again, for any CONFIGs and however often   *)
(* something fails.                                                        *)
(*                                                                         *)
(* A reopen first removes the routes of the CONFIG it leaves, but only     *)
(* while there is a device.  So the invariant must know, beside what       *)
(* TunnelMatches says, what a client without a device still has: routes    *)
(* that could not be removed, and no others.                               *)
(***************************************************************************)

TunnelInv ==
    /\ offer \in TunConfigs /\ current \in TunConfigs
    /\ device # NoDevice => device = current
    /\ device = NoDevice => pending /\ routes \subseteq stuck
    /\ ~pending => RoutesOf(current) \subseteq routes
    /\ routes \subseteq RoutesOf(current) \cup stuck

----------------------------------------------------------------------------
\* client_set_routes(FALSE), and the device closed: of the routes there were
\* only those stay that could not be removed, now or earlier
LEMMA RemovedStuck ==
    ASSUME TunnelInv, NEW fails,
           fails \subseteq (IF device = NoDevice THEN {} ELSE RoutesOf(current))
    PROVE  Removed(fails).rs \subseteq Removed(fails).left
<1>1. CASE device = NoDevice
  BY <1>1 DEF TunnelInv, Removed, WhileClosed
<1>2. CASE device # NoDevice
  <2>1. routes \ (RoutesOf(current) \ fails)
           \subseteq (stuck \cup (fails \cap routes)) \ (RoutesOf(current) \ fails)
    BY DEF TunnelInv
  <2> QED
    BY <1>2, <2>1 DEF Removed, WhileClosed
<1> QED
  BY <1>1, <1>2

\* client_set_routes(TRUE): what is there beyond the routes of c could not be
\* removed, and one of c that is missing is tried again
LEMMA InstalledMatches ==
    ASSUME NEW c, NEW rs, NEW left, NEW missing,
           rs \subseteq RoutesOf(c) \cup left,
           missing \subseteq RoutesOf(c),
           Installed(c, rs, left, missing \ rs)
    PROVE  /\ ~pending' => RoutesOf(c) \subseteq routes'
           /\ routes' \subseteq RoutesOf(c) \cup stuck'
BY DEF Installed

\* One handshake after the other, the tunnel is as it should be or is marked
LEMMA TunnelInvariant == TunnelSpec => []TunnelInv
<1>1. TunnelInit => TunnelInv
  <2> SUFFICES ASSUME TunnelInit PROVE TunnelInv
    OBVIOUS
  <2>1. PICK missing \in Fails(RoutesOf(offer)) :
           routes = RoutesOf(offer) \ missing /\ pending = (missing # {})
    BY DEF TunnelInit
  <2> QED
    BY <2>1, TunnelAssumption DEF TunnelInit, TunnelInv
<1>2. TunnelInv /\ [TunnelNext]_tunnelVars => TunnelInv'
  <2> SUFFICES ASSUME TunnelInv, [TunnelNext]_tunnelVars PROVE TunnelInv'
    OBVIOUS
  <2>1. ASSUME AddMissing PROVE TunnelInv'
    <3>1. PICK missing \in Fails(RoutesOf(current)) :
             Installed(current, routes, stuck, missing \ routes)
      BY <2>1 DEF AddMissing
    <3>2. missing \subseteq RoutesOf(current)
      BY DEF Fails
    <3>3. /\ ~pending' => RoutesOf(current) \subseteq routes'
          /\ routes' \subseteq RoutesOf(current) \cup stuck'
      BY <3>1, <3>2, InstalledMatches DEF TunnelInv
    <3>4. device # NoDevice /\ UNCHANGED <<offer, current, device>>
      BY <2>1 DEF AddMissing
    <3> QED
      BY <3>3, <3>4 DEF TunnelInv, RoutesOf
  <2>2. ASSUME Reopen PROVE TunnelInv'
    <3>0. UNCHANGED offer
      BY <2>2 DEF Reopen
    <3>1. PICK fails \in Fails(IF device = NoDevice THEN {} ELSE RoutesOf(current)) :
           LET r == Removed(fails) IN
           \/ \E missing \in Fails(RoutesOf(offer)) :
                 /\ current' = offer /\ device' = offer
                 /\ Installed(offer, r.rs, r.left, missing \ r.rs)
           \/ \E missing \in Fails(RoutesOf(current)) :
                 /\ device' = current /\ UNCHANGED current
                 /\ Installed(current, r.rs, r.left, missing \ r.rs)
           \/ /\ device' = NoDevice /\ pending' = TRUE
              /\ routes' = r.rs /\ stuck' = r.left /\ UNCHANGED current
      BY <2>2 DEF Reopen
    <3> DEFINE rs == Removed(fails).rs
               left == Removed(fails).left
    <3>2. rs \subseteq left
      BY RemovedStuck DEF Fails
    <3> HIDE DEF rs, left
    <3>3. ASSUME NEW missing \in Fails(RoutesOf(offer)),
                 current' = offer, device' = offer, Installed(offer, rs, left, missing \ rs)
          PROVE  TunnelInv'
      <4>1. /\ ~pending' => RoutesOf(offer) \subseteq routes'
            /\ routes' \subseteq RoutesOf(offer) \cup stuck'
        BY <3>2, <3>3, InstalledMatches DEF Fails
      <4> QED
        BY <3>0, <3>3, <4>1, TunnelAssumption DEF TunnelInv, RoutesOf
    <3>4. ASSUME NEW missing \in Fails(RoutesOf(current)),
                 device' = current, UNCHANGED current,
                 Installed(current, rs, left, missing \ rs)
          PROVE  TunnelInv'
      <4>1. /\ ~pending' => RoutesOf(current) \subseteq routes'
            /\ routes' \subseteq RoutesOf(current) \cup stuck'
        BY <3>2, <3>4, InstalledMatches DEF Fails
      <4> QED
        BY <3>0, <3>4, <4>1, TunnelAssumption DEF TunnelInv, RoutesOf
    <3>5. ASSUME device' = NoDevice, pending' = TRUE, routes' = rs, stuck' = left,
                 UNCHANGED current
          PROVE  TunnelInv'
      BY <3>0, <3>2, <3>5 DEF TunnelInv, RoutesOf
    <3> QED
      BY <3>1, <3>3, <3>4, <3>5 DEF rs, left
  <2>3. ASSUME NEW c \in TunConfigs, NewOffer(c) PROVE TunnelInv'
    BY <2>3 DEF NewOffer, TunnelInv, RoutesOf
  <2>4. CASE UNCHANGED tunnelVars
    BY <2>4 DEF tunnelVars, TunnelInv, RoutesOf
  <2> QED
    BY <2>1, <2>2, <2>3, <2>4 DEF TunnelNext, HandleConfig
<1> QED
  BY <1>1, <1>2, PTL DEF TunnelSpec

\* camex_client_reconfigure(): whatever fails to open, to be added or to be
\* removed, a handshake that finds nothing to do finds the tunnel as
\* current_config says, and no route of an earlier CONFIG is forgotten
THEOREM TunnelRight == TunnelSpec => []TunnelMatches
<1>1. TunnelInv => TunnelMatches
  BY DEF TunnelInv, TunnelMatches
<1> QED
  BY <1>1, TunnelInvariant, PTL

----------------------------------------------------------------------------
(***************************************************************************)
(* The interfaces that outlive the descriptor are left as they were found, *)
(* for any number of them and of crashes and refusals.                     *)
(*                                                                         *)
(* LeftAsFound says nothing of the interface in use.  The invariant does:  *)
(* its IPv6 setting is the one found, or tun_ipv6_was remembers that it    *)
(* was another one, and while its descriptor is open tun_persistent says   *)
(* that the interface will stay, without which closing would not clean up. *)
(***************************************************************************)

IfaceType == [Staying -> [ipv6off : BOOLEAN, addr : BOOLEAN, up : BOOLEAN]]
Early == {"socket", "address"}
Creation == Early \cup {"netmask", "ipv6", "flags"}
OpenedDevice == {"opened", "open"}
TunType == [at : {"closed"} \cup Creation \cup OpenedDevice,
            name : Staying \cup {NetTun, Given, NoIface},
            was : BOOLEAN, persistent : BOOLEAN, env : BOOLEAN]

TunInv ==
    /\ tun.name = NoIface => tun.at = "closed"
    /\ tun.at \in Creation => tun.name # Given /\ ~tun.persistent
    /\ tun.at = "closed" => tun.name = NoIface /\ ~tun.persistent
    /\ tun.at \in OpenedDevice => (tun.persistent <=> tun.name \in Staying)

\* IPv6 on the interface in use
Ipv6Kept(n) ==
    /\ tun.at \in Creation \ {"flags"} => ~tun.was
    /\ IF tun.was THEN ~found[n] ELSE iface[n].ipv6off = found[n]
AddressKept(n) == tun.at \in Early => (iface[n].addr => n \in abandoned)
AtRest(n) == iface[n].ipv6off = found[n] /\ (iface[n].addr => n \in abandoned)

DeviceInv ==
    /\ iface \in IfaceType /\ found \in [Staying -> BOOLEAN] /\ tun \in TunType
    /\ TunInv
    /\ \A n \in Staying \ excused :
          IF tun.name = n THEN Ipv6Kept(n) /\ AddressKept(n) ELSE AtRest(n)

----------------------------------------------------------------------------
\* One field of the interface in use is written, nothing else of any
LEMMA WithType ==
    ASSUME iface \in IfaceType, NEW field \in {"ipv6off", "addr", "up"}, NEW value \in BOOLEAN
    PROVE  /\ With(field, value) \in IfaceType
           /\ \A n \in Staying \ {tun.name} : With(field, value)[n] = iface[n]
           /\ tun.name \in Staying =>
                 /\ With(field, value)[tun.name].ipv6off =
                       (IF field = "ipv6off" THEN value ELSE iface[tun.name].ipv6off)
                 /\ With(field, value)[tun.name].addr =
                       (IF field = "addr" THEN value ELSE iface[tun.name].addr)
<1>1. CASE field = "ipv6off"
  BY <1>1 DEF With, IfaceType
<1>2. CASE field = "addr"
  BY <1>2 DEF With, IfaceType
<1>3. CASE field = "up"
  BY <1>3 DEF With, IfaceType
<1> QED
  BY <1>1, <1>2, <1>3

\* tun_restore_ipv6(): IPv6 is as it was found, unless that was refused
LEMMA RestoredKept ==
    ASSUME DeviceInv, NEW refused \in BOOLEAN
    PROVE  /\ Restored(refused) \in IfaceType
           /\ \A n \in Staying \ {tun.name} : Restored(refused)[n] = iface[n]
           /\ tun.name \in Staying =>
                 Restored(refused)[tun.name].addr = iface[tun.name].addr
           /\ tun.name \in Staying \ excused /\ ~refused =>
                 Restored(refused)[tun.name].ipv6off = found[tun.name]
<1>1. iface \in IfaceType /\ tun \in TunType /\ found \in [Staying -> BOOLEAN]
  BY DEF DeviceInv
<1>2. tun.was \in BOOLEAN
  BY <1>1 DEF TunType
<1>3. tun.name \in Staying \ excused => IF tun.was THEN ~found[tun.name]
                                       ELSE iface[tun.name].ipv6off = found[tun.name]
  BY DEF DeviceInv, Ipv6Kept
<1>4. tun.name \in Staying => found[tun.name] \in BOOLEAN
  BY <1>1
<1>5. CASE tun.was /\ ~refused
  <2>1. Restored(refused) = With("ipv6off", FALSE)
    BY <1>5 DEF Restored
  <2>2. /\ With("ipv6off", FALSE) \in IfaceType
        /\ \A n \in Staying \ {tun.name} : With("ipv6off", FALSE)[n] = iface[n]
        /\ tun.name \in Staying =>
              /\ With("ipv6off", FALSE)[tun.name].ipv6off = FALSE
              /\ With("ipv6off", FALSE)[tun.name].addr = iface[tun.name].addr
    BY <1>1, WithType
  <2> QED
    BY <1>3, <1>4, <1>5, <2>1, <2>2
<1>6. CASE ~(tun.was /\ ~refused)
  <2>1. Restored(refused) = iface
    BY <1>6 DEF Restored
  <2> QED
    BY <1>1, <1>3, <1>6, <2>1
<1> QED
  BY <1>5, <1>6

\* tun_release_persistent(): what is not refused is down and has no address
LEMMA ReleasedKept ==
    ASSUME DeviceInv, NEW down \in BOOLEAN, NEW unaddressed \in BOOLEAN, NEW refused \in BOOLEAN,
           tun.name \in Staying
    PROVE  /\ Released(down, unaddressed, refused) \in IfaceType
           /\ \A n \in Staying \ {tun.name} : Released(down, unaddressed, refused)[n] = iface[n]
           /\ unaddressed => ~Released(down, unaddressed, refused)[tun.name].addr
           /\ tun.name \notin excused /\ ~refused =>
                 Released(down, unaddressed, refused)[tun.name].ipv6off = found[tun.name]
<1> DEFINE restored == Restored(refused)
<1>1. /\ restored \in IfaceType
      /\ \A n \in Staying \ {tun.name} : restored[n] = iface[n]
      /\ tun.name \notin excused /\ ~refused => restored[tun.name].ipv6off = found[tun.name]
  BY RestoredKept
<1>2. Released(down, unaddressed, refused) =
         [restored EXCEPT ![tun.name].up = @ /\ ~down, ![tun.name].addr = @ /\ ~unaddressed]
  BY DEF Released
<1> HIDE DEF restored
<1> QED
  BY <1>1, <1>2 DEF IfaceType

----------------------------------------------------------------------------
\* A step of the creation writes at most the interface it creates
LEMMA CreationKeeps ==
    ASSUME DeviceInv, tun' \in TunType, TunInv', iface' \in IfaceType,
           tun'.name = tun.name, Creating,
           \A n \in Staying \ {tun.name} : iface'[n] = iface[n],
           tun.name \in Staying \ excused => Ipv6Kept(tun.name)' /\ AddressKept(tun.name)'
    PROVE  DeviceInv'
BY DEF DeviceInv, Creating, AtRest

\* camex lets the interface go: it is as it was found, or camex is excused
LEMMA LettingGo ==
    ASSUME DeviceInv, tun' \in TunType, TunInv', iface' \in IfaceType,
           tun'.name = NoIface, UNCHANGED found, excused \subseteq excused',
           \A n \in Staying \ {tun.name} : iface'[n] = iface[n] /\ (n \in abandoned => n \in abandoned'),
           \A n \in Staying \ excused' : n = tun.name => AtRest(n)'
    PROVE  DeviceInv'
<1>1. NoIface \notin Staying
  BY DeviceAssumption
<1> QED
  BY <1>1 DEF DeviceInv, AtRest

\* Whatever camex does, dies of or is refused, the interfaces it does not use
\* are as they were found
LEMMA DeviceInvariant == DeviceSpec => []DeviceInv
<1>1. DeviceInit => DeviceInv
  <2> SUFFICES ASSUME DeviceInit PROVE DeviceInv
    OBVIOUS
  <2>1. iface \in IfaceType /\ found \in [Staying -> BOOLEAN]
    BY DEF DeviceInit, IfaceType
  <2>2. tun \in TunType /\ TunInv /\ tun.name = NoIface
    BY DEF DeviceInit, NoDev, TunType, TunInv, Creation, Early, OpenedDevice
  <2>3. \A n \in Staying : tun.name # n /\ AtRest(n)
    BY <2>2, DeviceAssumption DEF DeviceInit, AtRest
  <2> QED
    BY <2>1, <2>2, <2>3 DEF DeviceInv
<1>2. DeviceInv /\ [DeviceNext]_deviceVars => DeviceInv'
  <2> SUFFICES ASSUME DeviceInv, [DeviceNext]_deviceVars PROVE DeviceInv'
    OBVIOUS
  <2>0. iface \in IfaceType /\ tun \in TunType /\ TunInv
    BY DEF DeviceInv
  <2>a. {NetTun, Given, NoIface} \cap Staying = {}
    BY DeviceAssumption
  <2>1. ASSUME OpenGiven PROVE DeviceInv'
    <3>1. /\ tun.at = "closed" /\ tun.name = NoIface /\ ~tun.persistent
          /\ tun' = [tun EXCEPT !.at = "opened", !.name = Given, !.env = TRUE]
          /\ UNCHANGED <<iface, found, abandoned, excused, troubles>>
      BY <2>0, <2>1 DEF OpenGiven, TunInv
    <3>2. /\ tun' \in TunType /\ tun'.at = "opened" /\ tun'.name = Given
          /\ tun'.persistent = tun.persistent
      BY <2>0, <3>1 DEF TunType, OpenedDevice
    <3>3. ~tun'.persistent /\ Given \notin Staying /\ Given # NoIface
      BY <3>1, <3>2, DeviceAssumption
    <3>4. TunInv'
      BY <3>2, <3>3 DEF TunInv, Creation, Early, OpenedDevice
    <3> QED
      BY <2>a, <3>1, <3>2, <3>4 DEF DeviceInv, AtRest
  <2>2. ASSUME NEW name \in Staying \cup {NetTun}, Create(name) PROVE DeviceInv'
    <3>1. /\ tun.at = "closed" /\ tun.name = NoIface /\ ~tun.persistent
          /\ tun' = [tun EXCEPT !.at = "socket", !.name = name, !.was = FALSE]
          /\ UNCHANGED <<iface, found, abandoned, excused, troubles>>
      BY <2>0, <2>2 DEF Create, TunInv
    <3>2. /\ tun' \in TunType /\ tun'.at = "socket" /\ tun'.name = name /\ ~tun'.was
          /\ tun'.persistent = tun.persistent
      BY <2>0, <3>1 DEF TunType, Creation, Early
    <3>3. TunInv'
      BY <2>a, <3>1, <3>2, DeviceAssumption DEF TunInv, Creation, Early, OpenedDevice
    <3>4. \A n \in Staying \ excused : AtRest(n)
      BY <2>a, <3>1 DEF DeviceInv
    <3>5. \A n \in Staying \ excused : AtRest(n)' /\ Ipv6Kept(n)' /\ AddressKept(n)'
      BY <3>1, <3>2, <3>4 DEF AtRest, Ipv6Kept, AddressKept
    <3> QED
      BY <3>1, <3>2, <3>3, <3>5 DEF DeviceInv
  <2>3. ASSUME Socket PROVE DeviceInv'
    <3>1. /\ tun.at = "socket" /\ tun' = [tun EXCEPT !.at = "address"]
          /\ UNCHANGED iface /\ Creating
      BY <2>3 DEF Socket, Goes
    <3>2. /\ tun' \in TunType /\ tun'.at = "address" /\ tun'.name = tun.name
          /\ tun'.was = tun.was /\ tun'.persistent = tun.persistent
      BY <2>0, <3>1 DEF TunType, Creation, Early
    <3>3. TunInv'
      BY <2>0, <3>1, <3>2 DEF TunInv, Creation, Early, OpenedDevice
    <3>4. tun.name \in Staying \ excused => Ipv6Kept(tun.name)' /\ AddressKept(tun.name)'
      BY <3>1, <3>2 DEF DeviceInv, Ipv6Kept, AddressKept, Creation, Early, Creating
    <3> QED
      BY <2>0, <3>1, <3>2, <3>3, <3>4, CreationKeeps
  <2>4. ASSUME SetAddress PROVE DeviceInv'
    <3>1. /\ tun.at = "address" /\ tun' = [tun EXCEPT !.at = "netmask"]
          /\ iface' = With("addr", TRUE) /\ Creating
      BY <2>4 DEF SetAddress, Goes
    <3>2. /\ tun' \in TunType /\ tun'.at = "netmask" /\ tun'.name = tun.name
          /\ tun'.was = tun.was /\ tun'.persistent = tun.persistent
      BY <2>0, <3>1 DEF TunType, Creation, Early
    <3>3. TunInv'
      BY <2>0, <3>1, <3>2 DEF TunInv, Creation, Early, OpenedDevice
    <3>4. /\ iface' \in IfaceType /\ \A n \in Staying \ {tun.name} : iface'[n] = iface[n]
          /\ tun.name \in Staying => iface'[tun.name].ipv6off = iface[tun.name].ipv6off
      BY <2>0, <3>1, WithType
    <3>5. tun.name \in Staying \ excused => Ipv6Kept(tun.name)' /\ AddressKept(tun.name)'
      BY <3>1, <3>2, <3>4 DEF DeviceInv, Ipv6Kept, AddressKept, Creation, Early, Creating
    <3> QED
      BY <3>1, <3>2, <3>3, <3>4, <3>5, CreationKeeps
  <2>5. ASSUME SetNetmask PROVE DeviceInv'
    <3>1. /\ tun.at = "netmask" /\ tun' = [tun EXCEPT !.at = "ipv6"]
          /\ UNCHANGED iface /\ Creating
      BY <2>5 DEF SetNetmask, Goes
    <3>2. /\ tun' \in TunType /\ tun'.at = "ipv6" /\ tun'.name = tun.name
          /\ tun'.was = tun.was /\ tun'.persistent = tun.persistent
      BY <2>0, <3>1 DEF TunType, Creation, Early
    <3>3. TunInv'
      BY <2>0, <3>1, <3>2 DEF TunInv, Creation, Early, OpenedDevice
    <3>4. tun.name \in Staying \ excused => Ipv6Kept(tun.name)' /\ AddressKept(tun.name)'
      BY <3>1, <3>2 DEF DeviceInv, Ipv6Kept, AddressKept, Creation, Early, Creating
    <3> QED
      BY <2>0, <3>1, <3>2, <3>3, <3>4, CreationKeeps
  <2>6. ASSUME DisableIpv6 PROVE DeviceInv'
    <3>0. tun.at = "ipv6" /\ Creating
      BY <2>6 DEF DisableIpv6
    <3>1. ASSUME tun.name \in Staying => ~iface[tun.name].ipv6off,
                 iface' = With("ipv6off", TRUE),
                 tun' = [tun EXCEPT !.at = "flags", !.was = TRUE]
          PROVE  DeviceInv'
      <4>1. /\ tun' \in TunType /\ tun'.at = "flags" /\ tun'.name = tun.name
            /\ tun'.was = TRUE /\ tun'.persistent = tun.persistent
        BY <2>0, <3>1 DEF TunType, Creation, Early
      <4>2. TunInv'
        BY <2>0, <3>0, <4>1 DEF TunInv, Creation, Early, OpenedDevice
      <4>3. iface' \in IfaceType /\ \A n \in Staying \ {tun.name} : iface'[n] = iface[n]
        BY <2>0, <3>1, WithType
      <4>4. tun.name \in Staying \ excused => ~found[tun.name]
        BY <3>0, <3>1 DEF DeviceInv, Ipv6Kept, Creation, Early
      <4>5. tun.name \in Staying \ excused => Ipv6Kept(tun.name)' /\ AddressKept(tun.name)'
        BY <3>0, <4>1, <4>4 DEF Ipv6Kept, AddressKept, Creation, Early, Creating
      <4> QED
        BY <3>0, <4>1, <4>2, <4>3, <4>5, CreationKeeps
    <3>2. ASSUME UNCHANGED iface, tun' = [tun EXCEPT !.at = "flags", !.was = FALSE]
          PROVE  DeviceInv'
      <4>1. /\ tun' \in TunType /\ tun'.at = "flags" /\ tun'.name = tun.name
            /\ tun'.was = FALSE /\ tun'.persistent = tun.persistent
        BY <2>0, <3>2 DEF TunType, Creation, Early
      <4>2. TunInv'
        BY <2>0, <3>0, <4>1 DEF TunInv, Creation, Early, OpenedDevice
      <4>3. tun.name \in Staying \ excused => iface[tun.name].ipv6off = found[tun.name]
        BY <3>0 DEF DeviceInv, Ipv6Kept, Creation, Early
      <4>4. tun.name \in Staying \ excused => Ipv6Kept(tun.name)' /\ AddressKept(tun.name)'
        BY <3>0, <3>2, <4>1, <4>3 DEF Ipv6Kept, AddressKept, Creation, Early, Creating
      <4> QED
        BY <2>0, <3>0, <3>2, <4>1, <4>2, <4>4, CreationKeeps
    <3> QED
      BY <2>6, <3>1, <3>2 DEF DisableIpv6
  <2>7. ASSUME SetUp PROVE DeviceInv'
    <3>1. /\ tun.at = "flags" /\ iface' = With("up", TRUE) /\ Creating
          /\ tun' = [tun EXCEPT !.at = "opened", !.persistent = tun.name # NetTun]
      BY <2>7 DEF SetUp
    <3>2. /\ tun' \in TunType /\ tun'.at = "opened" /\ tun'.name = tun.name
          /\ tun'.was = tun.was /\ tun'.persistent = (tun.name # NetTun)
      BY <2>0, <3>1 DEF TunType, OpenedDevice
    <3>3. tun.name \in Staying \cup {NetTun}
      BY <2>0, <3>1 DEF TunType, TunInv, Creation, Early
    <3>4. TunInv'
      BY <2>0, <2>a, <3>1, <3>2, <3>3 DEF TunInv, Creation, Early, OpenedDevice
    <3>5. /\ iface' \in IfaceType /\ \A n \in Staying \ {tun.name} : iface'[n] = iface[n]
          /\ tun.name \in Staying => iface'[tun.name].ipv6off = iface[tun.name].ipv6off
      BY <2>0, <3>1, WithType
    <3>6. tun.name \in Staying \ excused => Ipv6Kept(tun.name)' /\ AddressKept(tun.name)'
      BY <3>1, <3>2, <3>5 DEF DeviceInv, Ipv6Kept, AddressKept, Creation, Early, Creating
    <3> QED
      BY <3>1, <3>2, <3>4, <3>5, <3>6, CreationKeeps
  <2>8. ASSUME OpenDone PROVE DeviceInv'
    <3>1. /\ tun.at = "opened" /\ tun' = [tun EXCEPT !.at = "open"]
          /\ UNCHANGED iface /\ Creating
      BY <2>8 DEF OpenDone, Goes
    <3>2. /\ tun' \in TunType /\ tun'.at = "open" /\ tun'.name = tun.name
          /\ tun'.was = tun.was /\ tun'.persistent = tun.persistent
      BY <2>0, <3>1 DEF TunType, OpenedDevice
    <3>3. TunInv'
      BY <2>0, <3>1, <3>2 DEF TunInv, Creation, Early, OpenedDevice
    <3>4. tun.name \in Staying \ excused => Ipv6Kept(tun.name)' /\ AddressKept(tun.name)'
      BY <3>1, <3>2 DEF DeviceInv, Ipv6Kept, AddressKept, Creation, Early, Creating
    <3> QED
      BY <2>0, <3>1, <3>2, <3>3, <3>4, CreationKeeps
  <2>9. ASSUME CreationFails PROVE DeviceInv'
    <3>1. PICK refused \in BOOLEAN : Failed(refused)
      BY <2>9 DEF CreationFails
    <3>2. /\ iface' = Restored(refused) /\ abandoned' = abandoned \cup {tun.name} /\ UNCHANGED found
          /\ tun' = [tun EXCEPT !.at = "closed", !.name = NoIface, !.persistent = FALSE]
      BY <2>9, <3>1 DEF CreationFails, Failed
    <3>3. /\ tun' \in TunType /\ tun'.at = "closed" /\ tun'.name = NoIface /\ ~tun'.persistent
      BY <2>0, <3>2 DEF TunType
    <3>4. TunInv'
      BY <3>3 DEF TunInv, Creation, Early, OpenedDevice
    <3>5. excused \subseteq excused' /\ (refused => tun.name \in excused')
      BY <3>1 DEF Failed, Refused
    <3>6. /\ iface' \in IfaceType /\ \A n \in Staying \ {tun.name} : iface'[n] = iface[n]
          /\ tun.name \in Staying \ excused /\ ~refused => iface'[tun.name].ipv6off = found[tun.name]
      BY <3>2, RestoredKept
    <3>7. \A n \in Staying \ excused' : n = tun.name => AtRest(n)'
      BY <3>2, <3>5, <3>6 DEF AtRest
    <3> QED
      BY <3>2, <3>3, <3>4, <3>5, <3>6, <3>7, LettingGo
  <2>10. ASSUME CloseDevice PROVE DeviceInv'
    <3>1. /\ tun.at \in OpenedDevice /\ abandoned' = abandoned \ {tun.name} /\ tun' = NoDev /\ UNCHANGED found
      BY <2>10 DEF CloseDevice, OpenedDevice
    <3>2. tun' \in TunType /\ tun'.name = NoIface /\ TunInv'
      BY <3>1 DEF TunType, TunInv, NoDev, Creation, Early, OpenedDevice
    <3>3. tun.persistent <=> tun.name \in Staying
      BY <2>0, <3>1 DEF TunInv
    <3>4. CASE tun.persistent
      <4>1. PICK down, unaddressed, refused \in BOOLEAN :
               /\ iface' = Released(down, unaddressed, refused)
               /\ Refused(refused \/ ~down \/ ~unaddressed)
        BY <2>10, <3>4 DEF CloseDevice
      <4>2. excused \subseteq excused' /\ (refused \/ ~unaddressed => tun.name \in excused')
        BY <4>1 DEF Refused
      <4>3. /\ iface' \in IfaceType /\ \A n \in Staying \ {tun.name} : iface'[n] = iface[n]
            /\ unaddressed => ~iface'[tun.name].addr
            /\ tun.name \notin excused /\ ~refused => iface'[tun.name].ipv6off = found[tun.name]
        BY <3>3, <3>4, <4>1, ReleasedKept
      <4>4. \A n \in Staying \ excused' : n = tun.name => AtRest(n)'
        BY <3>1, <4>2, <4>3 DEF AtRest
      <4> QED
        BY <3>1, <3>2, <4>2, <4>3, <4>4, LettingGo
    <3>5. CASE ~tun.persistent
      <4>1. UNCHANGED <<iface, excused>>
        BY <2>10, <3>5 DEF CloseDevice
      <4> QED
        BY <2>0, <3>1, <3>2, <3>3, <3>5, <4>1, LettingGo
    <3> QED
      BY <3>4, <3>5
  <2>11. ASSUME Killed PROVE DeviceInv'
    <3>1. tun' = NoDev /\ excused' = excused \cup {tun.name} /\ UNCHANGED <<iface, found, abandoned>>
      BY <2>11 DEF Killed
    <3>2. tun' \in TunType /\ tun'.name = NoIface /\ TunInv'
      BY <3>1 DEF TunType, TunInv, NoDev, Creation, Early, OpenedDevice
    <3> QED
      BY <2>0, <3>1, <3>2, LettingGo
  <2>12. CASE UNCHANGED deviceVars
    BY <2>12 DEF deviceVars, DeviceInv, IfaceType, TunType, TunInv, Ipv6Kept, AddressKept, AtRest
  <2> QED
    BY <2>1, <2>2, <2>3, <2>4, <2>5, <2>6, <2>7, <2>8, <2>9, <2>10, <2>11, <2>12 DEF DeviceNext
<1> QED
  BY <1>1, <1>2, PTL DEF DeviceSpec

\* tun_close_device(), close_tun_creation(): "an interface that outlives us is
\* left as it was", whichever calls fail on the way to the tunnel and back
THEOREM InterfacesLeft == DeviceSpec => []LeftAsFound
<1>1. DeviceInv => LeftAsFound
  BY DEF DeviceInv, LeftAsFound, AtRest
<1> QED
  BY <1>1, DeviceInvariant, PTL

----------------------------------------------------------------------------
(***************************************************************************)
(* A server's control socket can be reached, for any number of servers     *)
(* that open, move and close theirs one after the other, whatever crashes. *)
(*                                                                         *)
(* A socket file is removed in three places, each on what was seen some    *)
(* steps before.  The invariant says what is still true then: a socket     *)
(* found stale is still nobody's, the one just bound is still at its path, *)
(* and no two servers have one inode.  With two servers at work at one     *)
(* time it would not be (RemovesChecked).                                  *)
(***************************************************************************)

HostType == [at : {"down", "up", "check", "compare", "remove", "bind", "listen", "close",
                   "off", "stop"},
             fd : Nat, path : SockPaths \cup {Off}, spec : SockPaths \cup {Default, Off},
             ok : BOOLEAN, want : SockPaths \cup {Default, Off}, stale : Nat, new : Nat,
             closed : BOOLEAN, had : BOOLEAN]
Opening == {"check", "compare", "remove", "bind", "listen", "close"}

\* What host record h has, with the files f, the listened l and n inodes
HasSocket(h, f, l, n) ==
    /\ h.had => h.fd # 0
    /\ h.fd # 0 => /\ h.path \in SockPaths /\ f[h.path] = h.fd /\ h.fd <= n
                   /\ h.closed \/ h.fd \in l
    /\ h.new # 0 => h.at \in {"listen", "close"} /\ h.new # h.fd /\ h.new <= n
    /\ h.closed => h.at \in {"close", "off", "stop"}
    /\ h.at \in Opening => h.want # Off
    /\ h.at \in {"compare", "remove"} => h.stale \notin l
    /\ h.at = "remove" => f[PathOf(h.want)] = h.stale
    /\ h.at \in {"listen", "close"} => h.new # 0 /\ f[PathOf(h.want)] = h.new
    /\ h.at = "listen" => h.new \notin l
    /\ h.at = "close" => h.new \in l

\* No inode but 0 is both's
Apart(g, h) == {g.fd, g.new} \cap {h.fd, h.new} \subseteq {0}

PathInv ==
    /\ host \in [Hosts -> HostType] /\ file \in [SockPaths -> Nat]
    /\ inodes \in Nat /\ listening \subseteq 1 .. inodes
    /\ \A s \in Hosts : HasSocket(host[s], file, listening, inodes)
    /\ \A s, t \in Hosts : s # t => /\ ~(Working(s) /\ Working(t))
                                    /\ Apart(host[s], host[t])

\* A step of host s leaves the others what they have.
LEMMA OthersHave ==
    ASSUME PathInv, NEW s \in Hosts, NEW t \in Hosts \ {s},
           NEW f, NEW l, NEW n \in Nat, inodes <= n,
           listening \ {host[s].fd, host[s].new} \subseteq l,
           \/ f = file /\ l \subseteq listening
           \/ /\ ~Working(t)
              /\ \A p \in SockPaths : f[p] # file[p] =>
                    file[p] \in {0, host[s].fd} \/ file[p] \notin listening
    PROVE  HasSocket(host[t], f, l, n)
<1> DEFINE h == host[t]
<1>1. /\ h \in HostType /\ HasSocket(h, file, listening, inodes) /\ Apart(host[s], h)
      /\ inodes \in Nat /\ file \in [SockPaths -> Nat]
  BY DEF PathInv
<1>2. /\ h.fd # 0 => h.fd \notin {host[s].fd, host[s].new}
      /\ h.new # 0 => h.new \notin {host[s].fd, host[s].new}
  BY <1>1 DEF Apart
<1>3. Working(t) <=> h.at \notin {"down", "up"}
  BY DEF Working
<1> HIDE DEF h
<1>4. ASSUME f = file, l \subseteq listening PROVE HasSocket(h, f, l, n)
  BY <1>1, <1>2, <1>4 DEF HasSocket, HostType
<1>5. ASSUME ~Working(t),
             \A p \in SockPaths : f[p] # file[p] =>
                 file[p] \in {0, host[s].fd} \/ file[p] \notin listening
      PROVE  HasSocket(h, f, l, n)
  BY <1>1, <1>2, <1>3, <1>5 DEF HasSocket, HostType, Opening
<1>6. HasSocket(h, f, l, n)
  BY <1>4, <1>5
<1> QED
  BY <1>6 DEF h

\* The invariant after a step that changes the record of host s to g.
LEMMA PathKept ==
    ASSUME PathInv, NEW s \in Hosts, NEW g \in HostType, host' = [host EXCEPT ![s] = g],
           file' \in [SockPaths -> Nat], inodes' \in Nat, listening' \subseteq 1 .. inodes',
           HasSocket(g, file', listening', inodes'),
           g.at \in {"down", "up"} \/ \A t \in Hosts \ {s} : ~Working(t),
           \A t \in Hosts \ {s} : /\ HasSocket(host[t], file', listening', inodes')
                                  /\ Apart(g, host[t])
    PROVE  PathInv'
<1>1. host' \in [Hosts -> HostType] /\ host'[s] = g /\ \A t \in Hosts \ {s} : host'[t] = host[t]
  BY DEF PathInv
<1>2. \A t \in Hosts : HasSocket(host'[t], file', listening', inodes')
  BY <1>1
<1>3. ASSUME NEW t \in Hosts, NEW u \in Hosts, t # u
      PROVE  /\ ~(host'[t].at \notin {"down", "up"} /\ host'[u].at \notin {"down", "up"})
             /\ Apart(host'[t], host'[u])
  <2>1. CASE t = s
    BY <1>1, <1>3, <2>1 DEF Working
  <2>2. CASE u = s
    BY <1>1, <1>3, <2>2 DEF Working, Apart
  <2>3. CASE t # s /\ u # s
    BY <1>1, <1>3, <2>3 DEF PathInv, Working
  <2> QED
    BY <2>1, <2>2, <2>3
<1> QED
  BY <1>1, <1>2, <1>3 DEF PathInv, Working

\* A step of s that touches no socket and gives its record no other one.
LEMMA SameSockets ==
    ASSUME PathInv, NEW s \in Hosts, NEW g \in HostType, host' = [host EXCEPT ![s] = g],
           UNCHANGED <<file, listening, inodes>>,
           g.fd = host[s].fd, g.new \in {0, host[s].new},
           g.at \in {"down", "up"} \/ \A t \in Hosts \ {s} : ~Working(t),
           HasSocket(g, file, listening, inodes)
    PROVE  PathInv'
<1>1. ASSUME NEW t \in Hosts \ {s}
      PROVE  HasSocket(host[t], file, listening, inodes) /\ Apart(g, host[t])
  BY DEF PathInv, Apart
<1>2. /\ file \in [SockPaths -> Nat] /\ inodes \in Nat /\ listening \subseteq 1 .. inodes
  BY DEF PathInv
<1> QED
  BY <1>1, <1>2, PathKept

\* The invariant of the sockets holds of every state.
LEMMA PathInvariant == ASSUME ~Simultaneous PROVE PathSpec => []PathInv
<1>1. PathInit => PathInv
  <2> SUFFICES ASSUME PathInit PROVE PathInv
    OBVIOUS
  <2>1. NoHost \in HostType /\ HasSocket(NoHost, file, {}, 0) /\ Apart(NoHost, NoHost)
    BY DEF NoHost, HostType, HasSocket, Apart, Opening
  <2>2. NoHost.at = "down"
    BY DEF NoHost
  <2> QED
    BY <2>1, <2>2 DEF PathInit, PathInv, Working
<1>2. PathInv /\ [PathNext]_pathVars => PathInv'
  <2> SUFFICES ASSUME PathInv, [PathNext]_pathVars PROVE PathInv'
    OBVIOUS
  <2>1. CASE UNCHANGED pathVars
    BY <2>1 DEF pathVars, PathInv, Working
  <2>2. ASSUME NEW s \in Hosts,
               \/ Check(s) \/ Compare(s) \/ Remove(s) \/ Bind(s) \/ Listen(s) \/ Close(s)
               \/ Unlink(s) \/ StopHost(s) \/ Crash(s)
               \/ \E want \in SockPaths \cup {Default, Off} :
                     ControlOpen(s, want) \/ ControlReopen(s, want)
        PROVE  PathInv'
    <3> DEFINE h == host[s]
               at == PathOf(h.want)
    <3>0. /\ h \in HostType /\ HasSocket(h, file, listening, inodes)
          /\ file \in [SockPaths -> Nat] /\ inodes \in Nat /\ listening \subseteq 1 .. inodes
          /\ host \in [Hosts -> HostType]
      BY DEF PathInv
    <3>1. h.at \in Opening => at \in SockPaths
      BY <3>0, PathAssumption DEF HasSocket, HostType, PathOf
    <3>2. h.at \notin {"down", "up"} => \A t \in Hosts \ {s} : ~Working(t)
      BY DEF PathInv, Working
    <3>3. MayWork(s) => \A t \in Hosts \ {s} : ~Working(t)
      BY DEF MayWork
    <3>4. \A t \in Hosts \ {s} : Apart(h, host[t])
      BY DEF PathInv
    <3>5. ASSUME NEW want \in SockPaths \cup {Default, Off}, ControlOpen(s, want) PROVE PathInv'
      <4> DEFINE g == [NoHost EXCEPT !.at = IF want = Off THEN "up" ELSE "check",
                                     !.spec = want, !.ok = (want = Off), !.want = want]
      <4>1. /\ host' = [host EXCEPT ![s] = g] /\ UNCHANGED <<file, listening, inodes>>
            /\ MayWork(s)
        BY <3>5 DEF ControlOpen
      <4>2. g \in HostType /\ HasSocket(g, file, listening, inodes) /\ g.fd = 0 /\ g.new = 0
        BY DEF NoHost, HostType, HasSocket, Opening
      <4> HIDE DEF g
      <4>3. \A t \in Hosts \ {s} : HasSocket(host[t], file, listening, inodes) /\ Apart(g, host[t])
        BY <4>2 DEF PathInv, Apart
      <4> QED
        BY <3>0, <3>3, <4>1, <4>2, <4>3, PathKept
    <3>6. ASSUME NEW want \in SockPaths \cup {Default, Off}, ControlReopen(s, want) PROVE PathInv'
      <4> DEFINE g == [h EXCEPT !.at = IF want = Off THEN "off" ELSE "check", !.want = want]
      <4>1. /\ host' = [host EXCEPT ![s] = g] /\ UNCHANGED <<file, listening, inodes>>
            /\ MayWork(s) /\ h.at = "up"
        BY <3>0, <3>6 DEF ControlReopen
      <4>2. g \in HostType /\ HasSocket(g, file, listening, inodes) /\ g.fd = h.fd /\ g.new = h.new
        BY <3>0, <4>1 DEF HostType, HasSocket, Opening
      <4> HIDE DEF g
      <4> QED
        BY <3>3, <4>1, <4>2, SameSockets
    <3>7. ASSUME Check(s) PROVE PathInv'
      <4> DEFINE ino == IF file[at] \in listening THEN 0 ELSE file[at]
                 g == [h EXCEPT !.at = "compare", !.stale = ino]
                 u == [h EXCEPT !.at = "up"]
      <4>1. /\ host' = [host EXCEPT ![s] = g] \/ host' = [host EXCEPT ![s] = u]
            /\ UNCHANGED <<file, listening, inodes>> /\ h.at = "check"
        BY <3>0, <3>7 DEF Check
      <4>0. ino \in Nat /\ ino \notin listening
        BY <3>0, <3>1, <4>1 DEF Opening
      <4> HIDE DEF ino
      <4>2. g \in HostType /\ HasSocket(g, file, listening, inodes) /\ g.fd = h.fd /\ g.new = h.new
        BY <3>0, <4>0, <4>1 DEF HostType, HasSocket, Opening
      <4>3. u \in HostType /\ HasSocket(u, file, listening, inodes) /\ u.fd = h.fd /\ u.new = h.new
        BY <3>0, <4>1 DEF HostType, HasSocket, Opening
      <4> HIDE DEF g, u
      <4> QED
        BY <3>2, <4>1, <4>2, <4>3, SameSockets
    <3>8. ASSUME Compare(s) PROVE PathInv'
      <4> DEFINE g == [h EXCEPT !.at = IF h.stale # 0 /\ file[at] = h.stale
                                       THEN "remove" ELSE "bind"]
      <4>1. /\ host' = [host EXCEPT ![s] = g] /\ UNCHANGED <<file, listening, inodes>>
            /\ h.at = "compare"
        BY <3>8 DEF Compare, Proceed
      <4>2. g \in HostType /\ HasSocket(g, file, listening, inodes) /\ g.fd = h.fd /\ g.new = h.new
        BY <3>0, <4>1 DEF HostType, HasSocket, Opening
      <4> HIDE DEF g
      <4> QED
        BY <3>2, <4>1, <4>2, SameSockets
    <3>9. ASSUME Remove(s) PROVE PathInv'
      <4> DEFINE g == [h EXCEPT !.at = "bind"]
                 f == [file EXCEPT ![at] = 0]
      <4>1. /\ host' = [host EXCEPT ![s] = g] /\ file' = f /\ UNCHANGED <<listening, inodes>>
            /\ h.at = "remove"
        BY <3>9 DEF Remove, Proceed
      <4>2. /\ f \in [SockPaths -> Nat] /\ f[at] = 0
            /\ \A p \in SockPaths : p # at => f[p] = file[p]
        BY <3>0, <3>1, <4>1 DEF Opening
      <4>3. file[at] \notin listening
        BY <3>0, <4>1 DEF HasSocket
      <4>4. g \in HostType /\ HasSocket(g, f, listening, inodes) /\ g.fd = h.fd /\ g.new = h.new
        BY <3>0, <4>1, <4>2, <4>3 DEF HostType, HasSocket, Opening
      <4> HIDE DEF g, f
      <4>5. \A t \in Hosts \ {s} : HasSocket(host[t], f, listening, inodes)
        BY <3>0, <3>2, <4>1, <4>2, <4>3, OthersHave
      <4>6. \A t \in Hosts \ {s} : Apart(g, host[t])
        BY <3>4, <4>4 DEF Apart
      <4> QED
        BY <3>0, <3>2, <4>1, <4>2, <4>4, <4>5, <4>6, PathKept
    <3>10. ASSUME Bind(s) PROVE PathInv'
      <4>1. CASE Proceed(s, "up") /\ UNCHANGED <<file, inodes>>
        <5> DEFINE g == [h EXCEPT !.at = "up"]
        <5>1. /\ host' = [host EXCEPT ![s] = g] /\ UNCHANGED <<file, listening, inodes>>
              /\ h.at = "bind"
          BY <3>10, <4>1 DEF Bind, Proceed
        <5>2. g \in HostType /\ HasSocket(g, file, listening, inodes) /\ g.fd = h.fd /\ g.new = h.new
              /\ g.at = "up"
          BY <3>0, <5>1 DEF HostType, HasSocket, Opening
        <5> HIDE DEF g
        <5> QED
          BY <5>1, <5>2, SameSockets
      <4>2. CASE ~(Proceed(s, "up") /\ UNCHANGED <<file, inodes>>)
        <5> DEFINE n == inodes + 1
                   g == [h EXCEPT !.at = "listen", !.new = n]
                   f == [file EXCEPT ![at] = n]
        <5>1. /\ host' = [host EXCEPT ![s] = g] /\ file' = f /\ UNCHANGED listening
              /\ inodes' = n /\ h.at = "bind" /\ file[at] = 0
          BY <3>0, <3>10, <4>2 DEF Bind
        <5>2. /\ f \in [SockPaths -> Nat] /\ f[at] = n
              /\ \A p \in SockPaths : p # at => f[p] = file[p]
          BY <3>0, <3>1, <5>1 DEF Opening
        <5>3. /\ n \in Nat /\ inodes <= n /\ n # 0 /\ ~(n <= inodes)
              /\ listening \subseteq 1 .. n /\ n \notin listening
          BY <3>0
        <5>4. /\ g \in HostType /\ g.fd = h.fd /\ g.new = n /\ g.at = "listen"
              /\ g.path = h.path /\ g.had = h.had /\ g.closed = h.closed /\ g.want = h.want
          BY <3>0, <5>3 DEF HostType
        <5> HIDE DEF n
        <5>5. h.fd <= inodes /\ \A t \in Hosts : host[t].fd <= inodes /\ host[t].new <= inodes
          BY <3>0 DEF PathInv, HasSocket, HostType
        <5> HIDE DEF g, f
        <5>6. HasSocket(g, f, listening, n)
          BY <3>0, <3>1, <5>1, <5>2, <5>3, <5>4, <5>5 DEF HostType, HasSocket, Opening
        <5>7. \A t \in Hosts \ {s} : HasSocket(host[t], f, listening, n)
          BY <3>0, <3>2, <5>1, <5>2, <5>3, OthersHave
        <5>8. \A t \in Hosts \ {s} : Apart(g, host[t])
          BY <3>4, <5>3, <5>4, <5>5 DEF Apart
        <5> QED
          BY <3>0, <3>2, <5>1, <5>2, <5>3, <5>4, <5>6, <5>7, <5>8, PathKept
      <4> QED
        BY <4>1, <4>2
    <3>11. ASSUME Listen(s) PROVE PathInv'
      <4>0. h.at = "listen" /\ UNCHANGED inodes
        BY <3>11 DEF Listen
      <4>1. CASE listening' = listening \cup {h.new} /\ Proceed(s, "close") /\ UNCHANGED file
        <5> DEFINE g == [h EXCEPT !.at = "close"]
                   l == listening \cup {h.new}
        <5>1. host' = [host EXCEPT ![s] = g] /\ listening' = l /\ UNCHANGED <<file, inodes>>
          BY <4>0, <4>1 DEF Proceed
        <5>2. /\ g \in HostType /\ g.fd = h.fd /\ g.new = h.new /\ l \subseteq 1 .. inodes
              /\ HasSocket(g, file, l, inodes)
          BY <3>0, <4>0 DEF HostType, HasSocket, Opening
        <5>3. listening \ {h.fd, h.new} \subseteq l
          OBVIOUS
        <5> HIDE DEF g, l
        <5>4. \A t \in Hosts \ {s} : HasSocket(host[t], file, l, inodes)
          BY <3>0, <3>2, <4>0, <5>3, OthersHave
        <5>5. \A t \in Hosts \ {s} : Apart(g, host[t])
          BY <3>4, <5>2 DEF Apart
        <5> QED
          BY ZenonT(40), <3>0, <3>2, <4>0, <5>1, <5>2, <5>4, <5>5, PathKept
      <4>2. CASE /\ host' = [host EXCEPT ![s].at = "up", ![s].new = 0]
                 /\ file' = [file EXCEPT ![at] = 0] /\ UNCHANGED listening
        <5> DEFINE g == [h EXCEPT !.at = "up", !.new = 0]
                   f == [file EXCEPT ![at] = 0]
        <5>1. /\ host' = [host EXCEPT ![s] = g] /\ file' = f /\ UNCHANGED <<listening, inodes>>
          BY <3>0, <4>0, <4>2
        <5>2. /\ f \in [SockPaths -> Nat] /\ f[at] = 0
              /\ \A p \in SockPaths : p # at => f[p] = file[p]
          BY <3>0, <3>1, <4>0 DEF Opening
        <5>3. file[at] \notin listening /\ file[at] # h.fd
          BY <3>0, <4>0 DEF HasSocket
        <5>4. /\ g \in HostType /\ g.fd = h.fd /\ g.new = 0 /\ g.at = "up"
              /\ HasSocket(g, f, listening, inodes)
          BY <3>0, <4>0, <5>2, <5>3 DEF HostType, HasSocket, Opening
        <5> HIDE DEF g, f
        <5>5. \A t \in Hosts \ {s} : HasSocket(host[t], f, listening, inodes)
          BY <3>0, <3>2, <4>0, <5>2, <5>3, OthersHave
        <5>6. \A t \in Hosts \ {s} : Apart(g, host[t])
          BY <3>4, <5>4 DEF Apart
        <5> QED
          BY <3>0, <5>1, <5>2, <5>4, <5>5, <5>6, PathKept
      <4> QED
        BY <3>11, <4>1, <4>2 DEF Listen
    <3>12. ASSUME Close(s) PROVE PathInv'
      <4> DEFINE g == [h EXCEPT !.closed = TRUE]
                 l == listening \ {h.fd}
      <4>1. /\ host' = [host EXCEPT ![s] = g] /\ listening' = l /\ UNCHANGED <<file, inodes>>
            /\ h.at \in {"close", "off", "stop"}
        BY <3>12 DEF Close
      <4>2. /\ g \in HostType /\ g.fd = h.fd /\ g.new = h.new /\ g.at = h.at
            /\ l \subseteq 1 .. inodes
            /\ listening \ {h.fd, h.new} \subseteq l /\ l \subseteq listening
        BY <3>0 DEF HostType
      <4>3. HasSocket(g, file, l, inodes)
        BY <3>0, <4>1 DEF HostType, HasSocket, Opening
      <4> HIDE DEF g, l
      <4>4. ASSUME NEW t \in Hosts \ {s} PROVE HasSocket(host[t], file, l, inodes)
        <5>1. inodes \in Nat /\ inodes <= inodes
          BY <3>0
        <5> QED
          BY <4>2, <5>1, OthersHave
      <4>5. \A t \in Hosts \ {s} : Apart(g, host[t])
        BY <3>4, <4>2 DEF Apart
      <4> QED
        BY <3>0, <3>2, <4>1, <4>2, <4>3, <4>4, <4>5, PathKept
    <3>13. ASSUME Unlink(s) PROVE PathInv'
      <4> DEFINE f == IF h.fd # 0 THEN [file EXCEPT ![h.path] = 0] ELSE file
                 g == CASE h.at = "close" -> [NoHost EXCEPT !.at = "up", !.fd = h.new, !.had = TRUE,
                                   !.path = PathOf(h.want), !.spec = h.want, !.ok = TRUE]
                        [] h.at = "off"   -> [NoHost EXCEPT !.at = "up", !.spec = Off, !.ok = TRUE]
                        [] h.at = "stop"  -> NoHost
      <4>1. /\ host' = [host EXCEPT ![s] = g] /\ file' = f /\ UNCHANGED <<listening, inodes>>
            /\ h.closed /\ h.at \in {"close", "off", "stop"}
        BY <3>0, <3>13 DEF Unlink, HasSocket
      <4>2. /\ f \in [SockPaths -> Nat]
            /\ \A p \in SockPaths : f[p] # file[p] => file[p] = h.fd /\ h.fd # 0
        BY <3>0 DEF HasSocket
      <4>3. CASE h.at = "close"
        <5>1. g = [NoHost EXCEPT !.at = "up", !.fd = h.new, !.had = TRUE,
                                 !.path = at, !.spec = h.want, !.ok = TRUE]
          BY <4>3
        <5>2. /\ g.at = "up" /\ g.fd = h.new /\ g.new = 0 /\ g.had /\ g.path = at /\ ~g.closed
              /\ g \in HostType
          BY <3>0, <3>1, <4>3, <5>1 DEF NoHost, HostType, Opening
        <5>3. file[at] = h.new /\ h.new # h.fd /\ h.new # 0 /\ h.new \in listening
              /\ h.new <= inodes /\ at \in SockPaths
          BY <3>0, <3>1, <4>3 DEF HasSocket, Opening
        <5> HIDE DEF g, f
        <5>4. f[at] = h.new
          BY <4>2, <5>3
        <5>5. HasSocket(g, f, listening, inodes)
          BY <5>2, <5>3, <5>4 DEF HasSocket, Opening
        <5>6. \A t \in Hosts \ {s} : HasSocket(host[t], f, listening, inodes)
          BY <3>0, <3>2, <4>2, <4>3, OthersHave
        <5>7. \A t \in Hosts \ {s} : Apart(g, host[t])
          BY <3>4, <5>2 DEF Apart
        <5> QED
          BY <3>0, <4>1, <4>2, <5>2, <5>5, <5>6, <5>7, PathKept
      <4>4. CASE h.at \in {"off", "stop"}
        <5>1. g = [NoHost EXCEPT !.at = "up", !.spec = Off, !.ok = TRUE] \/ g = NoHost
          BY <4>4
        <5>2. /\ g.at \in {"down", "up"} /\ g.fd = 0 /\ g.new = 0 /\ g \in HostType
              /\ HasSocket(g, f, listening, inodes)
          <6> HIDE DEF f, g
          <6>0. NoHost \in HostType /\ NoHost.at = "down" /\ NoHost.fd = 0 /\ NoHost.new = 0
                /\ ~NoHost.had /\ ~NoHost.closed
            BY DEF NoHost, HostType
          <6>1. /\ g.at \in {"down", "up"} /\ g.fd = 0 /\ g.new = 0 /\ g \in HostType
                /\ ~g.had /\ ~g.closed
            BY <5>1, <6>0 DEF HostType
          <6> QED
            BY <6>1 DEF HasSocket, Opening
        <5> HIDE DEF g, f
        <5>3. \A t \in Hosts \ {s} : HasSocket(host[t], f, listening, inodes)
          BY <3>0, <3>2, <4>2, <4>4, OthersHave
        <5>4. \A t \in Hosts \ {s} : Apart(g, host[t])
          BY <5>2 DEF Apart
        <5> QED
          BY <3>0, <4>1, <4>2, <5>2, <5>3, <5>4, PathKept
      <4> QED
        BY <4>1, <4>3, <4>4
    <3>14. ASSUME StopHost(s) PROVE PathInv'
      <4> DEFINE g == [h EXCEPT !.at = "stop"]
      <4>1. /\ host' = [host EXCEPT ![s] = g] /\ UNCHANGED <<file, listening, inodes>>
            /\ MayWork(s) /\ h.at = "up"
        BY <3>14 DEF StopHost, Proceed
      <4>2. g \in HostType /\ HasSocket(g, file, listening, inodes) /\ g.fd = h.fd /\ g.new = h.new
        BY <3>0, <4>1 DEF HostType, HasSocket, Opening
      <4> HIDE DEF g
      <4> QED
        BY <3>3, <4>1, <4>2, SameSockets
    <3>15. ASSUME Crash(s) PROVE PathInv'
      <4> DEFINE l == listening \ {h.fd, h.new}
      <4>1. /\ host' = [host EXCEPT ![s] = NoHost] /\ listening' = l /\ UNCHANGED <<file, inodes>>
        BY <3>15 DEF Crash
      <4>2. /\ NoHost \in HostType /\ NoHost.fd = 0 /\ NoHost.new = 0 /\ NoHost.at = "down"
            /\ HasSocket(NoHost, file, l, inodes)
        BY DEF NoHost, HostType, HasSocket, Opening
      <4>3. l \subseteq 1 .. inodes /\ l \subseteq listening /\ listening \ {h.fd, h.new} \subseteq l
        BY <3>0
      <4> HIDE DEF l
      <4>4. ASSUME NEW t \in Hosts \ {s} PROVE HasSocket(host[t], file, l, inodes)
        <5>1. inodes \in Nat /\ inodes <= inodes
          BY <3>0
        <5> QED
          BY <4>3, <5>1, OthersHave
      <4>5. \A t \in Hosts \ {s} : Apart(NoHost, host[t])
        BY <4>2 DEF Apart
      <4> QED
        BY <3>0, <4>1, <4>2, <4>3, <4>4, <4>5, PathKept
    <3> QED
      BY <2>2, <3>5, <3>6, <3>7, <3>8, <3>9, <3>10, <3>11, <3>12, <3>13, <3>14, <3>15
  <2> QED
    BY <2>1, <2>2 DEF PathNext
<1> QED
  BY <1>1, <1>2, PTL DEF PathSpec

\* Servers that open and close their sockets one after the other: each that
\* has had a control socket keeps one that can be reached, through reloads
\* that fail half-way, crashes of others and paths that are another's.
THEOREM SocketKept == ASSUME ~Simultaneous PROVE PathSpec => []SocketReachable
<1>1. PathInv => SocketReachable
  BY DEF PathInv, HasSocket, SocketReachable
<1> QED
  BY <1>1, PathInvariant, PTL

\* ... and none removes a socket but the stale one it checked, or one that is
\* gone: with two at a time the comment of control_listen() fails.
THEOREM ChecksHold == ASSUME ~Simultaneous PROVE PathSpec => []RemovesChecked
<1>1. PathInv => RemovesChecked
  BY DEF PathInv, HasSocket, RemovesChecked
<1> QED
  BY <1>1, PathInvariant, PTL

----------------------------------------------------------------------------
(***************************************************************************)
(* A follower does not spin, for any number of servers, of events and of   *)
(* seconds.                                                                *)
(*                                                                         *)
(* What can end a wait early is an answer, a connection that closes, a     *)
(* socket that is new or gone.  While the servers rest, the invariant says *)
(* what that means for the token: a wait is over early only with a server  *)
(* that is not in the token as it was, and until then one has not answered *)
(* (an answer that says nothing new comes when Spare seconds are left).    *)
(***************************************************************************)

Answers == Prints \cup {NoPrint}
WaiterType ==
    [st : {"unlisted", "unasked", "open", "answered", "gone"}, old : Answers, file : Nat,
     until : Nat, reply : Answers, closed : BOOLEAN, now : Answers]
RunType ==
    [at : {"sync", "gather", "start", "ask", "alone", "wait", "print"}, snapshot : BOOLEAN,
     todo : SUBSET Paths, left : Nat, secs : Nat, changed : BOOLEAN, quiet : BOOLEAN]
WaitTypes ==
    /\ servers \in [Paths -> [up : BOOLEAN, print : Prints, file : Nat]]
    /\ token \in [Paths -> Answers] /\ asked \in [Paths -> WaiterType] /\ run \in RunType
    /\ events \in Nat

\* Nothing has happened in a wait with a token
Resting ==
    /\ run.at \in {"ask", "alone", "wait", "print"}
    /\ run.quiet /\ ~run.snapshot

\* The token will be another; the time for an answer is up
Renewed == \E p \in Paths : Printed(p) # token[p]
Late == run.left <= Spare

\* What is known of a server that rests: its socket is listed as it was, and
\* what it answers early is new
Awaited(p) ==
    LET a == asked[p] IN
    /\ a.st = "unlisted" <=> servers[p].file = 0
    /\ a.st # "unlisted" => a.file = servers[p].file /\ a.old = token[p]
    /\ ~a.closed
    /\ a.reply # NoPrint => a.reply # a.old \/ Late
    /\ a.st \in {"unasked", "open"} => a.now = NoPrint
    /\ a.st = "open" => a.old = NoPrint \/ run.left <= a.until + Spare

Waiting ==
    /\ \A p \in Paths : Awaited(p)
    /\ run.left <= run.secs + Spare
    /\ run.at = "ask" => \A p \in run.todo : asked[p].st = "unasked"
    /\ run.changed => Late \/ Renewed
    /\ run.at = "wait" /\ ~run.changed => Late \/ Opened # {}
    /\ run.at = "print" => Late \/ Renewed

WaitInv == Resting => Waiting

----------------------------------------------------------------------------
\* The assumptions
LEMMA NoPrintIsNone == NoPrint \notin Prints /\ WaitSecs \in Nat /\ Spare \in Nat /\ Paths \subseteq Nat
BY WaitAssumption

\* A fingerprint
LEMMA SomePrint == (CHOOSE h \in Prints : TRUE) \in Prints
BY WaitAssumption

\* An entry that is not asked yet, and a follower between two waits
LEMMA Entries ==
    /\ NotAsked \in WaiterType
    /\ \A b \in BOOLEAN : Idle(b) \in RunType
BY DEF NotAsked, WaiterType, Idle, RunType, Answers

\* The first state
LEMMA WaitStarts == WaitInit => WaitTypes /\ WaitInv
<1> SUFFICES ASSUME WaitInit PROVE WaitTypes /\ WaitInv
  OBVIOUS
<1>1. run = Idle(TRUE) /\ asked = [p \in Paths |-> NotAsked] /\ events = 0
      /\ token = [p \in Paths |-> NoPrint]
  BY DEF WaitInit
<1>2. run \in RunType /\ asked \in [Paths -> WaiterType] /\ token \in [Paths -> Answers]
  BY <1>1, Entries DEF Answers
<1>3. servers \in [Paths -> [up : BOOLEAN, print : Prints, file : Nat]]
  <2> SUFFICES ASSUME NEW p \in Paths
               PROVE  servers[p] \in [up : BOOLEAN, print : Prints, file : Nat]
    BY DEF WaitInit
  <2>1. servers[p] \in {[up |-> TRUE, print |-> h, file |-> 1] : h \in Prints}
                          \cup {Down(0), Down(1)}
    BY DEF WaitInit
  <2>2. \A f \in {0, 1} : Down(f) \in [up : BOOLEAN, print : Prints, file : Nat]
    BY SomePrint DEF Down
  <2>3. \A h \in Prints : [up |-> TRUE, print |-> h, file |-> 1]
                              \in [up : BOOLEAN, print : Prints, file : Nat]
    OBVIOUS
  <2> QED
    BY <2>1, <2>2, <2>3
<1>4. ~Resting
  BY <1>1 DEF Resting, Idle
<1> QED
  BY <1>1, <1>2, <1>3, <1>4 DEF WaitTypes, WaitInv

\* The types stay what they are through the follower's steps that only go on,
LEMMA GoesOnTyped ==
    ASSUME WaitTypes, StartSync \/ Gather \/ AllAsked \/ Alone \/ SeesNew \/ WaitOver
    PROVE  run' \in RunType /\ asked' = asked /\ token' = token
<1>1. run \in RunType /\ Listed \subseteq Paths
  BY DEF WaitTypes, Listed
<1>2. Idle(TRUE) \in RunType /\ Idle(FALSE) \in RunType
  BY Entries
<1>3. CASE StartSync
  BY <1>1, <1>3 DEF StartSync, RunType
<1>4. CASE Gather
  BY <1>1, <1>2, <1>4 DEF Gather, RunType
<1>5. CASE AllAsked
  BY <1>1, <1>5 DEF AllAsked, RunType
<1>6. CASE Alone
  BY <1>1, <1>2, <1>6 DEF Alone, RunType
<1>7. CASE SeesNew \/ WaitOver
  BY <1>1, <1>7 DEF SeesNew, WaitOver, RunType
<1> QED
  BY <1>3, <1>4, <1>5, <1>6, <1>7

\* ... a wait that starts or ends,
LEMMA StartTyped ==
    ASSUME WaitTypes, Start
    PROVE  run' \in RunType /\ asked' \in [Paths -> WaiterType] /\ token' = token
<1>1. /\ run \in RunType /\ Listed \subseteq Paths /\ token \in [Paths -> Answers]
      /\ servers \in [Paths -> [up : BOOLEAN, print : Prints, file : Nat]]
  BY DEF WaitTypes, Listed
<1>2. /\ TokenLost \in BOOLEAN /\ (IF TokenLost THEN 0 ELSE WaitSecs) \in Nat
      /\ (IF TokenLost THEN 0 ELSE WaitSecs) + Spare \in Nat
  BY NoPrintIsNone DEF TokenLost
<1>3. run' \in RunType
  BY <1>1, <1>2 DEF Start, RunType
<1>4. ASSUME NEW p \in Paths PROVE InToken(p) \in Answers /\ servers[p].file \in Nat
  BY <1>1 DEF InToken, Answers
<1>5. asked' \in [Paths -> WaiterType]
  BY <1>4, Entries DEF Start, WaiterType, NotAsked
<1> QED
  BY <1>3, <1>5 DEF Start

\* ... the new token,
LEMMA PrintTyped ==
    ASSUME WaitTypes, PrintToken
    PROVE  run' \in RunType /\ asked' \in [Paths -> WaiterType] /\ token' \in [Paths -> Answers]
<1>1. ASSUME NEW p \in Paths PROVE Printed(p) \in Answers
  BY DEF Printed, WaitTypes, WaiterType, Answers
<1>2. Idle(FALSE) \in RunType
  BY Entries
<1> QED
  BY <1>1, <1>2, Entries DEF PrintToken, RunType

\* ... the connections,
LEMMA AskTyped ==
    ASSUME WaitTypes, NEW p \in Paths, Ask(p) \/ Read(p)
    PROVE  run' \in RunType /\ asked' \in [Paths -> WaiterType] /\ token' = token
<1>1. run \in RunType /\ asked \in [Paths -> WaiterType] /\ asked[p] \in WaiterType
  BY DEF WaitTypes
<1>2. CASE Ask(p)
  <2>1. CASE /\ asked' = [asked EXCEPT ![p].st = "open",
                              ![p].until = IF asked[p].old = NoPrint THEN 0 ELSE run.secs]
             /\ run' = [run EXCEPT !.todo = @ \ {p}]
    BY <1>1, <1>2, <2>1 DEF Ask, RunType, WaiterType
  <2>2. CASE Gone(p)
    BY <1>1, <1>2, <2>2 DEF Ask, Gone, RunType, WaiterType
  <2>3. CASE run' = [run EXCEPT !.todo = @ \ {p}] /\ UNCHANGED asked
    BY <1>1, <1>2, <2>3 DEF Ask, RunType
  <2>4. ASSUME run.left > 0, NEW left \in {run.left, run.left - 1},
               run' = [run EXCEPT !.todo = @ \ {p}, !.left = left], UNCHANGED asked
        PROVE  run' \in RunType /\ asked' \in [Paths -> WaiterType] /\ token' = token
    <3>1. left \in Nat
      BY <1>1, <2>4 DEF RunType
    <3> QED
      BY <1>1, <1>2, <2>4, <3>1 DEF Ask, RunType
  <2> QED
    BY <1>2, <2>1, <2>2, <2>3, <2>4 DEF Ask
<1>3. CASE Read(p)
  <2>1. CASE /\ asked[p].reply # NoPrint
             /\ asked' = [asked EXCEPT ![p].st = "answered", ![p].now = asked[p].reply]
             /\ run' = [run EXCEPT !.changed = @ \/ asked[p].reply # asked[p].old]
    <3>1. (run.changed \/ asked[p].reply # asked[p].old) \in BOOLEAN
      BY <1>1 DEF RunType
    <3>2. run' \in RunType
      BY <1>1, <2>1, <3>1 DEF RunType
    <3>3. asked' \in [Paths -> WaiterType]
      BY <1>1, <2>1 DEF WaiterType
    <3> QED
      BY <1>3, <3>2, <3>3 DEF Read
  <2>2. CASE asked' = [asked EXCEPT ![p].st = "gone"] /\ run' = [run EXCEPT !.changed = TRUE]
    BY <1>1, <1>3, <2>2 DEF Read, RunType, WaiterType
  <2> QED
    BY <1>3, <2>1, <2>2 DEF Read
<1> QED
  BY <1>2, <1>3

\* ... the clock,
LEMMA TickTyped ==
    ASSUME WaitTypes, Tick
    PROVE  run' \in RunType /\ asked' \in [Paths -> WaiterType] /\ token' = token
<1>1. run \in RunType /\ asked \in [Paths -> WaiterType]
  BY DEF WaitTypes
<1>2. run.left \in Nat /\ run.left - 1 \in Nat
  BY <1>1, NoPrintIsNone DEF Tick, RunType
<1>3. run' \in RunType
  BY <1>1, <1>2 DEF Tick, RunType
<1>4. ASSUME NEW p \in Paths
      PROVE  [asked[p] EXCEPT !.until = IF @ > 0 THEN @ - 1 ELSE 0] \in WaiterType
  <2>1. asked[p] \in WaiterType /\ asked[p].until \in Nat
    BY <1>1 DEF WaiterType
  <2>2. (IF asked[p].until > 0 THEN asked[p].until - 1 ELSE 0) \in Nat
    BY <2>1
  <2> QED
    BY <2>1, <2>2 DEF WaiterType
<1> QED
  BY <1>3, <1>4 DEF Tick

\* ... and the servers.
LEMMA ServerStepTyped ==
    ASSUME WaitTypes, NEW p \in Paths,
           Answer(p) \/ Drop(p) \/ ChangeServer(p) \/ Stop(p) \/ StartServer(p)
    PROVE  WaitTypes'
<1>1. /\ servers \in [Paths -> [up : BOOLEAN, print : Prints, file : Nat]]
      /\ servers[p] \in [up : BOOLEAN, print : Prints, file : Nat]
      /\ token \in [Paths -> Answers] /\ asked \in [Paths -> WaiterType] /\ run \in RunType
      /\ asked[p] \in WaiterType /\ events \in Nat
  BY DEF WaitTypes
<1>2. CASE Answer(p)
  <2>1. asked' \in [Paths -> WaiterType]
    BY <1>1, <1>2 DEF Answer, WaiterType, Answers
  <2> QED
    BY <1>1, <1>2, <2>1 DEF Answer, WaitTypes
<1>3. CASE Event
  <2>1. run' \in RunType /\ events' \in Nat /\ token' = token
    <3> DEFINE q == run.at \in {"sync", "gather", "start"}
    <3>1. q \in BOOLEAN
      OBVIOUS
    <3>2. run' = [run EXCEPT !.quiet = q] /\ events' = events + 1 /\ token' = token
      BY <1>3 DEF Event
    <3> HIDE DEF q
    <3> QED
      BY <1>1, <3>1, <3>2 DEF RunType
  <2>2. CASE Drop(p)
    <3>1. asked' \in [Paths -> WaiterType]
      BY <1>1, <2>2 DEF Drop, WaiterType
    <3> QED
      BY <1>1, <2>1, <2>2, <3>1 DEF Drop, WaitTypes
  <2>3. CASE ChangeServer(p)
    <3>1. servers' \in [Paths -> [up : BOOLEAN, print : Prints, file : Nat]]
      BY <1>1, <2>3 DEF ChangeServer
    <3> QED
      BY <1>1, <2>1, <2>3, <3>1 DEF ChangeServer, WaitTypes
  <2>4. CASE Stop(p)
    <3>1. PICK f \in {0, servers[p].file} : servers' = [servers EXCEPT ![p] = Down(f)]
      BY <2>4 DEF Stop
    <3>2. Down(f) \in [up : BOOLEAN, print : Prints, file : Nat]
      BY <1>1, SomePrint DEF Down
    <3>3. servers' \in [Paths -> [up : BOOLEAN, print : Prints, file : Nat]]
      BY <1>1, <3>1, <3>2
    <3>4. asked' \in [Paths -> WaiterType]
      BY <1>1, <2>4 DEF Stop, WaiterType
    <3> QED
      BY <2>1, <3>3, <3>4, <1>1 DEF WaitTypes
  <2>5. CASE StartServer(p)
    <3>1. servers' \in [Paths -> [up : BOOLEAN, print : Prints, file : Nat]]
      BY <1>1, <2>5 DEF StartServer
    <3> QED
      BY <1>1, <2>1, <2>5, <3>1 DEF StartServer, WaitTypes
  <2> QED
    BY <1>2, <2>2, <2>3, <2>4, <2>5
<1> QED
  BY <1>2, <1>3 DEF Drop, ChangeServer, Stop, StartServer

\* Every step
LEMMA WaitTyped == ASSUME WaitTypes, WaitNext PROVE WaitTypes'
<1>1. CASE FollowerStep
  <2>1. UNCHANGED <<servers, events>>
    BY <1>1 DEF FollowerStep
  <2>2. run' \in RunType /\ asked' \in [Paths -> WaiterType] /\ token' \in [Paths -> Answers]
    BY <1>1, GoesOnTyped, StartTyped, PrintTyped, AskTyped DEF FollowerStep, WaitTypes
  <2> QED
    BY <2>1, <2>2 DEF WaitTypes
<1>2. CASE AskStep
  <2>1. UNCHANGED <<servers, events>>
    BY <1>2 DEF AskStep
  <2>2. run' \in RunType /\ asked' \in [Paths -> WaiterType] /\ token' = token
    BY <1>2, AskTyped DEF AskStep
  <2> QED
    BY <2>1, <2>2 DEF WaitTypes
<1>3. CASE Tick
  BY <1>3, TickTyped DEF Tick, WaitTypes
<1> QED
  BY <1>1, <1>2, <1>3, ServerStepTyped DEF WaitNext

----------------------------------------------------------------------------
\* While the servers rest no socket is new.
LEMMA NoNewSocket == ASSUME WaitTypes, Waiting PROVE ~NewSocket
BY DEF Waiting, Awaited, NewSocket, Listed

\* A server not asked, or not answered yet, is in the new token as in the old.
LEMMA NotYet ==
    ASSUME NEW p \in Paths, Awaited(p), asked[p].st \in {"unasked", "open"}
    PROVE  Printed(p) = token[p]
BY DEF Awaited, Printed

\* A step that turns one server's entry keeps what the others make new.
LEMMA OneTurns ==
    ASSUME WaitTypes, Waiting, UNCHANGED <<servers, token>>, run'.left \in Nat,
           run'.left <= run.left, NEW q \in Paths, asked[q].st \in {"unasked", "open"},
           \A p \in Paths \ {q} : asked'[p] = asked[p], Awaited(q)'
    PROVE  (\A p \in Paths : Awaited(p)') /\ (Renewed => Renewed') /\ (Late => Late')
<1>1. run.left \in Nat /\ Spare \in Nat /\ \A p \in Paths : asked[p].until \in Nat
  BY NoPrintIsNone DEF WaitTypes, RunType, WaiterType
<1>2. Late => Late'
  BY <1>1 DEF Late
<1>3. ASSUME NEW p \in Paths PROVE Awaited(p)'
  <2>1. CASE p # q
    <3>1. Awaited(p) /\ asked'[p] = asked[p] /\ servers' = servers /\ token' = token
      BY <2>1 DEF Waiting
    <3>2. run.left <= asked[p].until + Spare => run'.left <= asked[p].until + Spare
      BY <1>1
    <3> QED
      BY <1>2, <3>1, <3>2 DEF Awaited
  <2> QED
    BY <2>1
<1>4. ASSUME Renewed PROVE Renewed'
  <2>1. PICK p \in Paths : Printed(p) # token[p]
    BY <1>4 DEF Renewed
  <2>2. p # q
    BY <2>1, NotYet DEF Waiting
  <2>3. asked'[p] = asked[p] /\ token'[p] = token[p]
    BY <2>2
  <2> QED
    BY <2>1, <2>3 DEF Renewed, Printed
<1> QED
  BY <1>2, <1>3, <1>4

\* control_wait() starts: without a server that was in the token it does not
\* wait, so that only Spare is left.
LEMMA StartRests ==
    ASSUME WaitTypes, Start, UNCHANGED servers, Resting' PROVE Waiting'
<1>1. /\ token' = token
      /\ run' = [run EXCEPT !.at = IF Listed # {} THEN "ask"
                                    ELSE IF ~TokenLost /\ ~run.snapshot THEN "alone" ELSE "print",
                            !.todo = Listed, !.changed = TokenLost,
                            !.secs = IF TokenLost THEN 0 ELSE WaitSecs,
                            !.left = (IF TokenLost THEN 0 ELSE WaitSecs) + Spare, !.quiet = TRUE]
  BY DEF Start
<1>2. run'.snapshot = run.snapshot /\ ~run.snapshot
  BY <1>1 DEF Resting, WaitTypes, RunType
<1>3. /\ run'.at \in {"ask", "alone", "print"} /\ (run'.at = "print" => TokenLost)
      /\ run'.todo = Listed /\ run'.changed = TokenLost
      /\ run'.secs = (IF TokenLost THEN 0 ELSE WaitSecs)
      /\ run'.left = (IF TokenLost THEN 0 ELSE WaitSecs) + Spare
  BY <1>1, <1>2 DEF WaitTypes, RunType
<1>4. TokenLost => Late'
  BY <1>3, NoPrintIsNone DEF Late
<1>5. run'.left <= run'.secs + Spare
  BY <1>3, NoPrintIsNone
<1>6. ASSUME NEW p \in Paths
      PROVE  asked'[p] = IF p \notin Listed THEN NotAsked
                         ELSE [NotAsked EXCEPT !.st = "unasked", !.old = token[p],
                                               !.file = servers[p].file]
  BY <1>2 DEF Start, InToken
<1>7. ASSUME NEW p \in Paths PROVE Awaited(p)'
  <2>1. servers'[p].file = servers[p].file /\ token'[p] = token[p]
        /\ (p \in Listed <=> servers[p].file # 0)
    BY <1>1 DEF Listed
  <2>2. CASE p \notin Listed
    <3>1. asked'[p] = NotAsked
      BY <1>6, <2>2
    <3> QED
      BY <2>1, <2>2, <3>1 DEF Awaited, NotAsked
  <2>3. CASE p \in Listed
    <3>1. asked'[p] = [NotAsked EXCEPT !.st = "unasked", !.old = token[p],
                                       !.file = servers[p].file]
      BY <1>6, <2>3
    <3>2. /\ asked'[p].st = "unasked" /\ asked'[p].old = token[p]
          /\ asked'[p].file = servers[p].file /\ asked'[p].closed = FALSE
          /\ asked'[p].reply = NoPrint /\ asked'[p].now = NoPrint
      BY <3>1 DEF NotAsked
    <3> QED
      BY <2>1, <2>3, <3>2 DEF Awaited
  <2> QED
    BY <2>2, <2>3
<1>8. \A p \in run'.todo : asked'[p].st = "unasked"
  BY <1>3, <1>6 DEF NotAsked, Listed
<1> QED
  BY <1>3, <1>4, <1>5, <1>7, <1>8 DEF Waiting

\* control_wait() asks: a server that was in the token and is gone is not in
\* the new one.
LEMMA AskRests ==
    ASSUME WaitTypes, Waiting, NEW p \in Paths, Ask(p), UNCHANGED servers PROVE Waiting'
<1>1. /\ run.at = "ask" /\ p \in run.todo /\ asked[p].st = "unasked" /\ token' = token
      /\ run.left \in Nat /\ run.secs \in Nat /\ Awaited(p)
      /\ run \in RunType /\ asked \in [Paths -> WaiterType] /\ Spare \in Nat
  BY NoPrintIsNone DEF Ask, First, Waiting, WaitTypes, RunType
<1>2. CASE asked' = asked /\ \E left \in {run.left, run.left - 1} :
              run.left > 0 /\ run' = [run EXCEPT !.todo = @ \ {p}, !.left = left]
  <2>1. PICK left \in {run.left, run.left - 1} :
              run.left > 0 /\ run' = [run EXCEPT !.todo = @ \ {p}, !.left = left]
    BY <1>2
  <2>2. /\ run'.at = "ask" /\ run'.todo = run.todo \ {p} /\ run'.left = left
        /\ run'.secs = run.secs /\ run'.changed = run.changed
    BY <1>1, <2>1 DEF RunType
  <2>3. left \in Nat /\ left <= run.left /\ left <= run.secs + Spare
    BY <1>1, <2>1 DEF Waiting
  <2>4. Late => Late'
    BY <1>1, <2>2, <2>3 DEF Late
  <2>5. Awaited(p)'
    BY <1>1, <1>2, <2>4 DEF Awaited
  <2>6. (\A q \in Paths : Awaited(q)') /\ (Renewed => Renewed')
    BY <1>1, <1>2, <2>2, <2>3, <2>5, OneTurns
  <2>7. \A q \in run'.todo : asked'[q].st = "unasked"
    BY <1>1, <1>2, <2>2 DEF Waiting
  <2> QED
    BY <2>2, <2>3, <2>4, <2>6, <2>7 DEF Waiting
<1>3. CASE run.left = 0 /\ run' = [run EXCEPT !.todo = @ \ {p}] /\ UNCHANGED asked
  <2>1. /\ run'.at = "ask" /\ run'.todo = run.todo \ {p} /\ run'.left = run.left
        /\ run'.secs = run.secs /\ run'.changed = run.changed
    BY <1>1, <1>3 DEF RunType
  <2>2. /\ \A q \in Paths : Awaited(q)' = Awaited(q)
        /\ Renewed' = Renewed /\ Late' = Late
    BY <1>1, <1>3, <2>1 DEF Awaited, Renewed, Printed, Late
  <2>3. \A q \in run'.todo : asked'[q].st = "unasked"
    BY <1>1, <1>3, <2>1 DEF Waiting
  <2> QED
    BY <2>1, <2>2, <2>3 DEF Waiting
<1>4. CASE Gone(p)
  <2>1. /\ run'.at = "ask" /\ run'.todo = run.todo \ {p} /\ run'.left = run.left
        /\ run'.secs = run.secs /\ run'.changed = (run.changed \/ asked[p].old # NoPrint)
    BY <1>1, <1>4 DEF Gone, RunType
  <2>2. /\ \A q \in Paths \ {p} : asked'[q] = asked[q]
        /\ asked'[p] = [asked[p] EXCEPT !.st = "gone"]
    BY <1>1, <1>4 DEF Gone
  <2>3. /\ asked'[p].st = "gone" /\ asked'[p].old = asked[p].old /\ asked'[p].file = asked[p].file
        /\ asked'[p].closed = asked[p].closed /\ asked'[p].reply = asked[p].reply
    BY <1>1, <2>2 DEF WaiterType
  <2>4. Awaited(p)'
    BY <1>1, <2>1, <2>3 DEF Awaited, Late
  <2>5. (\A q \in Paths : Awaited(q)') /\ (Renewed => Renewed') /\ (Late => Late')
    BY <1>1, <2>1, <2>2, <2>4, OneTurns
  <2>6. asked[p].old # NoPrint => Renewed'
    BY <1>1, <2>3 DEF Renewed, Printed, Awaited
  <2>7. \A q \in run'.todo : asked'[q].st = "unasked"
    BY <1>1, <2>1, <2>2 DEF Waiting, RunType
  <2> QED
    BY <2>1, <2>5, <2>6, <2>7 DEF Waiting
<1>5. CASE /\ asked' = [asked EXCEPT ![p].st = "open",
                            ![p].until = IF asked[p].old = NoPrint THEN 0 ELSE run.secs]
           /\ run' = [run EXCEPT !.todo = @ \ {p}]
  <2>1. /\ run'.at = "ask" /\ run'.todo = run.todo \ {p} /\ run'.left = run.left
        /\ run'.secs = run.secs /\ run'.changed = run.changed
    BY <1>1, <1>5 DEF RunType
  <2>2. /\ \A q \in Paths \ {p} : asked'[q] = asked[q]
        /\ asked'[p] = [asked[p] EXCEPT !.st = "open",
                            !.until = IF asked[p].old = NoPrint THEN 0 ELSE run.secs]
    BY <1>1, <1>5
  <2>3. /\ asked'[p].st = "open" /\ asked'[p].old = asked[p].old /\ asked'[p].file = asked[p].file
        /\ asked'[p].closed = asked[p].closed /\ asked'[p].reply = asked[p].reply
        /\ asked'[p].now = asked[p].now
        /\ asked'[p].until = IF asked[p].old = NoPrint THEN 0 ELSE run.secs
    BY <1>1, <2>2 DEF WaiterType
  <2>4. Awaited(p)'
    BY <1>1, <2>1, <2>3 DEF Awaited, Late, Waiting
  <2>5. (\A q \in Paths : Awaited(q)') /\ (Renewed => Renewed') /\ (Late => Late')
    BY <1>1, <2>1, <2>2, <2>4, OneTurns
  <2>6. \A q \in run'.todo : asked'[q].st = "unasked"
    BY <1>1, <2>1, <2>2 DEF Waiting, RunType
  <2> QED
    BY <2>1, <2>5, <2>6 DEF Waiting
<1> QED
  BY <1>2, <1>3, <1>4, <1>5 DEF Ask

\* An answer that is read says something new, or comes when it is late.
LEMMA ReadRests ==
    ASSUME WaitTypes, Waiting, NEW p \in Paths, Read(p), UNCHANGED servers PROVE Waiting'
<1>1. /\ run.at = "wait" /\ asked[p].st = "open" /\ token' = token
      /\ run.left \in Nat /\ Awaited(p)
      /\ run \in RunType /\ asked \in [Paths -> WaiterType]
  BY DEF Read, Readable, Opened, Waiting, WaitTypes, RunType
<1>2. /\ asked[p].reply # NoPrint
      /\ asked' = [asked EXCEPT ![p].st = "answered", ![p].now = asked[p].reply]
      /\ run' = [run EXCEPT !.changed = @ \/ asked[p].reply # asked[p].old]
  BY <1>1 DEF Read, Readable, Awaited
<1>3. /\ run'.at = "wait" /\ run'.left = run.left /\ run'.secs = run.secs
      /\ run'.changed = (run.changed \/ asked[p].reply # asked[p].old)
  BY <1>1, <1>2 DEF RunType
<1>4. /\ \A q \in Paths \ {p} : asked'[q] = asked[q]
      /\ asked'[p] = [asked[p] EXCEPT !.st = "answered", !.now = asked[p].reply]
  BY <1>1, <1>2
<1>5. /\ asked'[p].st = "answered" /\ asked'[p].old = asked[p].old
      /\ asked'[p].file = asked[p].file /\ asked'[p].now = asked[p].reply
      /\ asked'[p].closed = asked[p].closed /\ asked'[p].reply = asked[p].reply
  BY <1>1, <1>4 DEF WaiterType
<1>6. Awaited(p)'
  BY <1>1, <1>3, <1>5 DEF Awaited, Late
<1>7. (\A q \in Paths : Awaited(q)') /\ (Renewed => Renewed') /\ (Late => Late')
  BY <1>1, <1>3, <1>4, <1>6, OneTurns
<1>8. asked[p].reply # asked[p].old => Renewed'
  BY <1>1, <1>2, <1>5 DEF Renewed, Printed, Awaited
<1>9. asked[p].reply = asked[p].old => Late'
  BY <1>1, <1>2, <1>7 DEF Awaited
<1> QED
  BY <1>3, <1>7, <1>8, <1>9 DEF Waiting

\* The follower goes on: over early, it has something new.
LEMMA GoesOnRests ==
    ASSUME WaitTypes, Waiting, ~run.snapshot, AllAsked \/ Alone \/ SeesNew \/ WaitOver,
           UNCHANGED servers, Resting'
    PROVE  Waiting'
<1>1. UNCHANGED <<token, asked>> /\ run \in RunType
  BY DEF AllAsked, Alone, SeesNew, WaitOver, WaitTypes
<1>2. ~NewSocket /\ ~SeesNew
  BY NoNewSocket DEF SeesNew
<1>3. /\ run'.left = run.left /\ run'.secs = run.secs /\ run'.changed = run.changed
      /\ run'.at \in {"alone", "wait", "print"}
      /\ run'.at = "wait" => run.changed \/ Opened # {} \/ run.left <= Spare
      /\ run'.at = "print" => Opened = {} \/ run.left = 0 \/ run.changed
      /\ run'.at = "print" => run.at = "wait"
  <2>1. CASE AllAsked
    <3>1. run' = [run EXCEPT !.at = IF ~run.changed /\ ~run.snapshot /\ Opened = {} /\ run.left > Spare
                                    THEN "alone" ELSE "wait"]
      BY <2>1 DEF AllAsked
    <3>2. run.left \in Nat /\ Spare \in Nat
      BY <1>1, NoPrintIsNone DEF RunType
    <3> QED
      BY <1>1, <3>1, <3>2 DEF RunType
  <2>2. CASE Alone
    BY <1>1, <1>2, <2>2 DEF Alone, RunType
  <2>3. CASE WaitOver
    BY <1>1, <2>3 DEF WaitOver, RunType
  <2> QED
    BY <1>2, <2>1, <2>2, <2>3
<1>4. /\ \A q \in Paths : Awaited(q)' = Awaited(q)
      /\ Renewed' = Renewed /\ Late' = Late /\ Opened' = Opened
  BY <1>1, <1>3 DEF Awaited, Renewed, Printed, Late, Opened
<1>5. run.left = 0 => Late
  BY NoPrintIsNone DEF Late
<1> QED
  BY <1>3, <1>4, <1>5 DEF Waiting, Late

\* A second passes: an answer that was not new comes late.
LEMMA TickRests == ASSUME WaitTypes, Waiting, Tick PROVE Waiting'
<1>1. /\ run \in RunType /\ asked \in [Paths -> WaiterType] /\ UNCHANGED <<servers, token>>
      /\ run.left \in Nat /\ run.secs \in Nat /\ Spare \in Nat
  BY NoPrintIsNone DEF WaitTypes, RunType, Tick
<1>2. /\ run.left > 0 /\ run'.left = run.left - 1 /\ run'.secs = run.secs /\ run'.at = run.at
      /\ run'.changed = run.changed /\ run'.todo = run.todo
  BY <1>1 DEF Tick, RunType
<1>3. Late => Late'
  BY <1>1, <1>2 DEF Late
<1>4. ASSUME NEW p \in Paths
      PROVE  /\ asked'[p].st = asked[p].st /\ asked'[p].old = asked[p].old
             /\ asked'[p].file = asked[p].file /\ asked'[p].closed = asked[p].closed
             /\ asked'[p].reply = asked[p].reply /\ asked'[p].now = asked[p].now
             /\ asked'[p].until = IF asked[p].until > 0 THEN asked[p].until - 1 ELSE 0
  BY <1>1 DEF Tick, WaiterType
<1>5. ASSUME NEW p \in Paths PROVE Awaited(p)'
  <2>1. Awaited(p) /\ asked[p].until \in Nat
    BY <1>1 DEF Waiting, WaiterType
  <2>2. run.left <= asked[p].until + Spare => run'.left <= asked'[p].until + Spare
    BY <1>1, <1>2, <1>4, <2>1
  <2> QED
    BY <1>1, <1>3, <1>4, <2>1, <2>2 DEF Awaited
<1>6. Renewed' = Renewed /\ Opened' = Opened
  BY <1>1, <1>4 DEF Renewed, Printed, Opened
<1>7. run'.left <= run'.secs + Spare
  BY <1>1, <1>2 DEF Waiting
<1>8. run'.at # "ask"
  BY <1>2 DEF Tick
<1> QED
  BY <1>2, <1>3, <1>5, <1>6, <1>7, <1>8 DEF Waiting

\* control_wait_start(), control_fdset(): before the time is up, an answer is
\* another state than that asked with.
LEMMA AnswerRests ==
    ASSUME WaitTypes, Waiting, NEW p \in Paths, Answer(p) PROVE Waiting'
<1>1. /\ run' = run /\ token' = token /\ servers' = servers
      /\ asked \in [Paths -> WaiterType] /\ asked[p].st = "open" /\ Awaited(p)
      /\ servers[p].print \in Prints /\ run.left \in Nat
      /\ asked' = [asked EXCEPT ![p].reply = servers[p].print]
      /\ asked[p].old # servers[p].print \/ asked[p].until = 0
  BY DEF Answer, Due, Opened, Waiting, WaitTypes, RunType
<1>2. /\ \A q \in Paths \ {p} : asked'[q] = asked[q]
      /\ asked'[p] = [asked[p] EXCEPT !.reply = servers[p].print]
  BY <1>1
<1>3. /\ asked'[p].st = "open" /\ asked'[p].old = asked[p].old /\ asked'[p].file = asked[p].file
      /\ asked'[p].closed = asked[p].closed /\ asked'[p].reply = servers[p].print
      /\ asked'[p].now = asked[p].now /\ asked'[p].until = asked[p].until
  BY <1>1, <1>2 DEF WaiterType
<1>4. servers[p].print # asked[p].old \/ Late
  BY <1>1, NoPrintIsNone DEF Awaited, Late
<1>5. Awaited(p)'
  BY <1>1, <1>3, <1>4 DEF Awaited, Late
<1>6. (\A q \in Paths : Awaited(q)') /\ (Renewed => Renewed') /\ (Late => Late')
  <2>1. run'.left \in Nat /\ run'.left <= run.left
    BY <1>1
  <2> QED
    BY <1>1, <1>2, <1>5, <2>1, OneTurns
<1>7. Opened' = Opened /\ \A q \in Paths : asked'[q].st = asked[q].st
  BY <1>1, <1>2, <1>3 DEF Opened
<1>8. run.todo \subseteq Paths
  BY DEF WaitTypes, RunType
<1> QED
  BY <1>1, <1>6, <1>7, <1>8 DEF Waiting

\* One step
LEMMA WaitKeeps == ASSUME WaitTypes, WaitInv, [WaitNext]_waitVars PROVE WaitTypes' /\ WaitInv'
<1>1. CASE UNCHANGED waitVars
  BY <1>1 DEF waitVars, WaitTypes, WaitInv, Waiting, Resting, Awaited, Renewed, Printed, Late, Opened
<1>2. CASE WaitNext
  <2>1. WaitTypes'
    BY <1>2, WaitTyped
  <2>2. SUFFICES ASSUME Resting' PROVE Waiting'
    BY <2>1 DEF WaitInv
  <2>3. run \in RunType
    BY DEF WaitTypes
  <2>4. CASE Start /\ UNCHANGED servers
    BY <2>2, <2>4, StartRests
  <2>5. CASE StartSync \/ Gather \/ PrintToken
    <3>1. CASE StartSync
      BY <2>2, <2>3, <3>1 DEF StartSync, Resting, RunType
    <3>2. CASE Gather
      BY <2>2, <2>3, <3>2 DEF Gather, Resting, Idle, RunType
    <3>3. CASE PrintToken
      <4>1. run'.at = "sync"
        BY <3>3 DEF PrintToken, Idle
      <4> QED
        BY <2>2, <4>1 DEF Resting
    <3> QED
      BY <2>5, <3>1, <3>2, <3>3
  <2>6. CASE Event
    <3> DEFINE q == run.at \in {"sync", "gather", "start"}
    <3>1. run' = [run EXCEPT !.quiet = q]
      BY <2>6 DEF Event
    <3>2. run'.at = run.at /\ run'.quiet = q
      BY <2>3, <3>1 DEF RunType
    <3> QED
      BY <2>2, <3>2 DEF Resting
  <2>7. ASSUME NEW p \in Paths, (Ask(p) \/ Read(p)) /\ UNCHANGED servers PROVE Waiting'
    <3>1. /\ run'.snapshot = run.snapshot /\ run'.quiet = run.quiet
          /\ run.at \in {"ask", "wait"}
      BY <2>3, <2>7 DEF Ask, Gone, Read, RunType
    <3>2. Waiting
      BY <2>2, <3>1 DEF WaitInv, Resting
    <3> QED
      BY <2>7, <3>2, AskRests, ReadRests
  <2>8. CASE (AllAsked \/ Alone \/ SeesNew \/ WaitOver) /\ UNCHANGED servers
    <3>1. /\ run'.snapshot = run.snapshot /\ run'.quiet = run.quiet
          /\ run.at \in {"ask", "alone", "wait"}
      <4>1. CASE AllAsked \/ SeesNew \/ WaitOver
        BY <2>3, <4>1 DEF AllAsked, SeesNew, WaitOver, RunType
      <4>2. CASE Alone
        <5>1. run' # Idle(TRUE)
          BY <2>2 DEF Resting, Idle
        <5> QED
          BY <2>3, <4>2, <5>1 DEF Alone, RunType
      <4> QED
        BY <2>8, <4>1, <4>2
    <3>2. Waiting /\ ~run.snapshot
      BY <2>2, <3>1 DEF WaitInv, Resting
    <3> QED
      BY <2>2, <2>8, <3>2, GoesOnRests
  <2>9. CASE Tick
    <3>1. run'.snapshot = run.snapshot /\ run'.quiet = run.quiet /\ run'.at = run.at
      BY <2>3, <2>9 DEF Tick, RunType
    <3>2. Waiting
      BY <2>2, <3>1 DEF WaitInv, Resting
    <3> QED
      BY <2>9, <3>2, TickRests
  <2>10. ASSUME NEW p \in Paths, Answer(p) PROVE Waiting'
    <3>1. Waiting
      BY <2>2, <2>10 DEF Answer, WaitInv, Resting
    <3> QED
      BY <2>10, <3>1, AnswerRests
  <2>11. CASE FollowerStep
    BY <2>4, <2>5, <2>7, <2>8, <2>11 DEF FollowerStep
  <2>12. CASE AskStep
    BY <2>7, <2>12 DEF AskStep
  <2>13. ASSUME NEW p \in Paths, Drop(p) \/ ChangeServer(p) \/ Stop(p) \/ StartServer(p)
         PROVE  Waiting'
    BY <2>6, <2>13 DEF Drop, ChangeServer, Stop, StartServer
  <2> QED
    BY <1>2, <2>9, <2>10, <2>11, <2>12, <2>13 DEF WaitNext
<1> QED
  BY <1>1, <1>2

\* The invariant holds of every state.
LEMMA WaitInvariant == WaitSpec => [](WaitTypes /\ WaitInv)
<1>1. WaitTypes /\ WaitInv /\ [WaitNext]_waitVars => (WaitTypes /\ WaitInv)'
  BY WaitKeeps
<1> QED
  BY WaitStarts, <1>1, PTL DEF WaitSpec

\* control_wait(), wait_new_socket(): a wait that ends early with the token it
\* was given was ended by a server that changed, stopped, started or dropped
\* it, for any number of servers, of sockets left behind and of servers that
\* are busy.
THEOREM NeverSpins == WaitSpec => NoSpin
<1> DEFINE P == /\ run.at = "print" /\ run'.at = "sync" /\ ~run.snapshot /\ run.left > Spare
                /\ token' = token
<1>1. ASSUME WaitTypes, WaitInv, WaitNext, P PROVE ~run.quiet
  <2>1. run \in RunType /\ run.left \in Nat /\ Spare \in Nat
    BY <1>1, NoPrintIsNone DEF WaitTypes, RunType
  <2>2. PrintToken
    <3>1. CASE FollowerStep
      BY <1>1, <3>1
         DEF FollowerStep, StartSync, Gather, Start, AllAsked, Alone, SeesNew, WaitOver, Read
    <3>2. CASE AskStep \/ Tick
      BY <1>1, <3>2 DEF AskStep, Ask, Tick
    <3>3. ASSUME NEW p \in Paths, Answer(p) PROVE FALSE
      BY <1>1, <3>3 DEF Answer
    <3>4. CASE Event
      <4> DEFINE q == run.at \in {"sync", "gather", "start"}
      <4>1. run' = [run EXCEPT !.quiet = q]
        BY <3>4 DEF Event
      <4>2. run'.at = run.at
        BY <2>1, <4>1 DEF RunType
      <4> QED
        BY <1>1, <4>2
    <3> QED
      BY <1>1, <3>1, <3>2, <3>3, <3>4 DEF WaitNext, Drop, ChangeServer, Stop, StartServer
  <2>3. \A p \in Paths : token[p] = Printed(p)
    BY <1>1, <2>2 DEF PrintToken
  <2>4. ~Renewed
    BY <2>3 DEF Renewed
  <2>5. ~Late
    BY <1>1, <2>1 DEF Late
  <2> QED
    BY <1>1, <2>4, <2>5 DEF WaitInv, Waiting, Resting
<1>2. ASSUME WaitTypes /\ WaitInv, [WaitNext]_waitVars PROVE [P => ~run.quiet]_waitVars
  BY <1>1, <1>2
<1> QED
  BY <1>2, WaitInvariant, PTL DEF WaitSpec, NoSpin

=============================================================================
