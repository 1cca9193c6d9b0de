---------------------------- MODULE ControlConns ----------------------------
(***************************************************************************)
(* The connections of the server's control socket (src/src/control.c, #82, *)
(* #130): commands come in, answers go out, and WAIT holds a connection    *)
(* until the state of the clients has another fingerprint than the one it  *)
(* gives, or its seconds are up.  The fingerprint is worked out at most    *)
(* every 250 ms.  One pass of the event loop is FdSet, select() and        *)
(* Handle.  Times are ages and countdowns of coarse ticks.                 *)
(***************************************************************************)
EXTENDS Naturals

CONSTANTS
    Conns,           \* the slots, CONTROL_CONNS of them
    States,          \* server_state_hash()
    ControlTimeout,  \* CONTROL_TIMEOUT
    WaitMax,         \* CONTROL_WAIT_MAX
    AnyState         \* the "-" of WAIT

ASSUME ControlAssumption ==
    ControlTimeout \in Nat /\ WaitMax \in Nat /\ AnyState \notin States

VARIABLES
    clients,  \* the state of the clients
    cached,   \* state_hash; recent: it is less than 250 ms old
    conns,    \* control_conns
    paused,   \* control_paused_until, ticks to go
    pass      \* where the loop is; accepts: control_fd is in the read set
controlVars == <<clients, cached, conns, paused, pass>>

\* A connection: given, until: of a WAIT; answer, and the states there were
\* since the WAIT came in
Closed == [phase |-> "closed", since |-> 0, given |-> AnyState, until |-> 0,
           answer |-> AnyState, seen |-> {}]
Accepted == [Closed EXCEPT !.phase = "reading"]

\* control_wait_answer(): without memory the connection is closed
WaitAnswered(c, h) == {[c EXCEPT !.phase = "writing", !.answer = h], Closed}

\* For each connection one of its possibilities
OneOf(sets) ==
    {f \in [Conns -> UNION {sets[c] : c \in Conns}] : \A c \in Conns : f[c] \in sets[c]}

----------------------------------------------------------------------------
\* control_state_hash()
Hash == IF cached.recent THEN cached.hash ELSE clients

\* Mutant: a connection that is not waiting is left alone
Set_NoTimeout(c) ==
    IF c.phase # "waiting" THEN {c}
    ELSE IF Hash # c.given \/ c.until = 0 THEN WaitAnswered([c EXCEPT !.since = 0], Hash)
    ELSE {c}

\* A connection in control_fdset()
Set(c) ==
    IF c.phase = "waiting"
    THEN IF Hash # c.given \/ c.until = 0 THEN WaitAnswered([c EXCEPT !.since = 0], Hash)
         ELSE {c}
    ELSE IF c.since > ControlTimeout THEN {Closed} ELSE {c}

FdSet ==
    /\ pass.at = "set"
    /\ pass' = [at |-> "handle", accepts |-> paused = 0]
    /\ conns' \in OneOf([c \in Conns |-> Set(conns[c])])
    /\ cached' = IF \E c \in Conns : conns[c].phase = "waiting"
                 THEN [hash |-> Hash, recent |-> TRUE] ELSE cached
    /\ UNCHANGED <<clients, paused>>

\* Mutant: WAIT compares with the fingerprint of the last 250 ms
WaitStart_Cached(c, given, until) ==
    IF given = Hash /\ until > 0
    THEN {[c EXCEPT !.phase = "waiting", !.given = given, !.until = until, !.seen = {clients}]}
    ELSE WaitAnswered([c EXCEPT !.given = given, !.until = until, !.seen = {clients}], Hash)

\* control_wait_start(): the fingerprint is worked out now
WaitStart(c, given, until) ==
    IF given = clients /\ until > 0
    THEN {[c EXCEPT !.phase = "waiting", !.given = given, !.until = until, !.seen = {clients}]}
    ELSE WaitAnswered([c EXCEPT !.given = given, !.until = until, !.seen = {clients}], clients)

\* A connection in control_handle(): what it may become; any of them may have
\* nothing to read or no room to write
Handled(c) ==
    {c} \cup
    IF c.phase = "closed"
    THEN IF pass.accepts THEN {Accepted} ELSE {}
    ELSE {Closed} \cup
         IF c.phase = "reading"
         THEN {[c EXCEPT !.phase = "writing"]} \cup
              UNION {WaitStart(c, g, u) : g \in States \cup {AnyState}, u \in 0 .. WaitMax}
         ELSE {}

\* The fingerprint is worked out for a WAIT, also for one that ends for want
\* of memory
Handle ==
    LET read == {c \in Conns : conns[c].phase = "reading"} IN
    /\ pass.at = "handle"
    /\ pass' = [at |-> "set", accepts |-> FALSE]
    /\ conns' \in OneOf([c \in Conns |-> Handled(conns[c])])
    /\ \/ /\ \E c \in read : conns'[c] = Closed \/ conns'[c].seen # {}
          /\ cached' = [hash |-> clients, recent |-> TRUE]
       \/ (\A c \in read : conns'[c].seen = {}) /\ UNCHANGED cached
    /\ paused' \in {paused} \cup (IF pass.accepts THEN {1} ELSE {})
    /\ UNCHANGED clients

\* The rest of the loop changes the clients
Change(s) ==
    /\ clients' = s
    /\ conns' = [c \in Conns |-> IF conns[c].phase = "waiting"
                                 THEN [conns[c] EXCEPT !.seen = @ \cup {s}] ELSE conns[c]]
    /\ UNCHANGED <<cached, paused, pass>>

\* 250 ms
Quarter == cached.recent /\ cached' = [cached EXCEPT !.recent = FALSE]
           /\ UNCHANGED <<clients, conns, paused, pass>>

Older(c) == [c EXCEPT !.since = IF c.phase # "closed" /\ @ <= ControlTimeout THEN @ + 1 ELSE @,
                      !.until = IF @ > 0 THEN @ - 1 ELSE 0]
ControlTick ==
    /\ conns' = [c \in Conns |-> Older(conns[c])]
    /\ cached' = [cached EXCEPT !.recent = FALSE]
    /\ paused' = 0
    /\ UNCHANGED <<clients, pass>>

ControlInit ==
    /\ clients \in States
    /\ cached = [hash |-> clients, recent |-> FALSE]
    /\ conns = [c \in Conns |-> Closed]
    /\ paused = 0
    /\ pass = [at |-> "set", accepts |-> FALSE]
ControlNext == FdSet \/ Handle \/ Quarter \/ ControlTick \/ \E s \in States : Change(s)

\* The loop comes round at least once a second
ControlFair == /\ WF_controlVars(FdSet) /\ WF_controlVars(Handle)
               /\ WF_controlVars(ControlTick)
ControlSpec == ControlInit /\ [][ControlNext]_controlVars /\ ControlFair

----------------------------------------------------------------------------
\* A WAIT is told a state there was after it asked, however old the
\* fingerprint of the others is; before its time is up another one than it
\* gave.
WaitTold ==
    \A c \in Conns : conns[c].phase = "writing" /\ conns[c].seen # {} =>
        /\ conns[c].answer \in conns[c].seen
        /\ conns[c].until > 0 => conns[c].answer # conns[c].given

\* Every connection ends, so that one that waits, or never reads or writes,
\* does not keep its slot of the few there are from the others.
SlotsComeFree == \A c \in Conns : conns[c].phase # "closed" ~> conns[c].phase = "closed"

=============================================================================
