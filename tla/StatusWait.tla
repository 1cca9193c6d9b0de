----------------------------- MODULE StatusWait -----------------------------
(***************************************************************************)
(* `camex --status --wait' (src/src/control.c, control_wait(), #130, #138, *)
(* #144) under examples/camex-nginx-sync.sh --follow: a follower that      *)
(* syncs its map with the clients of all servers, then waits on all their  *)
(* control sockets for another state than its token has.  Servers come and *)
(* go, and may leave the file of their socket behind.  The seconds of a    *)
(* wait are ticks; Spare of them (5 s) are for the answers.                *)
(***************************************************************************)
EXTENDS Naturals, FiniteSets

CONSTANTS
    Paths,      \* of control sockets, in the order of control_list()
    Prints,     \* fingerprints of the state of a server's clients
    NoPrint,    \* the server has none: it is not there
    WaitSecs,   \* --wait-timeout
    Spare,
    MaxEvents,  \* bound: changes, stops and starts of servers, dropped WAITs
    MaxBusy     \* bound: connections a server does not take

ASSUME WaitAssumption ==
    /\ Paths \subseteq Nat /\ Prints # {} /\ NoPrint \notin Prints
    /\ {WaitSecs, Spare, MaxEvents, MaxBusy} \subseteq Nat

VARIABLES
    servers,  \* up; the state's fingerprint; which socket file is there, or 0
    synced,   \* the states the map was made of
    token,    \* as printed last
    run,      \* the follower: see Idle
    asked,    \* the connections: see NotAsked
    events, busy
waitVars == <<servers, synced, token, run, asked, events, busy>>

\* at: sync, start, ask, alone, wait; todo: servers to ask; left: ticks to the
\* deadline; quiet: nothing has happened to the servers since the wait began
Idle(snapshot) == [at |-> "start", snapshot |-> snapshot, todo |-> {}, left |-> 0,
                   secs |-> 0, changed |-> FALSE, quiet |-> TRUE]

\* control_waiter_t, and what the server has of it.  st: unlisted, unasked,
\* open, answered, gone; file: its socket's at the start; reply: not read yet
NotAsked == [st |-> "unlisted", old |-> NoPrint, file |-> 0, until |-> 0,
             reply |-> NoPrint, closed |-> FALSE, now |-> NoPrint]

State(p) == IF servers[p].up THEN servers[p].print ELSE NoPrint
Listed == {p \in Paths : servers[p].file # 0}
Opened == {p \in Paths : asked[p].st = "open"}
Readable(p) == p \in Opened /\ (asked[p].reply # NoPrint \/ asked[p].closed)
First(ps) == {p \in ps : \A q \in ps : p <= q}

\* A WAIT the server will answer in this pass of its loop
Due(p) == /\ p \in Opened /\ ~Readable(p)
          /\ \/ asked[p].old # servers[p].print
             \/ asked[p].until = 0

----------------------------------------------------------------------------
\* sync_once(): every socket listed now is asked in turn (the old map goes
\* with the end of the wait)
StartSync ==
    /\ run.at = "sync" /\ run.todo = {}
    /\ run' = [run EXCEPT !.at = "gather", !.todo = Listed]
    /\ UNCHANGED <<synced, token, asked>>
Gather ==
    /\ run.at = "gather"
    /\ \/ \E p \in First(run.todo) :
             /\ synced' = [synced EXCEPT ![p] = State(p)]
             /\ run' = [run EXCEPT !.todo = @ \ {p}]
       \/ run.todo = {} /\ run' = Idle(FALSE) /\ UNCHANGED synced
    /\ UNCHANGED <<token, asked>>

\* The fingerprint a server has in the token that is given; whether one of
\* them is gone from the list
InToken(p) == IF run.snapshot THEN NoPrint ELSE token[p]
TokenLost == \E p \in Paths \ Listed : InToken(p) # NoPrint

\* control_wait(): the token's servers and those listed now
Start ==
    LET lost == TokenLost
        secs == IF lost THEN 0 ELSE WaitSecs
    IN /\ run.at = "start"
       /\ asked' = [p \in Paths |->
                       IF p \notin Listed THEN NotAsked
                       ELSE [NotAsked EXCEPT !.st = "unasked", !.old = InToken(p),
                                             !.file = servers[p].file]]
       /\ run' = [run EXCEPT !.at = IF Listed # {} THEN "ask"
                                    ELSE IF ~lost /\ ~run.snapshot THEN "alone" ELSE "print",
                             !.todo = Listed, !.changed = lost, !.secs = secs,
                             !.left = secs + Spare, !.quiet = TRUE]
       /\ UNCHANGED <<token, synced>>

\* Mutant: every socket left behind is a change
Gone_Change(p) ==
    /\ asked' = [asked EXCEPT ![p].st = "gone"]
    /\ run' = [run EXCEPT !.todo = @ \ {p}, !.changed = TRUE]

\* Nobody listens there: a change for a server the token had
Gone(p) ==
    /\ asked' = [asked EXCEPT ![p].st = "gone"]
    /\ run' = [run EXCEPT !.todo = @ \ {p}, !.changed = @ \/ asked[p].old # NoPrint]

\* connect() and wait_send(), which a busy server may hold up for a second:
\* it is as it was, and so are those not asked by the deadline
Ask(p) ==
    /\ run.at = "ask" /\ p \in First(run.todo)
    /\ \/ /\ run.left > 0 /\ servers[p].up
          /\ asked' = [asked EXCEPT ![p].st = "open",
                                    ![p].until = IF asked[p].old = NoPrint THEN 0 ELSE run.secs]
          /\ run' = [run EXCEPT !.todo = @ \ {p}] /\ UNCHANGED busy
       \/ run.left > 0 /\ ~servers[p].up /\ Gone(p) /\ UNCHANGED busy
       \/ /\ run.left = 0
          /\ run' = [run EXCEPT !.todo = @ \ {p}] /\ UNCHANGED <<asked, busy>>
       \/ /\ run.left > 0 /\ servers[p].up /\ busy < MaxBusy /\ busy' = busy + 1
          /\ \E left \in {run.left, run.left - 1} :
                run' = [run EXCEPT !.todo = @ \ {p}, !.left = left]
          /\ UNCHANGED asked
    /\ UNCHANGED <<token, synced>>

\* All are asked: without an answer to wait for, as without a server
AllAsked ==
    /\ run.at = "ask" /\ run.todo = {}
    /\ run' = [run EXCEPT !.at =
                  IF ~run.changed /\ ~run.snapshot /\ Opened = {} /\ run.left > Spare
                  THEN "alone" ELSE "wait"]
    /\ UNCHANGED <<token, asked, synced>>

\* wait_new_socket(): a path that is new, or another file at one
NewSocket == \E p \in Listed : asked[p].st = "unlisted" \/ servers[p].file # asked[p].file

\* wait_for_server(); with no list at all the new server is asked for its
\* state
Alone ==
    /\ run.at = "alone"
    /\ \/ NewSocket /\ run' = IF \A p \in Paths : asked[p].st = "unlisted" THEN Idle(TRUE)
                              ELSE [run EXCEPT !.at = "wait", !.changed = TRUE]
       \/ run.left <= Spare /\ run' = [run EXCEPT !.at = "wait"]
    /\ UNCHANGED <<token, asked, synced>>

\* The loop of control_wait(): an answer, or a connection closed without one
Read(p) ==
    LET a == asked[p] IN
    /\ run.at = "wait" /\ Readable(p) /\ run.left > 0
    /\ \/ /\ a.reply # NoPrint
          /\ asked' = [asked EXCEPT ![p].st = "answered", ![p].now = a.reply]
          /\ run' = [run EXCEPT !.changed = @ \/ a.reply # a.old]
       \/ /\ a.reply = NoPrint
          /\ asked' = [asked EXCEPT ![p].st = "gone"]
          /\ run' = [run EXCEPT !.changed = TRUE]
    /\ UNCHANGED <<token, synced>>

\* Nothing to read for a second
SeesNew ==
    /\ run.at = "wait" /\ Opened # {} /\ run.left > 0
    /\ \A p \in Paths : ~Readable(p)
    /\ NewSocket
    /\ run' = [run EXCEPT !.at = "print", !.changed = TRUE]
    /\ UNCHANGED <<token, asked, synced>>

WaitOver ==
    /\ run.at = "wait"
    /\ \/ Opened = {} \/ run.left = 0
       \/ run.changed /\ \A p \in Opened : asked[p].old # NoPrint
    /\ run' = [run EXCEPT !.at = "print"]
    /\ UNCHANGED <<token, asked, synced>>

\* Mutant: a server that is gone keeps its entry
Printed_Gone(p) ==
    IF asked[p].st = "unlisted" THEN NoPrint
    ELSE IF asked[p].now # NoPrint THEN asked[p].now ELSE asked[p].old

\* The new token: the answers, else what it had
Printed(p) ==
    IF asked[p].st \in {"unlisted", "gone"} THEN NoPrint
    ELSE IF asked[p].now # NoPrint THEN asked[p].now ELSE asked[p].old

PrintToken ==
    /\ run.at = "print"
    /\ token' = [p \in Paths |-> Printed(p)]
    /\ asked' = [p \in Paths |-> NotAsked]
    /\ synced' = [p \in Paths |-> NoPrint]
    /\ run' = [Idle(FALSE) EXCEPT !.at = "sync"]

FollowerStep ==
    /\ \/ StartSync \/ Gather \/ Start \/ AllAsked \/ Alone \/ SeesNew \/ WaitOver \/ PrintToken
       \/ \E p \in Paths : Read(p)
    /\ UNCHANGED <<servers, events, busy>>
AskStep == (\E p \in Paths : Ask(p)) /\ UNCHANGED <<servers, events>>

----------------------------------------------------------------------------
(* The servers *)

\* control_wait_start(), control_fdset(): as ControlConns has it
Answer(p) ==
    /\ Due(p)
    /\ asked' = [asked EXCEPT ![p].reply = servers[p].print]
    /\ UNCHANGED <<servers, synced, token, run, events, busy>>

Event == /\ events < MaxEvents /\ events' = events + 1
         /\ run' = [run EXCEPT !.quiet = run.at \in {"sync", "gather", "start"}]
         /\ UNCHANGED <<synced, token, busy>>

ChangeServer(p) ==
    /\ Event /\ servers[p].up
    /\ \E h \in Prints \ {servers[p].print} : servers' = [servers EXCEPT ![p].print = h]
    /\ UNCHANGED asked

\* No slot, or no memory, for the connection
Drop(p) ==
    /\ Event /\ p \in Opened /\ ~Readable(p)
    /\ asked' = [asked EXCEPT ![p].closed = TRUE]
    /\ UNCHANGED servers

Down(file) == [up |-> FALSE, print |-> CHOOSE h \in Prints : TRUE, file |-> file]

\* With its file, or leaving it behind
Stop(p) ==
    /\ Event /\ servers[p].up
    /\ \E file \in {0, servers[p].file} :
          servers' = [servers EXCEPT ![p] = Down(file)]
    /\ asked' = IF p \in Opened THEN [asked EXCEPT ![p].closed = TRUE] ELSE asked

\* Another file, wherever one was left
StartServer(p) ==
    /\ Event /\ ~servers[p].up
    /\ \E h \in Prints : servers' = [servers EXCEPT ![p] = [up |-> TRUE, print |-> h,
                                                            file |-> 2 + events]]
    /\ UNCHANGED asked

\* Servers that are not busy answer within a second, before a tick, and the
\* answer is read
Tick ==
    /\ \A p \in Paths : ~Due(p) /\ ~Readable(p)
    /\ \/ run.at = "alone" /\ run.left > Spare
       \/ run.at = "wait" /\ run.left > 0
    /\ run' = [run EXCEPT !.left = @ - 1]
    /\ asked' = [p \in Paths |-> [asked[p] EXCEPT !.until = IF @ > 0 THEN @ - 1 ELSE 0]]
    /\ UNCHANGED <<servers, synced, token, events, busy>>

WaitInit ==
    /\ servers \in [Paths -> {[up |-> TRUE, print |-> h, file |-> 1] : h \in Prints}
                             \cup {Down(0), Down(1)}]
    /\ synced = [p \in Paths |-> NoPrint] /\ token = synced
    /\ run = Idle(TRUE)
    /\ asked = [p \in Paths |-> NotAsked]
    /\ events = 0 /\ busy = 0
WaitNext ==
    \/ FollowerStep \/ AskStep \/ Tick
    \/ \E p \in Paths : Answer(p) \/ Drop(p) \/ ChangeServer(p) \/ Stop(p) \/ StartServer(p)

\* The script runs on, servers come round their loop, time passes
WaitFair == /\ WF_waitVars(FollowerStep) /\ WF_waitVars(AskStep) /\ WF_waitVars(Tick)
            /\ WF_waitVars(\E p \in Paths : Answer(p))
WaitSpec == WaitInit /\ [][WaitNext]_waitVars /\ WaitFair

----------------------------------------------------------------------------
\* The map and the token end up as the servers are, whatever happened, in
\* which order, and whichever answers were not waited for.
CatchesUp == <>[](\A p \in Paths :
    /\ token[p] = State(p)
    /\ run.at \notin {"sync", "gather"} => synced[p] = State(p))

\* A wait that ends before its time with the token it was given, so that the
\* script syncs and asks again at once, was ended by a server that changed,
\* stopped, started or dropped it meanwhile: neither sockets left behind nor
\* servers that are busy keep it spinning.
NoSpin ==
    [][run.at = "print" /\ run'.at = "sync" /\ ~run.snapshot /\ run.left > Spare
          /\ token' = token => ~run.quiet]_waitVars

=============================================================================
