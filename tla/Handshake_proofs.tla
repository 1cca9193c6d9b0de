-------------------------- MODULE Handshake_proofs --------------------------
(***************************************************************************)
(* Properties of Handshake for every number of faults and rekeys and all   *)
(* time constants: a session that is confirmed is not one that waits in    *)
(* the server's next; where no answer to a message 1 older than the last   *)
(* fails, a session the client has moved to keeps its place; and what is   *)
(* in flight while both ends move can be opened.                           *)
(*                                                                         *)
(* HsInv is about timestamps: those under way are at most that of the      *)
(* newest message 1, which is the pending one, and when the client has     *)
(* moved to the session in next the server has seen that timestamp.  It    *)
(* holds until a rekey, which is later than the grace time of next.        *)
(* FlightInv, below, is about the order of sessions.                       *)
(***************************************************************************)
EXTENDS Handshake, TLAPS

ClientFields == {"phase", "up", "sock", "reconnect", "backoff", "hs", "pending", "sent",
                 "started", "since", "established", "confirm", "recv", "ka", "cur", "prev",
                 "prev_age", "created", "had"}
ServerFields == {"active", "cur", "next", "prev", "next_age", "prev_age", "seen", "data",
                 "ts", "addr", "had"}

MadeOrNone == (1 .. made) \cup {None}

Counters == issued \in Nat /\ epoch \in Nat /\ epoch <= issued /\ made \in Nat /\ issued > 0

ClientInv ==
    /\ DOMAIN client = ClientFields
    /\ client.hs = issued /\ client.cur \in MadeOrNone
    /\ client.confirm \in BOOLEAN /\ client.pending \in BOOLEAN /\ client.created \in Nat
    /\ client.phase # "run" => client.cur = None

ServerInv ==
    /\ DOMAIN server = ServerFields
    /\ server.cur \in MadeOrNone /\ server.next \in MadeOrNone
    /\ server.ts \in Nat /\ server.next_age \in Nat
    /\ server.cur = None => server.next = None /\ server.prev = None
    /\ server.next # None => server.active /\ server.next # server.cur

\* What may be said of a packet
Sound(m) ==
    /\ m.type \in {"INIT", "RESP"} => m.h \in Nat
    /\ m.type = "INIT" => m.ts \in Nat /\ (epoch = 0 => m.ts <= issued /\ m.ts = m.h)
    /\ m.type \in {"RESP", "DOWN"} => m.sid \in 1 .. made
    /\ m.type = "RESP" /\ m.sid = server.next /\ epoch = 0 /\ ~OldAnswersFail => m.h <= server.ts
    /\ m.type = "DOWN" => m.sid # server.next
PacketInv == \A m \in net \cup late : Sound(m)

Waits == client.cur # None /\ server.next = client.cur

\* The client has moved to the session that waits in next
MoveInv ==
    Waits =>
        /\ client.confirm
        /\ client.created <= server.next_age
        /\ server.next_age <= Grace => ~client.pending
        /\ server.next_age <= Grace /\ epoch = 0 /\ ~OldAnswersFail => issued <= server.ts

HsInv == Counters /\ ClientInv /\ ServerInv /\ PacketInv /\ MoveInv

----------------------------------------------------------------------------
\* No time and no session is None
LEMMA NoneIsNo == None \notin Nat /\ Grace \in Nat /\ RekeyAfter \in Nat /\ Grace < RekeyAfter
BY TimeAssumption

\* The first message 1 is under way.
LEMMA StartSound == Init => HsInv
<1> SUFFICES ASSUME Init PROVE HsInv
  OBVIOUS
<1> USE DEF Init, NewClient, NoEntry, Init1
<1>1. Counters
  BY DEF Counters
<1>2. ClientInv
  BY DEF ClientInv, ClientFields, MadeOrNone
<1>3. ServerInv
  BY DEF ServerInv, ServerFields, MadeOrNone
<1>4. PacketInv
  BY DEF PacketInv, Sound
<1>5. MoveInv
  BY DEF MoveInv, Waits
<1> QED
  BY <1>1, <1>2, <1>3, <1>4, <1>5 DEF HsInv

\* What the packets' facts need of a step: nothing is set back, and next is
\* what it was, or given up, or a new session.
Onward ==
    /\ issued' \in Nat /\ issued <= issued' /\ made' \in Nat /\ made <= made'
    /\ epoch' \in Nat /\ (epoch' = 0 => epoch = 0)
    /\ \/ server'.next = server.next
            /\ (~OldAnswersFail /\ server.next # None => server.ts <= server'.ts)
       \/ server'.next = None
       \/ server'.next = made + 1

\* A packet that was sound stays so while epochs and sessions only grow.
LEMMA StillSound ==
    ASSUME HsInv, Onward, NEW m \in net \cup late, server'.ts \in Nat
    PROVE  Sound(m)'
<1>1. Sound(m)
  BY DEF HsInv, PacketInv
<1>2. Counters /\ server.ts \in Nat
  BY DEF HsInv, ServerInv
<1>3. m.type \in {"RESP", "DOWN"} => m.sid \in 1 .. made /\ m.sid \in 1 .. made' /\ m.sid # None
                                      /\ m.sid # made + 1
  BY <1>1, <1>2, NoneIsNo DEF Sound, Onward, Counters
<1>4. m.type = "INIT" => m.ts \in Nat /\ (epoch' = 0 => m.ts <= issued' /\ m.ts = m.h)
  BY <1>1, <1>2 DEF Sound, Onward, Counters
<1>5. m.type = "RESP" /\ m.sid = server'.next /\ epoch' = 0 /\ ~OldAnswersFail => m.h <= server'.ts
  BY <1>1, <1>2, <1>3 DEF Sound, Onward
<1>6. m.type = "DOWN" => m.sid # server'.next
  BY <1>1, <1>3 DEF Sound, Onward
<1> QED
  BY <1>1, <1>3, <1>4, <1>5, <1>6 DEF Sound

----------------------------------------------------------------------------
(* The client's second *)

\* What sends at most a message 1, and one only when a handshake is pending
\* or due, keeps the invariant.
LEMMA ClientWorks ==
    ASSUME HsInv, UNCHANGED <<server, late, epoch, made>>, issued' \in {issued, issued + 1},
           \A m \in net' \ net : Sound(m)',
           DOMAIN client' = ClientFields, client'.hs = issued', client'.created \in Nat,
           client'.pending \in BOOLEAN, client'.confirm \in BOOLEAN,
           client'.phase # "run" => client'.cur = None,
           \/ client'.cur = None
           \/ /\ client'.cur = client.cur /\ client'.confirm = client.confirm
              /\ client'.created = client.created
              /\ client'.pending \/ issued' # issued => client.pending \/ client.created >= RekeyAfter
    PROVE  HsInv'
<1>1. Counters /\ ClientInv /\ ServerInv /\ MoveInv
  BY DEF HsInv
<1>2. Onward
  BY <1>1 DEF Onward, Counters, ServerInv
<1>3. server'.ts \in Nat
  BY <1>1 DEF ServerInv
<1>4. PacketInv'
  <2> SUFFICES ASSUME NEW m \in net' \cup late' PROVE Sound(m)'
    BY DEF PacketInv
  <2>1. CASE m \in net \cup late
    BY <1>2, <1>3, <2>1, StillSound
  <2>2. CASE m \in net' \ net
    BY <2>2
  <2> QED
    BY <2>1, <2>2
<1>5. Counters'
  BY <1>1 DEF Counters
<1>6. ClientInv'
  BY <1>1 DEF ClientInv, MadeOrNone
<1>7. ServerInv'
  BY <1>1 DEF ServerInv, MadeOrNone
<1>8. MoveInv'
  BY <1>1, NoneIsNo DEF MoveInv, Waits, ServerInv, ClientInv
<1> QED
  BY <1>4, <1>5, <1>6, <1>7, <1>8 DEF HsInv

\* A message 1 that is sent
LEMMA MessageSound ==
    ASSUME HsInv, UNCHANGED epoch, issued' = issued + 1, NEW c, NEW m, m = Message1(c)
    PROVE  Sound(m)'
<1>1. /\ issued \in Nat /\ epoch \in Nat /\ epoch <= issued /\ epoch' = epoch
      /\ issued + 1 - epoch \in Nat
  BY DEF HsInv, Counters
<1>2. m.type = "INIT" /\ m.h = issued + 1 /\ m.ts = issued + 1 - epoch
  BY DEF Message1, Init1
<1> QED
  BY <1>1, <1>2 DEF Sound

\* What the client sends on a session is sound.
LEMMA UpSound == ASSUME NEW sid, NEW ka, NEW a, NEW m, m = Up(sid, ka, a) PROVE Sound(m)'
BY DEF Up, Sound

\* client_wait_for_config() and client_wait_reconnect() have no session.
LEMMA WaitRetriesKeeps ==
    ASSUME HsInv, WaitRetries, UNCHANGED <<server, late, epoch, made>> PROVE HsInv'
<1>1. Counters /\ ClientInv /\ client.phase = "wait" /\ client.cur = None
  BY DEF HsInv, WaitRetries, ClientInv
<1>2. CASE RetryDue(client)
  <2>1. /\ client' = Sent(client) /\ issued' = issued + 1
        /\ net' = net \cup {Message1(client)}
    BY <1>2 DEF WaitRetries
  <2>2. \A m \in net' \ net : Sound(m)'
    BY <2>1, MessageSound
  <2> QED
    BY <1>1, <2>1, <2>2, ClientWorks DEF Sent, ClientInv, ClientFields, Counters
<1>3. CASE ~RetryDue(client)
  <2>1. UNCHANGED <<client, issued, net>>
    BY <1>3 DEF WaitRetries
  <2> QED
    BY <1>1, <2>1, ClientWorks DEF ClientInv, Counters
<1> QED
  BY <1>2, <1>3

\* ... nor when they give up,
LEMMA WaitGivesUpKeeps ==
    ASSUME HsInv, WaitGivesUp, UNCHANGED <<server, late, epoch, made>> PROVE HsInv'
<1>1. Counters /\ ClientInv /\ client.phase = "wait" /\ client.cur = None
  BY DEF HsInv, WaitGivesUp, ClientInv
<1> QED
  BY <1>1, ClientWorks DEF WaitGivesUp, ClientInv, ClientFields, Counters

\* ... nor between two attempts.
LEMMA WaitPausesKeeps ==
    ASSUME HsInv, WaitPauses, UNCHANGED <<server, late, epoch, made>> PROVE HsInv'
<1>1. Counters /\ ClientInv /\ client.phase = "pause" /\ client.cur = None
  BY DEF HsInv, WaitPauses, ClientInv
<1>2. CASE UNCHANGED <<client, issued, net>>
  BY <1>1, <1>2, ClientWorks DEF ClientInv, Counters
<1>3. ASSUME NEW sock, NEW c,
             c = [client EXCEPT !.phase = "wait", !.up = TRUE, !.sock = sock,
                                !.since = 0, !.reconnect = None],
             client' = Started(c), net' = net \cup {Message1(c)}, issued' = issued + 1
      PROVE  HsInv'
  <2>1. \A m \in net' \ net : Sound(m)'
    BY <1>3, MessageSound
  <2>2. /\ DOMAIN c = ClientFields /\ c.phase = "wait" /\ c.cur = None /\ c.created \in Nat
        /\ c.confirm \in BOOLEAN
    BY <1>1, <1>3 DEF ClientInv, ClientFields
  <2>3. /\ DOMAIN client' = ClientFields /\ client'.phase = "wait" /\ client'.cur = None
        /\ client'.created \in Nat /\ client'.confirm \in BOOLEAN
        /\ client'.hs = issued' /\ client'.pending = TRUE
    BY <1>3, <2>2 DEF Started, Sent, ClientFields
  <2> QED
    BY <1>1, <1>3, <2>1, <2>3, ClientWorks DEF Counters
<1>4. CASE client' = [client EXCEPT !.reconnect = Interval] /\ UNCHANGED <<issued, net>>
  BY <1>1, <1>4, ClientWorks DEF ClientInv, ClientFields, Counters
<1> QED
  BY <1>2, <1>3, <1>4 DEF WaitPauses

\* client_reconnect() wipes the session it had.
LEMMA ReconnectKeeps ==
    ASSUME HsInv, Reconnect, UNCHANGED <<server, late, epoch, made>> PROVE HsInv'
<1> DEFINE c == Wiped(client)
<1>1. Counters /\ ClientInv
  BY DEF HsInv
<1>2. /\ DOMAIN c = ClientFields /\ c.cur = None /\ c.created \in Nat /\ c.hs = issued
      /\ c.confirm \in BOOLEAN /\ c.pending = FALSE
  BY <1>1 DEF Wiped, ClientInv, ClientFields
<1>3. \/ \E sock \in Addrs \ {client.sock} :
            LET new == [c EXCEPT !.up = TRUE, !.sock = sock, !.reconnect = None,
                                 !.recv = 0, !.ka = 0]
            IN /\ client' = Started(new) /\ net' = net \cup {Message1(new)}
               /\ issued' = issued + 1
      \/ /\ UNCHANGED <<issued, net>>
         /\ \E delay, backoff : client' = [c EXCEPT !.up = FALSE, !.recv = None,
                                             !.reconnect = delay, !.backoff = backoff]
      \/ UNCHANGED <<issued, net>> /\ ReconnectUnsent(c)
  BY Zenon DEF Reconnect
<1> HIDE DEF c
<1>4. ASSUME NEW sock, NEW new,
             new = [c EXCEPT !.up = TRUE, !.sock = sock, !.reconnect = None, !.recv = 0, !.ka = 0],
             client' = Started(new), net' = net \cup {Message1(new)}, issued' = issued + 1
      PROVE  HsInv'
  <2>1. \A m \in net' \ net : Sound(m)'
    BY <1>4, MessageSound
  <2>2. /\ DOMAIN new = ClientFields /\ new.cur = None /\ new.created \in Nat
        /\ new.confirm \in BOOLEAN
    BY <1>2, <1>4 DEF ClientFields
  <2>3. /\ DOMAIN client' = ClientFields /\ client'.cur = None
        /\ client'.created \in Nat /\ client'.confirm \in BOOLEAN
        /\ client'.hs = issued' /\ client'.pending = TRUE
    BY <1>4, <2>2 DEF Started, Sent, ClientFields
  <2> QED
    BY <1>1, <1>4, <2>1, <2>3, ClientWorks DEF Counters
<1>5. ASSUME NEW delay, NEW backoff, UNCHANGED <<issued, net>>,
             client' = [c EXCEPT !.up = FALSE, !.recv = None, !.reconnect = delay,
                                 !.backoff = backoff]
      PROVE  HsInv'
  BY <1>1, <1>2, <1>5, ClientWorks DEF ClientFields, Counters
<1>6. CASE UNCHANGED <<issued, net>> /\ ReconnectUnsent(c)
  BY <1>1, <1>2, <1>6, ClientWorks DEF ReconnectUnsent, ClientFields, Counters
<1> QED
  BY <1>3, <1>4, <1>5, <1>6

\* A retransmission needs a handshake that is pending, a rekey a session that
\* is old.
LEMMA TickWorksKeeps ==
    ASSUME HsInv, TickWorks, UNCHANGED <<server, late, epoch, made>> PROVE HsInv'
<1> DEFINE init == RetryDue(client) \/ RekeyDue(client)
           c == IF RetryDue(client) THEN Sent(client)
                ELSE IF RekeyDue(client) THEN Started(client) ELSE client
<1>1. Counters /\ ClientInv /\ client.phase = "run"
  BY DEF HsInv, TickWorks
<1>2. /\ issued' = IF init THEN issued + 1 ELSE issued
      /\ net' \subseteq net \cup {m \in {Message1(client)} : init}
                            \cup {Up(client.cur, TRUE, client.sock)}
      /\ client' = c \/ client' = [c EXCEPT !.ka = 0]
  BY DEF TickWorks
<1>3. /\ DOMAIN c = ClientFields /\ c.cur = client.cur /\ c.created = client.created
      /\ c.confirm = client.confirm /\ c.phase = client.phase
      /\ c.hs = issued' /\ c.pending \in BOOLEAN
      /\ c.pending \/ init => client.pending \/ client.created >= RekeyAfter
  <2>1. CASE RetryDue(client)
    <3>1. c = Sent(client) /\ init /\ client.pending
      BY <2>1 DEF RetryDue
    <3> QED
      BY <1>1, <1>2, <3>1 DEF Sent, ClientInv, ClientFields
  <2>2. CASE ~RetryDue(client) /\ RekeyDue(client)
    <3>1. c = Started(client) /\ init /\ client.created >= RekeyAfter
      BY <2>2 DEF RekeyDue
    <3> QED
      BY <1>1, <1>2, <3>1 DEF Sent, Started, ClientInv, ClientFields
  <2>3. CASE ~RetryDue(client) /\ ~RekeyDue(client)
    BY <1>1, <1>2, <2>3 DEF ClientInv
  <2> QED
    BY <2>1, <2>2, <2>3
<1> HIDE DEF c
<1>4. /\ DOMAIN client' = ClientFields /\ client'.cur = client.cur
      /\ client'.created = client.created /\ client'.confirm = client.confirm
      /\ client'.phase = "run" /\ client'.hs = issued' /\ client'.pending = c.pending
  BY <1>1, <1>2, <1>3 DEF ClientFields
<1>5. \A m \in net' \ net : Sound(m)'
  <2> SUFFICES ASSUME NEW m \in net' \ net PROVE Sound(m)'
    OBVIOUS
  <2>1. (init /\ m = Message1(client)) \/ m = Up(client.cur, TRUE, client.sock)
    BY <1>2
  <2>2. CASE init /\ m = Message1(client)
    <3>1. issued' = issued + 1
      BY <1>2, <2>2
    <3> QED
      BY <2>2, <3>1, MessageSound
  <2>3. CASE m = Up(client.cur, TRUE, client.sock)
    BY <2>3, UpSound
  <2> QED
    BY <2>1, <2>2, <2>3
<1>6. client'.pending \/ issued' # issued => client.pending \/ client.created >= RekeyAfter
  BY <1>2, <1>3, <1>4
<1>7. issued' \in {issued, issued + 1}
  BY <1>2
<1>8. client'.pending \in BOOLEAN /\ client'.created \in Nat /\ client'.confirm \in BOOLEAN
  BY <1>1, <1>3, <1>4 DEF ClientInv
<1> QED
  BY <1>4, <1>5, <1>6, <1>7, <1>8, ClientWorks

\* The client's loop, whatever its timers say
LEMMA ClientTickKeeps ==
    ASSUME HsInv, ClientTick PROVE HsInv'
<1>1. UNCHANGED <<server, late, epoch, made>>
  BY DEF ClientTick
<1>2. CASE TickWaits
  BY <1>1, <1>2, ClientWorks DEF TickWaits, HsInv, ClientInv, Counters
<1>3. CASE TickRetryFails
  <2>1. client.pending
    BY <1>3 DEF TickRetryFails, RetryDue
  <2> QED
    BY <1>1, <1>3, <2>1, ClientWorks DEF TickRetryFails, HsInv, ClientInv, ClientFields, Counters
<1> QED
  BY <1>1, <1>2, <1>3, WaitRetriesKeeps, WaitGivesUpKeeps, WaitPausesKeeps, ReconnectKeeps,
     TickWorksKeeps DEF ClientTick, TickReconnects

----------------------------------------------------------------------------
(* What arrives at the client *)

\* The packets there are stay sound, and those that are new are.
LEMMA PacketsKeep ==
    ASSUME HsInv, Onward, server'.ts \in Nat,
           \A m \in net' \cup late' : m \in net \cup late \/ Sound(m)'
    PROVE  PacketInv'
BY StillSound DEF PacketInv

\* A step of the network or the client leaves the server sound,
LEMMA StoodStill ==
    ASSUME HsInv, UNCHANGED <<server, issued, epoch, made>>
    PROVE  Counters' /\ ServerInv' /\ Onward /\ server'.ts \in Nat
<1>1. Counters /\ ServerInv
  BY DEF HsInv
<1> QED
  BY <1>1 DEF Counters, ServerInv, MadeOrNone, Onward

\* A RESP is for the newest message 1; a DOWN on the session the client has
\* moved to was sent on the server's cur.
LEMMA ClientReceives ==
    ASSUME HsInv, NEW m \in net \cup late, ClientReceive(m), UNCHANGED epoch, late' \subseteq late
    PROVE  HsInv'
<1>1. Counters /\ ClientInv /\ ServerInv /\ MoveInv /\ Sound(m)
  BY DEF HsInv, PacketInv
<1>2. UNCHANGED <<server, issued, made, epoch>>
  BY DEF ClientReceive
<1>3. Counters' /\ ServerInv' /\ Onward /\ server'.ts \in Nat
  BY <1>2, StoodStill
<1>4. CASE DropAtClient(m)
  <2>1. UNCHANGED client /\ net' \subseteq net
    BY <1>4 DEF DropAtClient
  <2>2. PacketInv'
    BY <1>3, <2>1, PacketsKeep
  <2>3. ClientInv' /\ MoveInv'
    BY <1>1, <1>2, <2>1 DEF ClientInv, MoveInv, Waits, MadeOrNone
  <2> QED
    BY <1>3, <2>2, <2>3 DEF HsInv
<1>5. CASE HandleResp(m)
  <2>1. /\ m.type = "RESP" /\ client.pending /\ m.h = client.hs
        /\ client' = Moved(client, m.sid)
        /\ net' = (net \ {m}) \cup {Up(m.sid, TRUE, client.sock)}
    BY <1>5 DEF HandleResp
  <2>2. /\ DOMAIN client' = ClientFields /\ client'.cur = m.sid /\ client'.confirm = TRUE
        /\ client'.created = 0 /\ client'.pending = FALSE /\ client'.hs = client.hs
        /\ client'.phase = "run"
    BY <1>1, <2>1 DEF Moved, ClientInv, ClientFields
  <2>3. PacketInv'
    BY <1>3, <2>1, PacketsKeep, UpSound
  <2>4. m.sid \in 1 .. made /\ (m.sid = server.next /\ epoch = 0 /\ ~OldAnswersFail => issued <= server.ts)
    BY <1>1, <2>1 DEF Sound, ClientInv
  <2>5. ClientInv'
    <3>1. client'.cur \in (1 .. made') /\ client'.hs = issued' /\ client'.created \in Nat
      BY <1>1, <1>2, <2>2, <2>4 DEF ClientInv
    <3>2. client'.confirm \in BOOLEAN /\ client'.pending \in BOOLEAN
      BY <2>2
    <3> QED
      BY <2>2, <3>1, <3>2 DEF ClientInv, MadeOrNone
  <2>6. MoveInv'
    BY <1>1, <1>2, <2>2, <2>4 DEF MoveInv, Waits, ServerInv
  <2> QED
    BY <1>3, <2>3, <2>5, <2>6 DEF HsInv
<1>6. CASE HandleDown(m)
  <2>1. m.type = "DOWN" /\ net' = net \ {m} /\ m.sid # server.next
    BY <1>1, <1>6 DEF HandleDown, Sound
  <2>2. /\ DOMAIN client' = ClientFields /\ client'.cur = client.cur
        /\ client'.confirm = (client.confirm /\ m.sid # client.cur)
        /\ client'.created = client.created /\ client'.pending = client.pending
        /\ client'.hs = client.hs /\ client'.phase = client.phase
    BY <1>1, <1>6 DEF HandleDown, ClientInv, ClientFields
  <2>3. PacketInv'
    BY <1>3, <2>1, PacketsKeep
  <2>4. ClientInv'
    BY <1>1, <1>2, <2>2 DEF ClientInv, MadeOrNone
  <2>5. MoveInv'
    BY <1>1, <1>2, <2>1, <2>2 DEF MoveInv, Waits, ClientInv
  <2> QED
    BY <1>3, <2>3, <2>4, <2>5 DEF HsInv
<1> QED
  BY <1>4, <1>5, <1>6 DEF ClientReceive

----------------------------------------------------------------------------
(* What arrives at the server *)

\* ... and one of the network or the server the client.
LEMMA OthersStay ==
    ASSUME HsInv, UNCHANGED <<client, issued, epoch>>, made' \in {made, made + 1}
    PROVE  Counters' /\ ClientInv'
<1>1. Counters /\ ClientInv
  BY DEF HsInv
<1> QED
  BY <1>1 DEF Counters, ClientInv, MadeOrNone

\* server_handle_init(): the new session is nobody's, and the timestamp is its.
LEMMA HandleInitKeeps ==
    ASSUME HsInv, NEW m \in net \cup late, HandleInit(m), UNCHANGED <<issued, epoch>>,
           late' \subseteq late
    PROVE  HsInv'
<1>1. Counters /\ ClientInv /\ ServerInv /\ MoveInv /\ Sound(m)
  BY DEF HsInv, PacketInv
<1>2. /\ m.type = "INIT" /\ m.ts \in Nat /\ m.h \in Nat /\ UNCHANGED client
      /\ epoch = 0 => m.ts = m.h
  BY <1>1 DEF HandleInit, Sound
<1>3. CASE UNCHANGED <<server, made>> /\ net' = net \ {m}
  <2>1. Counters' /\ ServerInv' /\ Onward /\ server'.ts \in Nat
    BY <1>3, StoodStill
  <2>2. PacketInv'
    BY <1>3, <2>1, PacketsKeep
  <2>3. ClientInv' /\ MoveInv'
    BY <1>1, <1>2, <1>3 DEF ClientInv, MoveInv, Waits, MadeOrNone
  <2> QED
    BY <2>1, <2>2, <2>3 DEF HsInv
<1>4. CASE /\ server' = Accepted(m, made + 1) /\ made' = made + 1
           /\ net' = (net \ {m}) \cup {Resp(m.h, made + 1, m.addr)}
  <2>1. Counters' /\ ClientInv'
    BY <1>2, <1>4, OthersStay
  <2>2. /\ DOMAIN server' = ServerFields /\ server'.ts = m.ts /\ server'.active = TRUE
        /\ server'.next_age \in Nat
        /\ \/ server'.cur = server.cur /\ server.cur # None /\ server'.next = made + 1
              /\ server.active /\ server'.prev = server.prev
           \/ server'.cur = made + 1 /\ server'.next = None /\ server'.prev = None
    <3>1. CASE server.active /\ server.cur # None
      <4>1. server' = [server EXCEPT !.next = made + 1, !.next_age = 0, !.seen = 0, !.ts = m.ts]
        BY <1>4, <3>1 DEF Accepted
      <4>2. /\ DOMAIN server' = ServerFields /\ server'.ts = m.ts /\ server'.active = server.active
            /\ server'.next_age = 0 /\ server'.cur = server.cur /\ server'.next = made + 1
            /\ server'.prev = server.prev
        BY <1>1, <4>1 DEF ServerInv, ServerFields
      <4>3. server.active = TRUE
        BY <3>1, <1>1, <1>4, <4>1 DEF ServerInv
      <4> QED
        BY <3>1, <4>2, <4>3
    <3>2. CASE ~(server.active /\ server.cur # None)
      <4>1. server' = [NoEntry EXCEPT !.active = TRUE, !.cur = made + 1, !.ts = m.ts, !.addr = m.addr]
        BY <1>4, <3>2 DEF Accepted
      <4> QED
        BY <4>1 DEF NoEntry, ServerFields
    <3> QED
      BY <3>1, <3>2
  <2>3. made \in Nat /\ None \notin Nat
    BY <1>1, NoneIsNo DEF Counters
  <2>4. ServerInv'
    BY <1>1, <1>2, <1>4, <2>2, <2>3 DEF ServerInv, MadeOrNone
  <2>5. Onward
    BY <1>1, <1>4, <2>2, <2>3 DEF Onward, Counters
  <2>6. PacketInv'
    <3> DEFINE r == Resp(m.h, made + 1, m.addr)
    <3>1. r.type = "RESP" /\ r.h = m.h /\ r.sid = made + 1
      BY DEF Resp
    <3>2. server'.ts = m.ts
      BY <2>2
    <3> HIDE DEF r
    <3>3. ASSUME NEW k, k = r PROVE Sound(k)'
      BY <1>2, <1>4, <2>3, <3>1, <3>2, <3>3 DEF Sound
    <3>4. net' = (net \ {m}) \cup {r}
      BY <1>4 DEF r
    <3>5. server'.ts \in Nat
      BY <1>2, <2>2
    <3> QED
      BY <2>5, <3>3, <3>4, <3>5, PacketsKeep
  <2>7. MoveInv'
    BY <1>1, <1>2, <2>2, <2>3 DEF MoveInv, Waits, ClientInv, MadeOrNone
  <2> QED
    BY <2>1, <2>4, <2>6, <2>7 DEF HsInv
<1>5. CASE /\ OldAnswersFail \/ m.ts >= server.ts
           /\ net' = net \ {m} /\ UNCHANGED made
           /\ server' = IF server.active
                        THEN [server EXCEPT !.seen = 0, !.ts = m.ts] ELSE NoEntry
  <2>1. Counters' /\ ClientInv'
    BY <1>2, <1>5, OthersStay
  <2>2. CASE server.active
    <3>1. /\ DOMAIN server' = ServerFields /\ server'.ts = m.ts
          /\ server'.active = server.active /\ server'.next_age = server.next_age
          /\ server'.cur = server.cur /\ server'.next = server.next /\ server'.prev = server.prev
      BY <1>1, <1>5, <2>2 DEF ServerInv, ServerFields
    <3>2. ServerInv'
      BY <1>1, <1>2, <1>5, <3>1 DEF ServerInv, MadeOrNone
    <3>3. Onward
      BY <1>1, <1>2, <1>5, <3>1 DEF Onward, Counters, ServerInv
    <3>4. PacketInv'
      BY <1>2, <1>5, <3>1, <3>3, PacketsKeep
    <3>5. MoveInv'
      BY <1>1, <1>2, <1>5, <3>1 DEF MoveInv, Waits, Counters, ServerInv
    <3> QED
      BY <2>1, <3>2, <3>4, <3>5 DEF HsInv
  <2>3. CASE ~server.active
    <3>1. server' = NoEntry
      BY <1>5, <2>3
    <3>2. ServerInv' /\ server'.next = None /\ server'.ts = 0
      BY <3>1 DEF ServerInv, NoEntry, ServerFields, MadeOrNone
    <3>3. Onward
      BY <1>1, <1>2, <1>5, <3>2 DEF Onward, Counters
    <3>4. PacketInv'
      BY <1>5, <3>2, <3>3, PacketsKeep
    <3>5. MoveInv'
      BY <3>2 DEF MoveInv, Waits
    <3> QED
      BY <2>1, <3>2, <3>4, <3>5 DEF HsInv
  <2> QED
    BY <2>2, <2>3
<1> QED
  BY <1>3, <1>4, <1>5 DEF HandleInit

\* server_handle_data(): a packet on next makes it cur; the answer is on cur.
LEMMA HandleUpKeeps ==
    ASSUME HsInv, NEW m \in net \cup late, HandleUp(m), UNCHANGED <<issued, epoch>>,
           late' \subseteq late
    PROVE  HsInv'
<1>1. Counters /\ ClientInv /\ ServerInv /\ MoveInv /\ Sound(m)
  BY DEF HsInv, PacketInv
<1>2. UNCHANGED <<client, made>>
  BY DEF HandleUp
<1>3. CASE net' = net \ {m} /\ UNCHANGED server
  <2>1. Counters' /\ ServerInv' /\ Onward /\ server'.ts \in Nat
    BY <1>2, <1>3, StoodStill
  <2>2. PacketInv'
    BY <1>3, <2>1, PacketsKeep
  <2>3. ClientInv' /\ MoveInv'
    BY <1>1, <1>2, <1>3 DEF ClientInv, MoveInv, Waits, MadeOrNone
  <2> QED
    BY <2>1, <2>2, <2>3 DEF HsInv
<1>4. CASE m.sid \in Holds(server)
  <2> DEFINE s == IF m.sid = server.next THEN Promoted(server) ELSE server
  <2>1. /\ server' = [s EXCEPT !.seen = 0, !.data = 0, !.addr = m.addr, !.had = @ \cup {m.sid}]
        /\ net' = (net \ {m}) \cup {x \in {Down(s.cur, m.addr)} : m.ka}
    BY <1>4 DEF HandleUp
  <2>2. m.sid # None /\ server.cur # None
    BY <1>1, <1>4 DEF Holds, ServerInv
  <2>3. /\ DOMAIN s = ServerFields /\ s.ts = server.ts /\ s.next_age = server.next_age
        /\ s.active = server.active
        /\ \/ s.next = None /\ s.cur = server.next /\ s.cur # None
           \/ s.next = server.next /\ s.cur = server.cur /\ s.prev = server.prev
    <3>1. CASE m.sid = server.next
      BY <1>1, <2>2, <3>1 DEF Promoted, ServerInv, ServerFields
    <3>2. CASE m.sid # server.next
      BY <1>1, <3>2 DEF ServerInv
    <3> QED
      BY <3>1, <3>2
  <2> HIDE DEF s
  <2>4. /\ DOMAIN server' = ServerFields /\ server'.ts = s.ts /\ server'.next_age = s.next_age
        /\ server'.active = s.active /\ server'.next = s.next /\ server'.cur = s.cur
        /\ server'.prev = s.prev
    BY <2>1, <2>3 DEF ServerFields
  <2>5. Counters' /\ ClientInv'
    BY <1>2, OthersStay
  <2>6. ServerInv'
    BY <1>1, <1>2, <2>2, <2>3, <2>4 DEF ServerInv, MadeOrNone
  <2>7. Onward
    BY <1>1, <1>2, <2>3, <2>4 DEF Onward, Counters, ServerInv
  <2>8. PacketInv'
    <3>1. s.cur \in 1 .. made /\ s.cur # s.next
      BY <1>1, <2>2, <2>3, NoneIsNo DEF ServerInv, MadeOrNone, Counters
    <3>2. ASSUME NEW k, k = Down(s.cur, m.addr) PROVE Sound(k)'
      <4>1. k.type = "DOWN" /\ k.sid = s.cur
        BY <3>2 DEF Down
      <4> QED
        BY <1>2, <2>4, <3>1, <4>1 DEF Sound
    <3>3. server'.ts \in Nat
      BY <2>6 DEF ServerInv
    <3> QED
      BY <2>1, <2>7, <3>2, <3>3, PacketsKeep
  <2>9. MoveInv'
    BY <1>1, <1>2, <2>3, <2>4 DEF MoveInv, Waits
  <2> QED
    BY <2>5, <2>6, <2>8, <2>9 DEF HsInv
<1> QED
  BY <1>3, <1>4 DEF HandleUp

\* server_expire_clients() gives sessions up.
LEMMA ServerTickKeeps == ASSUME HsInv, ServerTick PROVE HsInv'
<1>1. Counters /\ ClientInv /\ ServerInv /\ MoveInv
  BY DEF HsInv
<1>2. UNCHANGED <<client, net, late, issued, epoch, made>>
  BY DEF ServerTick
<1>3. Counters' /\ ClientInv'
  BY <1>2, OthersStay
<1>4. /\ DOMAIN server' = ServerFields
      /\ \/ /\ server'.next \in {server.next, None} /\ server'.ts = server.ts
            /\ server'.cur = server.cur /\ server'.prev \in {server.prev, None}
            /\ server'.active = server.active /\ server'.next_age = server.next_age
         \/ server' = NoEntry
  BY <1>1 DEF ServerTick, Expired, ServerInv, ServerFields, NoEntry
<1>5. ServerInv' /\ Onward /\ MoveInv'
  <2>1. CASE server' = NoEntry
    <3>1. server'.next = None
      BY <2>1 DEF NoEntry
    <3>2. ServerInv'
      BY <2>1 DEF ServerInv, NoEntry, ServerFields, MadeOrNone
    <3> QED
      BY <1>1, <1>2, <3>1, <3>2 DEF Onward, MoveInv, Waits, Counters
  <2>2. CASE server' # NoEntry
    <3>1. ServerInv'
      BY <1>1, <1>2, <1>4, <2>2 DEF ServerInv, MadeOrNone
    <3>2. Onward
      BY <1>1, <1>2, <1>4, <2>2 DEF ServerInv, Onward, Counters
    <3>3. MoveInv'
      BY <1>1, <1>2, <1>4, <2>2 DEF MoveInv, Waits
    <3> QED
      BY <3>1, <3>2, <3>3
  <2> QED
    BY <2>1, <2>2
<1>6. PacketInv'
  BY <1>2, <1>5, PacketsKeep DEF ServerInv
<1> QED
  BY <1>3, <1>5, <1>6 DEF HsInv

----------------------------------------------------------------------------
(* What both ends send, the network, the clock and restarts *)

\* What changes packets only, and adds none but sound ones
LEMMA PacketsMove ==
    ASSUME HsInv, UNCHANGED <<client, server, issued, epoch, made>>,
           \A m \in net' \cup late' : m \in net \cup late \/ Sound(m)'
    PROVE  HsInv'
<1>1. Counters' /\ ServerInv' /\ Onward /\ server'.ts \in Nat
  BY StoodStill
<1>2. PacketInv'
  BY <1>1, PacketsKeep
<1>3. ClientInv' /\ MoveInv'
  BY DEF HsInv, ClientInv, MoveInv, Waits, MadeOrNone
<1> QED
  BY <1>1, <1>2, <1>3 DEF HsInv

\* Data and keepalives, either way
LEMMA SendKeeps == ASSUME HsInv, ClientSend \/ ServerSend PROVE HsInv'
<1>1. CASE ClientSend
  BY <1>1, PacketsMove, UpSound DEF ClientSend
<1>2. CASE ServerSend
  <2>1. server.cur \in 1 .. made /\ server.cur # server.next
    BY <1>2, NoneIsNo DEF ServerSend, HsInv, ServerInv, MadeOrNone, Counters
  <2>2. ASSUME NEW m, m = Down(server.cur, server.addr) PROVE Sound(m)'
    <3>1. m.type = "DOWN" /\ m.sid = server.cur
      BY <2>2 DEF Down
    <3> QED
      BY <1>2, <2>1, <3>1 DEF Sound, ServerSend
  <2> QED
    BY <1>2, <2>2, PacketsMove DEF ServerSend
<1> QED
  BY <1>1, <1>2

\* A packet that is late is still the same packet.
LEMMA DelayKeeps == ASSUME HsInv, Delay PROVE HsInv'
BY PacketsMove DEF Delay

\* The time a clock that went back shows is no later than the one issued last.
LEMMA ClockBack ==
    ASSUME NEW i \in Nat, NEW e \in Nat, e <= i
    PROVE  i + 1 - e \in Nat /\ i + 1 - e <= i + 1 /\ (e = 0 => i + 1 - e = i + 1)
OBVIOUS

\* The client's process starts anew, perhaps with an older clock, or the
\* server's does, and has no entry.
LEMMA RestartKeeps == ASSUME HsInv, Restart PROVE HsInv'
<1>1. Counters /\ ClientInv /\ ServerInv /\ MoveInv
  BY DEF HsInv
<1>2. UNCHANGED <<late, made>>
  BY DEF Restart
<1>3. CASE server' = NoEntry /\ UNCHANGED <<client, net, issued, epoch>>
  <2>1. server'.next = None
    BY <1>3 DEF NoEntry
  <2>2. ServerInv'
    BY <1>3 DEF ServerInv, NoEntry, ServerFields, MadeOrNone
  <2>3. Onward /\ MoveInv'
    BY <1>1, <1>2, <1>3, <2>1 DEF Onward, MoveInv, Waits, Counters
  <2>4. PacketInv'
    BY <1>2, <1>3, <2>2, <2>3, PacketsKeep DEF ServerInv
  <2>5. Counters' /\ ClientInv'
    BY <1>2, <1>3, OthersStay
  <2> QED
    BY <2>2, <2>3, <2>4, <2>5 DEF HsInv
<1>4. ASSUME NEW sock, NEW back \in {epoch, issued}, epoch' = back,
             client' = NewClient(sock, issued + 1),
             net' = net \cup {Init1(issued + 1, issued + 1 - back, sock)},
             issued' = issued + 1, UNCHANGED server
      PROVE  HsInv'
  <2>1. Counters'
    BY <1>1, <1>2, <1>4 DEF Counters
  <2>2. ClientInv'
    BY <1>1, <1>4 DEF ClientInv, NewClient, ClientFields, MadeOrNone
  <2>3. ServerInv'
    BY <1>1, <1>2, <1>4 DEF ServerInv, MadeOrNone
  <2>4. Onward
    BY <1>1, <1>2, <1>4 DEF Onward, Counters, ServerInv
  <2>5. ASSUME NEW m, m = Init1(issued + 1, issued + 1 - back, sock) PROVE Sound(m)'
    <3>1. m.type = "INIT" /\ m.h = issued + 1 /\ m.ts = issued + 1 - back
      BY <2>5 DEF Init1
    <3>2. issued' = issued + 1 /\ issued \in Nat /\ back \in Nat /\ back <= issued
      BY <1>1, <1>4 DEF Counters
    <3>3. m.ts \in Nat /\ m.h \in Nat /\ m.ts <= issued' /\ (back = 0 => m.ts = m.h)
      BY <3>1, <3>2, ClockBack
    <3> QED
      BY <1>4, <3>1, <3>3 DEF Sound
  <2>6. PacketInv'
    BY <1>2, <1>4, <2>3, <2>4, <2>5, PacketsKeep DEF ServerInv
  <2>7. MoveInv'
    BY <1>4 DEF MoveInv, Waits, NewClient
  <2> QED
    BY <2>1, <2>2, <2>3, <2>6, <2>7 DEF HsInv
<1> QED
  BY <1>3, <1>4, Zenon DEF Restart

\* A second passes for both.
LEMMA TimePasses == ASSUME HsInv, Tick PROVE HsInv'
<1>1. Counters /\ ClientInv /\ ServerInv /\ MoveInv
  BY DEF HsInv
<1>2. UNCHANGED <<net, late, issued, epoch, made>>
  BY DEF Tick
<1>3. /\ DOMAIN client' = ClientFields /\ client'.cur = client.cur /\ client'.hs = client.hs
      /\ client'.confirm = client.confirm /\ client'.pending = client.pending
      /\ client'.phase = client.phase
      /\ client'.created = IF client.cur = None THEN 0 ELSE Older(client.created, RekeyAfter)
  BY <1>1 DEF Tick, ClientInv, ClientFields
<1>4. client'.created \in Nat /\ client'.created <= client.created + 1
  BY <1>1, <1>3, NoneIsNo DEF Older, Minimum, ClientInv
<1>5. /\ DOMAIN server' = ServerFields /\ server'.active = server.active
      /\ server'.cur = server.cur /\ server'.next = server.next /\ server'.prev = server.prev
      /\ server'.ts = server.ts /\ server'.next_age \in Nat
      /\ server.next # None => server'.next_age = server.next_age + 1
  BY <1>1 DEF Tick, ServerInv, ServerFields
<1>6. Counters'
  BY <1>1, <1>2 DEF Counters
<1>7. ClientInv'
  BY <1>1, <1>2, <1>3, <1>4 DEF ClientInv, MadeOrNone
<1>8. ServerInv'
  BY <1>1, <1>2, <1>5 DEF ServerInv, MadeOrNone
<1>9. Onward
  BY <1>1, <1>2, <1>5 DEF Onward, Counters, ServerInv
<1>10. PacketInv'
  BY <1>2, <1>8, <1>9, PacketsKeep DEF ServerInv
<1>11. MoveInv'
  BY <1>1, <1>2, <1>3, <1>4, <1>5, NoneIsNo DEF MoveInv, Waits, ServerInv, ClientInv
<1> QED
  BY <1>6, <1>7, <1>8, <1>10, <1>11 DEF HsInv

----------------------------------------------------------------------------
\* The invariant holds of every state.
LEMMA HsInvariant == Spec => []HsInv
<1>1. ASSUME HsInv, Next PROVE HsInv'
  <2>1. ASSUME NEW m \in net \cup late, Receive(m), UNCHANGED epoch, late' \subseteq late
        PROVE  HsInv'
    BY <1>1, <2>1, HandleInitKeeps, HandleUpKeeps, ClientReceives DEF Receive, ServerReceive
  <2>2. CASE Deliver \/ Arrive
    <3>1. PICK m \in net \cup late : Receive(m) /\ late' \subseteq late
      BY <2>2 DEF Deliver, Arrive
    <3>2. UNCHANGED epoch
      BY <2>2 DEF Deliver, Arrive
    <3> QED
      BY <2>1, <3>1, <3>2
  <2> QED
    BY <1>1, <2>2, ClientTickKeeps, SendKeeps, ServerTickKeeps, DelayKeeps, RestartKeeps,
       TimePasses DEF Next
<1>2. ASSUME HsInv, UNCHANGED vars PROVE HsInv'
  BY <1>2, PacketsMove DEF vars
<1> QED
  BY StartSound, <1>1, <1>2, PTL DEF Spec

\* server_handle_data(), client_handle_net_packet(): a session the client has
\* confirmed is not in the server's next, where it would expire, for every
\* number of packets that are late, lost or come twice, and of restarts.
THEOREM ConfirmedMoved == Spec => []ConfirmedIsCurrent
<1>1. HsInv => ConfirmedIsCurrent
  BY DEF HsInv, MoveInv, Waits, ConfirmedIsCurrent
<1> QED
  BY <1>1, HsInvariant, PTL

\* server_handle_init(), server_expire_clients(): no message 1 that is late or
\* comes again takes the place of a session the client has moved to, as long
\* as none older than the last fails (the failure would set the timestamp
\* back, see HandleInit).
THEOREM MovesKept == ASSUME ~OldAnswersFail PROVE Spec => MoveKept
<1> DEFINE P == /\ server.next # None /\ server.next = client.cur
                /\ Live(server) /\ server.next_age <= Grace /\ epoch = 0
           Q == client.cur \in {server'.cur, server'.next} \/ ~server'.active
<1>1. ASSUME HsInv, Next, P PROVE Q
  <2>1. /\ Counters /\ ServerInv /\ server.next = client.cur /\ server.next # None
        /\ issued <= server.ts
    BY <1>1 DEF HsInv, MoveInv, Waits
  <2>2. CASE UNCHANGED server
    BY <2>1, <2>2
  <2>3. ASSUME NEW m \in net \cup late, HandleInit(m) PROVE Q
    <3>1. m.ts \in Nat /\ m.ts <= issued
      BY <1>1, <2>3 DEF HsInv, PacketInv, Sound, HandleInit
    <3>2. Stale(m)
      BY <1>1, <2>1, <3>1 DEF Stale, Counters, ServerInv
    <3> QED
      BY <2>2, <2>3, <3>2 DEF HandleInit
  <2>4. ASSUME NEW m \in net \cup late, HandleUp(m) PROVE Q
    <3> DEFINE s == IF m.sid = server.next THEN Promoted(server) ELSE server
    <3>1. CASE m.sid \in Holds(server)
      <4>1. server' = [s EXCEPT !.seen = 0, !.data = 0, !.addr = m.addr, !.had = @ \cup {m.sid}]
        BY <2>4, <3>1 DEF HandleUp
      <4>2. DOMAIN s = ServerFields /\ server.next \in {s.cur, s.next}
        BY <2>1 DEF Promoted, ServerInv, ServerFields
      <4> HIDE DEF s
      <4>3. server'.cur = s.cur /\ server'.next = s.next
        BY <4>1, <4>2 DEF ServerFields
      <4> QED
        BY <2>1, <4>2, <4>3
    <3>2. CASE m.sid \notin Holds(server)
      BY <2>2, <2>4, <3>2 DEF HandleUp
    <3> QED
      BY <3>1, <3>2
  <2>5. CASE Deliver \/ Arrive
    <3>1. PICK m \in net \cup late : Receive(m)
      BY <2>5 DEF Deliver, Arrive
    <3> QED
      BY <2>2, <2>3, <2>4, <3>1 DEF Receive, ServerReceive, ClientReceive
  <2>6. CASE ServerTick
    <3>1. CASE server' = Expired(server)
      BY <1>1, <2>1, <3>1, NoneIsNo DEF Expired, NoEntry, ServerInv, ServerFields
    <3> QED
      BY <2>2, <2>6, <3>1 DEF ServerTick
  <2>7. CASE Tick
    <3>1. server'.next = server.next
      BY <2>1, <2>7 DEF Tick, ServerInv, ServerFields
    <3> QED
      BY <2>1, <3>1
  <2>8. CASE Restart
    BY <2>2, <2>8 DEF Restart, NoEntry
  <2> QED
    BY <1>1, <2>2, <2>5, <2>6, <2>7, <2>8
       DEF Next, ClientTick, ClientSend, ServerSend, Delay
<1>2. ASSUME HsInv, [Next]_vars PROVE [P => Q]_vars
  BY <1>1, <1>2
<1> QED
  BY <1>2, HsInvariant, PTL DEF Spec, MoveKept

----------------------------------------------------------------------------
(* What is in flight.  The sessions that are made, and those a client moves *)
(* to, have growing numbers; a client that has moved moves again only after *)
(* the grace time.  So the sessions the server hears the client on are the  *)
(* newest, or the client's session of before, within the second it moved.   *)

Packets == net \cup late

\* Sessions with a packet of the client on the way, sessions the server has
\* heard the client on or may hear it on, and all anyone has used
Ups == {m.sid : m \in {x \in Packets : x.type = "UP"}}
Heard == server.had \cup Ups
Used == client.had \cup Heard

\* Nobody has used a session newer than the client's,
UsedInv ==
    /\ Used \subseteq 1 .. made
    /\ client.cur = None => client.had = {} /\ client.prev = None
    /\ client.cur # None => client.cur \in client.had /\ \A x \in Used : x <= client.cur

\* ... nor one between that and the one it has left, a rekey ago.
LeftInv ==
    client.prev # None =>
        /\ client.prev \in client.had /\ client.prev < client.cur
        /\ client.prev_age = Minimum(Grace + 1, client.created)
        /\ \A x \in Heard : x <= client.prev \/ x = client.cur
RekeyInv == client.cur # None /\ client.pending => client.created >= RekeyAfter

\* What waits in the server's next is the newest of all; it leaves cur for it
\* when it hears the client there.
EntryInv ==
    /\ server.next # None => server.next = made
    /\ server.prev # None => server.prev < server.cur /\ server.cur \in server.had
FollowsInv == client.cur \in server.had => server.cur = client.cur

\* The answer to the newest message 1 has a session newer than all in use.
AnswerInv ==
    /\ \A m \in Packets : m.type \in {"INIT", "RESP"} => m.h <= issued
    /\ \A m \in Packets :
          m.type = "RESP" /\ client.pending /\ m.h = issued => \A x \in Used : x < m.sid

\* In the second of a move the server still has the session that was left,
NowInv ==
    /\ client.cur # None /\ client.created = 0 /\ server.cur = client.cur
          => server.prev = None \/ server.prev_age = 0
    /\ client.prev # None /\ client.created = 0 /\ client.prev \in server.had
          => \/ server.cur = client.prev
             \/ server.prev = client.prev /\ server.prev_age = 0

\* ... and later nothing in time is on it.
FreshInv ==
    \A m \in net : m.type = "UP" /\ m.sid \in client.had
       => m.sid = client.cur \/ (m.sid = client.prev /\ client.created = 0)

FlightInv == UsedInv /\ LeftInv /\ RekeyInv /\ EntryInv /\ FollowsInv /\ AnswerInv /\ NowInv /\ FreshInv

\* With a server that moves in time it is no different the other way.
InTimeInv ==
    /\ server.cur \in client.had => server.cur \in {client.cur, client.prev}
    /\ \A m \in net : m.type = "DOWN" /\ m.sid \in client.had
          => m.sid = client.cur \/ (m.sid = client.prev /\ client.prev_age <= Grace)

\* A client or an entry that stays what it is, but for timers and what waits,
\* or loses its sessions
ClientStays ==
    /\ \/ client'.cur = None /\ client'.prev = None /\ client'.had = {}
       \/ /\ client'.cur = client.cur /\ client'.prev = client.prev
          /\ client'.prev_age = client.prev_age /\ client'.created = client.created
          /\ client'.had = client.had
          /\ client.cur # None /\ client'.pending
                => client.pending \/ client.created >= RekeyAfter
    /\ client'.pending /\ issued' = issued => client.pending
ServerStays ==
    \/ server'.cur = None /\ server'.next = None /\ server'.prev = None /\ server'.had = {}
    \/ /\ server'.cur = server.cur /\ server'.had = server.had
       /\ server'.next \in {server.next, None}
       /\ \/ server'.prev = server.prev /\ server'.prev_age = server.prev_age
          \/ server'.prev = None /\ (server.prev_age > Grace \/ server.prev = None)

\* Packets such a step may send
Sends(m) ==
    \/ m.type = "UP" /\ m.sid = client.cur /\ client.cur # None /\ client'.cur = client.cur
    \/ m.type = "INIT" /\ m.h = issued'
    \/ m.type = "DOWN" /\ m.sid = server.cur /\ server.cur # None

Calm ==
    /\ ClientStays /\ ServerStays /\ made' = made /\ issued' \in Nat /\ issued <= issued'
    /\ \A m \in net' : m \in net \/ Sends(m)
    /\ \A m \in late' : m \in Packets

\* The types the comparisons need
SessionTypes ==
    /\ made \in Nat /\ issued \in Nat /\ None \notin Nat
    /\ client.cur \in (1 .. made) \cup {None} /\ client.created \in Nat
    /\ server.cur \in (1 .. made) \cup {None} /\ server.next \in (1 .. made) \cup {None}
    /\ server.cur = None => server.next = None /\ server.prev = None
    /\ server.next # None => server.next # server.cur

LEMMA TypesOfSessions == HsInv => SessionTypes
BY NoneIsNo DEF HsInv, Counters, ClientInv, ServerInv, MadeOrNone, SessionTypes

\* A packet of the client is on a session it uses.
LEMMA UpIsUsed ==
    ASSUME NEW m \in Packets, m.type = "UP" PROVE m.sid \in Ups /\ m.sid \in Heard /\ m.sid \in Used
BY DEF Ups, Heard, Used

\* The first message 1 is on no session.
LEMMA NothingInFlight == Init => FlightInv /\ InTimeInv
<1> SUFFICES ASSUME Init PROVE FlightInv /\ InTimeInv
  OBVIOUS
<1>1. /\ client.cur = None /\ client.prev = None /\ client.had = {} /\ server.cur = None
      /\ server.next = None /\ server.prev = None /\ server.had = {} /\ issued = 1
      /\ \A m \in Packets : m.type = "INIT" /\ m.h = 1
  BY DEF Init, NewClient, NoEntry, Init1, Packets
<1>2. Used = {}
  BY <1>1 DEF Used, Heard, Ups
<1>3. AnswerInv
  BY <1>1 DEF AnswerInv
<1>4. FreshInv /\ InTimeInv
  BY <1>1 DEF FreshInv, InTimeInv, Packets
<1> QED
  BY <1>1, <1>2, <1>3, <1>4
     DEF FlightInv, UsedInv, LeftInv, RekeyInv, EntryInv, FollowsInv, NowInv

\* Such a step adds no session to those in use: what is sent is on the
\* client's.
LEMMA CalmUses ==
    ASSUME FlightInv, Calm
    PROVE  /\ Used' \subseteq Used
           /\ \A x \in Heard' : x \in Heard \/ (x = client.cur /\ client'.cur = client.cur)
<1>1. ASSUME NEW x \in Ups' PROVE x \in Ups \/ (x = client.cur /\ client.cur # None /\ client'.cur = client.cur)
  <2>1. PICK m \in Packets' : m.type = "UP" /\ x = m.sid
    BY DEF Ups
  <2>2. m \in Packets \/ Sends(m)
    BY <2>1 DEF Calm, Packets
  <2> QED
    BY <2>1, <2>2 DEF Ups, Sends
<1>2. client'.had \subseteq client.had /\ server'.had \subseteq server.had
  BY DEF Calm, ClientStays, ServerStays
<1>3. client.cur # None => client.cur \in Used
  BY DEF FlightInv, UsedInv, Used
<1> QED
  BY <1>1, <1>2, <1>3 DEF Used, Heard

\* Such a step keeps the invariant.
LEMMA CalmKeeps == ASSUME HsInv, FlightInv, Calm PROVE FlightInv'
<1>1. /\ UsedInv /\ LeftInv /\ RekeyInv /\ EntryInv /\ FollowsInv /\ AnswerInv /\ NowInv /\ FreshInv
      /\ SessionTypes
  BY TypesOfSessions DEF FlightInv
<1>2. /\ Used' \subseteq Used /\ made' = made
      /\ \A x \in Heard' : x \in Heard \/ (x = client.cur /\ client'.cur = client.cur)
  BY CalmUses DEF Calm
<1>3. ClientStays /\ ServerStays
  BY DEF Calm
<1>4. UsedInv'
  BY <1>1, <1>2, <1>3 DEF UsedInv, ClientStays
<1>5. LeftInv'
  BY <1>1, <1>2, <1>3 DEF LeftInv, ClientStays
<1>6. RekeyInv'
  BY <1>1, <1>3 DEF RekeyInv, ClientStays
<1>7. EntryInv'
  BY <1>1, <1>2, <1>3 DEF EntryInv, ServerStays
<1>8. FollowsInv'
  <2>1. None \notin server.had
    BY <1>1 DEF UsedInv, Used, Heard, SessionTypes
  <2> QED
    BY <1>1, <1>3, <2>1 DEF FollowsInv, ClientStays, ServerStays
<1>9. AnswerInv'
  <2>1. ASSUME NEW m \in Packets' PROVE m \in Packets \/ Sends(m)
    BY DEF Calm, Packets
  <2>2. ASSUME NEW m \in Packets', m.type \in {"INIT", "RESP"} PROVE m.h <= issued'
    <3>1. m \in Packets => m.h <= issued
      BY <1>1, <2>2 DEF AnswerInv
    <3>2. m \in Packets => m.h \in Nat
      BY <2>2 DEF HsInv, PacketInv, Sound, Packets
    <3> QED
      BY <1>1, <2>1, <2>2, <3>1, <3>2 DEF Sends, Calm, SessionTypes
  <2>3. ASSUME NEW m \in Packets', m.type = "RESP", client'.pending, m.h = issued'
        PROVE  \A x \in Used' : x < m.sid
    <3>1. m \in Packets /\ m.h <= issued
      BY <1>1, <2>1, <2>3 DEF Sends, AnswerInv
    <3>2. issued' = issued /\ client.pending
      BY <1>1, <1>3, <2>3, <3>1 DEF Calm, SessionTypes, ClientStays
    <3> QED
      BY <1>1, <1>2, <2>3, <3>1, <3>2 DEF AnswerInv
  <2> QED
    BY <2>2, <2>3 DEF AnswerInv
<1>10. NowInv'
  BY <1>1, <1>3, NoneIsNo DEF NowInv, ClientStays, ServerStays
<1>11. FreshInv'
  <2> SUFFICES ASSUME NEW m \in net', m.type = "UP", m.sid \in client'.had
               PROVE  m.sid = client'.cur \/ (m.sid = client'.prev /\ client'.created = 0)
    BY DEF FreshInv
  <2>1. m \in net \/ Sends(m)
    BY DEF Calm
  <2> QED
    BY <1>1, <1>3, <2>1 DEF FreshInv, ClientStays, Sends
<1> QED
  BY <1>4, <1>5, <1>6, <1>7, <1>8, <1>9, <1>10, <1>11 DEF FlightInv

\* ... and what the server sends is on the client's session, or the one
\* it opens still.
LEMMA CalmInTime == ASSUME HsInv, FlightInv, InTimeInv, MovesInTime, Calm PROVE InTimeInv'
<1>1. LeftInv /\ ClientStays /\ ServerStays /\ SessionTypes
  BY TypesOfSessions DEF FlightInv, Calm
<1>2. None \notin client.had
  BY <1>1 DEF FlightInv, UsedInv, Used, SessionTypes
<1>3. server'.cur \in client'.had => server'.cur \in {client'.cur, client'.prev}
  BY <1>1, <1>2 DEF InTimeInv, ClientStays, ServerStays
<1>4. ASSUME NEW m \in net', m.type = "DOWN", m.sid \in client'.had
      PROVE  m.sid = client'.cur \/ (m.sid = client'.prev /\ client'.prev_age <= Grace)
  <2>1. client'.cur = client.cur /\ client'.prev = client.prev /\ client'.prev_age = client.prev_age
        /\ client'.had = client.had
    BY <1>1, <1>4 DEF ClientStays
  <2>2. CASE m \in net
    BY <1>4, <2>1, <2>2 DEF InTimeInv
  <2>3. CASE Sends(m)
    <3>1. m.sid = server.cur /\ server.cur \in client.had
      BY <1>4, <2>1, <2>3 DEF Sends
    <3>2. server.cur = client.cur \/ (server.cur = client.prev /\ client.created <= Grace)
      BY <1>1, <3>1, NoneIsNo DEF InTimeInv, MovesInTime, SessionTypes
    <3>3. server.cur = client.prev /\ client.created <= Grace => client.prev_age <= Grace
      BY <1>1, <1>2, <3>1, NoneIsNo DEF LeftInv, Minimum, SessionTypes
    <3> QED
      BY <2>1, <3>1, <3>2, <3>3
  <2> QED
    BY <2>2, <2>3 DEF Calm
<1> QED
  BY <1>3, <1>4 DEF InTimeInv

----------------------------------------------------------------------------
(* The steps that move sessions *)

\* client_handle_resp(): a session newer than all in use.  The client does not
\* move twice within the grace time, so what it leaves is what both were on.
LEMMA RespKeeps ==
    ASSUME HsInv, FlightInv, NEW m \in Packets, HandleResp(m),
           UNCHANGED <<server, issued, made>>, late' \subseteq late
    PROVE  FlightInv' /\ (InTimeInv /\ MovesInTime => InTimeInv')
<1>1. /\ UsedInv /\ LeftInv /\ RekeyInv /\ EntryInv /\ FollowsInv /\ AnswerInv /\ NowInv /\ FreshInv
      /\ SessionTypes
  BY TypesOfSessions DEF FlightInv
<1>2. /\ m.type = "RESP" /\ client.pending /\ m.h = issued
      /\ client' = Moved(client, m.sid)
      /\ net' = (net \ {m}) \cup {Up(m.sid, TRUE, client.sock)}
  BY DEF HandleResp, HsInv, ClientInv
<1>3. /\ client'.cur = m.sid /\ client'.prev = client.cur /\ client'.created = 0
      /\ client.cur # None => client'.prev_age = 0
      /\ client'.pending = FALSE /\ client'.had = client.had \cup {m.sid}
  BY <1>2 DEF HsInv, ClientInv, Moved, ClientFields
<1>4. m.sid \in 1 .. made /\ m.sid # None /\ \A x \in Used : x < m.sid
  BY <1>1, <1>2 DEF HsInv, PacketInv, Sound, AnswerInv, SessionTypes, Packets
<1>5. ASSUME NEW k \in Packets', k \notin Packets PROVE k.type = "UP" /\ k.sid = m.sid
  BY <1>2, <1>5 DEF Packets, Up
<1>6. /\ \A x \in Heard' : x \in Heard \/ x = m.sid
      /\ \A x \in Used' : x \in Used \/ x = m.sid
  <2>1. \A x \in Ups' : x \in Ups \/ x = m.sid
    <3> SUFFICES ASSUME NEW k \in Packets', k.type = "UP" PROVE k.sid \in Ups \/ k.sid = m.sid
      BY DEF Ups
    <3> QED
      BY <1>5, UpIsUsed
  <2> QED
    BY <1>3, <2>1 DEF Heard, Used
<1>7. client.cur # None => /\ client.cur \in Used /\ client.cur < m.sid /\ client.created > Grace
                           /\ client.created # 0 /\ client.prev # client.cur
                           /\ \A x \in Used : x <= client.cur
  <2>1. client.cur # None => client.cur \in Used /\ client.created >= RekeyAfter
    BY <1>1, <1>2 DEF UsedInv, Used, RekeyInv
  <2> QED
    BY <1>1, <1>4, <2>1, NoneIsNo DEF LeftInv, UsedInv, SessionTypes
<1>8. UsedInv'
  <2>1. Used \subseteq Nat /\ m.sid \in Nat
    BY <1>1, <1>4 DEF UsedInv, SessionTypes
  <2>2. ASSUME NEW x \in Used' PROVE x <= m.sid
    <3>1. x = m.sid \/ (x \in Nat /\ x < m.sid)
      BY <1>4, <1>6, <2>1
    <3> QED
      BY <2>1, <3>1
  <2> QED
    BY <1>1, <1>3, <1>4, <1>6, <2>2 DEF UsedInv
<1>9. LeftInv'
  <2> SUFFICES ASSUME client.cur # None PROVE LeftInv'
    BY <1>3 DEF LeftInv
  <2>1. client'.prev \in client'.had /\ client'.prev < client'.cur
    BY <1>1, <1>3, <1>7 DEF UsedInv
  <2>2. client'.prev_age = Minimum(Grace + 1, client'.created)
    BY <1>3, NoneIsNo DEF Minimum
  <2>3. \A x \in Heard' : x <= client'.prev \/ x = client'.cur
    BY <1>3, <1>6, <1>7 DEF Used
  <2> QED
    BY <2>1, <2>2, <2>3 DEF LeftInv
<1>10. RekeyInv' /\ EntryInv'
  BY <1>1, <1>3 DEF RekeyInv, EntryInv
<1>11. server.had \subseteq Used /\ m.sid \notin Used
  <2>1. \A x \in Used : x \in Nat
    BY <1>1 DEF UsedInv, SessionTypes
  <2> QED
    BY <1>4, <2>1 DEF Used, Heard
<1>12. FollowsInv'
  BY <1>3, <1>11 DEF FollowsInv
<1>13. AnswerInv'
  <2>1. ASSUME NEW k \in Packets', k.type \in {"INIT", "RESP"} PROVE k.h <= issued'
    BY <1>1, <1>5, <2>1 DEF AnswerInv
  <2> QED
    BY <1>3, <2>1 DEF AnswerInv
<1>14. NowInv'
  <2>1. server.cur = m.sid => server.prev = None
    BY <1>1, <1>11 DEF EntryInv
  <2>2. client.cur # None /\ client.cur \in server.had => server.cur = client.cur
    BY <1>1 DEF FollowsInv
  <2> QED
    BY <1>3, <2>1, <2>2 DEF NowInv
<1>15. FreshInv'
  <2> SUFFICES ASSUME NEW k \in net', k.type = "UP", k.sid \in client'.had
               PROVE  k.sid = client'.cur \/ (k.sid = client'.prev /\ client'.created = 0)
    BY DEF FreshInv
  <2>1. CASE k \in net /\ k.sid \in client.had
    <3>1. client.cur # None
      BY <1>1, <2>1 DEF UsedInv
    <3> QED
      BY <1>1, <1>3, <1>7, <2>1, <3>1 DEF FreshInv
  <2>2. CASE k \notin net
    BY <1>2, <1>3, <2>2 DEF Up
  <2> QED
    BY <1>3, <2>1, <2>2
<1>16. ASSUME InTimeInv, MovesInTime PROVE InTimeInv'
  <2>1. server.cur \in client.had => server.cur = client.cur
    BY <1>1, <1>7, <1>16 DEF MovesInTime, UsedInv
  <2>2. server'.cur \in client'.had => server'.cur \in {client'.cur, client'.prev}
    BY <1>3, <2>1
  <2>3. ASSUME NEW k \in net', k.type = "DOWN", k.sid \in client'.had
        PROVE  k.sid = client'.cur \/ (k.sid = client'.prev /\ client'.prev_age <= Grace)
    <3>1. k \in net
      BY <1>2, <2>3 DEF Up
    <3>2. CASE k.sid \in client.had
      <4>1. client.cur # None
        BY <1>1, <3>2 DEF UsedInv
      <4>2. k.sid = client.cur \/ (k.sid = client.prev /\ client.prev_age <= Grace)
        BY <1>16, <2>3, <3>1, <3>2 DEF InTimeInv
      <4>3. CASE k.sid = client.prev /\ client.prev_age <= Grace
        <5>1. client.prev # None
          BY <1>1, <3>2, <4>3 DEF UsedInv, Used, SessionTypes
        <5> QED
          BY <1>1, <1>7, <4>1, <4>3, <5>1, NoneIsNo DEF LeftInv, Minimum, SessionTypes
      <4> QED
        BY <1>3, <4>1, <4>2, <4>3, NoneIsNo
    <3> QED
      BY <1>3, <2>3, <3>2
  <2> QED
    BY <2>2, <2>3 DEF InTimeInv
<1> QED
  BY <1>8, <1>9, <1>10, <1>12, <1>13, <1>14, <1>15, <1>16 DEF FlightInv

\* server_handle_init(): the session of an accepted message 1 is the newest.
LEMMA AcceptKeeps ==
    ASSUME HsInv, FlightInv, NEW m \in Packets, m.type = "INIT",
           server' = Accepted(m, made + 1), made' = made + 1,
           net' = (net \ {m}) \cup {Resp(m.h, made + 1, m.addr)},
           UNCHANGED <<client, issued>>, late' \subseteq late
    PROVE  FlightInv' /\ (InTimeInv => InTimeInv')
<1>1. /\ UsedInv /\ LeftInv /\ RekeyInv /\ EntryInv /\ FollowsInv /\ AnswerInv /\ NowInv /\ FreshInv
      /\ SessionTypes
  BY TypesOfSessions DEF FlightInv
<1>2. \/ /\ server'.cur = server.cur /\ server'.next = made + 1 /\ server'.prev = server.prev
         /\ server'.prev_age = server.prev_age /\ server'.had = server.had
      \/ /\ server'.cur = made + 1 /\ server'.next = None /\ server'.prev = None
         /\ server'.had = {}
  <2>1. CASE server.active /\ server.cur # None
    <3>1. server' = [server EXCEPT !.next = made + 1, !.next_age = 0, !.seen = 0, !.ts = m.ts]
      BY <2>1 DEF Accepted
    <3> QED
      BY <3>1 DEF HsInv, ServerInv, ServerFields
  <2>2. CASE ~(server.active /\ server.cur # None)
    <3>1. server' = [NoEntry EXCEPT !.active = TRUE, !.cur = made + 1, !.ts = m.ts, !.addr = m.addr]
      BY <2>2 DEF Accepted
    <3> QED
      BY <3>1 DEF NoEntry
  <2> QED
    BY <2>1, <2>2
<1>3. ASSUME NEW k \in Packets', k \notin Packets
      PROVE  k.type = "RESP" /\ k.sid = made + 1 /\ k.h = m.h
  BY <1>3 DEF Packets, Resp
<1>4. Ups' \subseteq Ups
  <2> SUFFICES ASSUME NEW k \in Packets', k.type = "UP" PROVE k.sid \in Ups
    BY DEF Ups
  <2> QED
    BY <1>3, UpIsUsed
<1>5. Heard' \subseteq Heard /\ Used' \subseteq Used /\ made + 1 \notin Used
  BY <1>1, <1>2, <1>4 DEF Heard, Used, UsedInv, SessionTypes
<1>6. UsedInv' /\ LeftInv' /\ RekeyInv'
  <2>1. UsedInv'
    <3>1. client' = client /\ made' = made + 1 /\ made \in Nat
      BY <1>1 DEF SessionTypes
    <3>2. \A k \in 1 .. made : k \in 1 .. made + 1
      BY <3>1
    <3>3. Used' \subseteq 1 .. made'
      BY <1>1, <1>5, <3>1, <3>2 DEF UsedInv
    <3>4. \A k \in Used' : k \in Used
      BY <1>5
    <3> QED
      BY <1>1, <3>1, <3>3, <3>4 DEF UsedInv
  <2> QED
    BY <1>1, <1>5, <2>1 DEF LeftInv, RekeyInv
<1>7. EntryInv' /\ FollowsInv'
  BY <1>1, <1>2 DEF EntryInv, FollowsInv
<1>8. AnswerInv'
  <2>1. ASSUME NEW k \in Packets', k.type \in {"INIT", "RESP"} PROVE k.h <= issued'
    BY <1>1, <1>3, <2>1 DEF AnswerInv
  <2>2. ASSUME NEW k \in Packets', k.type = "RESP", client'.pending, k.h = issued'
        PROVE  \A x \in Used' : x < k.sid
    <3>1. \A x \in Used : x < made + 1
      BY <1>1 DEF UsedInv, SessionTypes
    <3> QED
      BY <1>1, <1>3, <1>5, <2>2, <3>1 DEF AnswerInv
  <2> QED
    BY <2>1, <2>2 DEF AnswerInv
<1>9. NowInv'
  BY <1>1, <1>2 DEF NowInv
<1>10. net' \ net \subseteq {Resp(m.h, made + 1, m.addr)}
  OBVIOUS
<1>11. FreshInv' /\ (InTimeInv => InTimeInv')
  <2>1. ASSUME NEW k \in net', k.type # "RESP" PROVE k \in net
    BY <1>10, <2>1 DEF Resp
  <2>2. FreshInv'
    BY <1>1, <2>1 DEF FreshInv
  <2>3. made + 1 \notin client.had
    BY <1>5 DEF Used
  <2> QED
    BY <1>2, <2>1, <2>2, <2>3 DEF InTimeInv
<1> QED
  BY <1>6, <1>7, <1>8, <1>9, <1>11 DEF FlightInv

\* server_handle_data() on next: the client has moved there, so what it had
\* before is what the server leaves.
LEMMA PromotionKeeps ==
    ASSUME HsInv, FlightInv, NEW m \in Packets, m.type = "UP",
           m.sid = server.next, server.next # None,
           server'.cur = server.next, server'.prev = server.cur, server'.prev_age = 0,
           server'.next = None, server'.had = server.had \cup {m.sid}
    PROVE  /\ client.cur # None => client.cur = server.next
           /\ server.cur < server.next
           /\ EntryInv' /\ (UNCHANGED client => FollowsInv' /\ NowInv')
<1>1. UsedInv /\ LeftInv /\ EntryInv /\ FollowsInv /\ NowInv /\ SessionTypes
  BY TypesOfSessions DEF FlightInv
<1>2. server.next = made /\ m.sid \in Used /\ m.sid \in Heard
  BY <1>1, UpIsUsed DEF EntryInv
<1>3. client.cur # None => client.cur = server.next
  BY <1>1, <1>2 DEF UsedInv, SessionTypes
<1>4. server.cur # None /\ server.cur < server.next
  BY <1>1, <1>2 DEF SessionTypes
<1>5. EntryInv'
  BY <1>4 DEF EntryInv
<1>6. ASSUME UNCHANGED client PROVE FollowsInv' /\ NowInv'
  <2>1. None \notin server'.had
    BY <1>1, <1>2 DEF UsedInv, Used, Heard, SessionTypes
  <2>2. FollowsInv'
    BY <1>3, <1>6, <2>1 DEF FollowsInv
  <2>3. ASSUME client.prev # None, client.created = 0, client.prev \in server'.had
        PROVE  server'.cur = client.prev \/ server'.prev = client.prev
    <3>1. CASE client.prev \in server.had
      <4>1. CASE server.cur = client.prev
        BY <4>1
      <4>2. CASE server.prev = client.prev /\ server.cur # client.prev
        <5>1. server.prev # None /\ server.cur \in server.had /\ server.prev < server.cur
          BY <1>1, <2>3, <4>2 DEF EntryInv
        <5>2. server.cur <= client.prev \/ server.cur = client.cur
          BY <1>1, <2>3, <5>1 DEF LeftInv, Heard
        <5>3. client.cur # None
          BY <1>1, <2>3 DEF UsedInv
        <5>4. server.cur \in Nat /\ client.prev \in Nat
          BY <1>1, <1>4, <2>3 DEF LeftInv, UsedInv, Used, SessionTypes
        <5>5. server.cur = client.cur
          BY <4>2, <5>1, <5>2, <5>4
        <5> QED
          BY <1>1, <1>3, <1>4, <5>3, <5>4, <5>5
      <4> QED
        BY <1>1, <2>3, <3>1, <4>1, <4>2 DEF NowInv
    <3>2. CASE client.prev \notin server.had
      BY <2>3, <3>2
    <3> QED
      BY <3>1, <3>2
  <2> QED
    BY <1>6, <2>2, <2>3 DEF NowInv
<1> QED
  BY <1>3, <1>4, <1>5, <1>6

\* ... on cur or prev: a client that has moved, and is heard, is not on prev.
LEMMA DataKeeps ==
    ASSUME HsInv, FlightInv, NEW m \in Packets, m.type = "UP",
           m.sid \in Holds(server), m.sid # server.next, UNCHANGED client,
           server'.cur = server.cur, server'.prev = server.prev,
           server'.prev_age = server.prev_age, server'.next = server.next, UNCHANGED made,
           server'.had = server.had \cup {m.sid}
    PROVE  EntryInv' /\ FollowsInv' /\ NowInv'
<1>1. UsedInv /\ LeftInv /\ EntryInv /\ FollowsInv /\ NowInv /\ SessionTypes
  BY TypesOfSessions DEF FlightInv
<1>2. m.sid \in Used /\ m.sid \in 1 .. made /\ m.sid # None
  <2>1. m.sid \in Used
    BY UpIsUsed
  <2>2. m.sid \in 1 .. made
    BY <1>1, <2>1 DEF UsedInv
  <2>3. None \notin 1 .. made
    BY <1>1 DEF SessionTypes
  <2> QED
    BY <2>1, <2>2, <2>3
<1>3. m.sid = server.cur \/ m.sid = server.prev
  BY <1>2 DEF Holds
<1>4. m.sid = server.prev => /\ server.prev # None /\ server.cur \in server.had
                             /\ server.prev < server.cur
  BY <1>1, <1>2 DEF EntryInv
<1>5. EntryInv'
  BY <1>1 DEF EntryInv
<1>6. FollowsInv'
  <2>1. CASE client.cur = m.sid /\ m.sid # server.cur
    <3>1. server.cur \in Used /\ server.cur \in 1 .. made
      BY <1>1, <1>3, <1>4, <2>1 DEF Used, Heard, UsedInv
    <3> QED
      BY <1>1, <1>2, <1>3, <1>4, <2>1, <3>1 DEF UsedInv, SessionTypes
  <2> QED
    BY <1>1, <2>1 DEF FollowsInv
<1>7. NowInv'
  <2> SUFFICES ASSUME client.prev # None, client.created = 0, client.prev \in server'.had
               PROVE  \/ server.cur = client.prev
                      \/ server.prev = client.prev /\ server.prev_age = 0
    BY <1>1 DEF NowInv
  <2>1. CASE client.prev \in server.had \/ m.sid = server.cur
    BY <1>1, <2>1 DEF NowInv
  <2>2. CASE m.sid = server.prev /\ m.sid = client.prev
    <3>1. server.cur \in Heard /\ server.cur \in 1 .. made
      BY <1>1, <1>4, <2>2 DEF UsedInv, Used, Heard
    <3>2. server.cur = client.cur
      BY <1>1, <1>2, <1>4, <2>2, <3>1 DEF LeftInv, SessionTypes
    <3>3. client.cur # None
      BY <1>1, <3>1, <3>2 DEF SessionTypes
    <3> QED
      BY <1>1, <1>4, <2>2, <3>2, <3>3 DEF NowInv
  <2> QED
    BY <1>3, <2>1, <2>2
<1> QED
  BY <1>5, <1>6, <1>7

\* server_handle_data()
LEMMA UpKeeps ==
    ASSUME HsInv, FlightInv, NEW m \in Packets, HandleUp(m), m.sid \in Holds(server),
           UNCHANGED issued, late' \subseteq late
    PROVE  FlightInv' /\ (InTimeInv /\ MovesInTime' => InTimeInv')
<1>1. /\ UsedInv /\ LeftInv /\ RekeyInv /\ EntryInv /\ FollowsInv /\ AnswerInv /\ NowInv /\ FreshInv
      /\ SessionTypes
  BY TypesOfSessions DEF FlightInv
<1> DEFINE s == IF m.sid = server.next THEN Promoted(server) ELSE server
<1>2. /\ server' = [s EXCEPT !.seen = 0, !.data = 0, !.addr = m.addr, !.had = @ \cup {m.sid}]
      /\ net' = (net \ {m}) \cup {x \in {Down(s.cur, m.addr)} : m.ka}
      /\ UNCHANGED <<client, made>> /\ m.type = "UP"
  BY DEF HandleUp
<1>3. m.sid \in Used /\ m.sid \in Ups /\ m.sid \in 1 .. made /\ m.sid # None
  BY <1>1, <1>2, UpIsUsed DEF UsedInv, SessionTypes
<1>4. /\ DOMAIN s = ServerFields /\ s.had = server.had
      /\ \/ /\ m.sid = server.next /\ s.cur = server.next /\ s.prev = server.cur
            /\ s.prev_age = 0 /\ s.next = None
         \/ /\ m.sid # server.next /\ s.cur = server.cur /\ s.prev = server.prev
            /\ s.prev_age = server.prev_age /\ s.next = server.next
  <2>1. CASE m.sid = server.next
    BY <2>1 DEF Promoted, HsInv, ServerInv, ServerFields
  <2>2. CASE m.sid # server.next
    BY <2>2 DEF HsInv, ServerInv
  <2> QED
    BY <2>1, <2>2
<1> HIDE DEF s
<1>5. /\ server'.cur = s.cur /\ server'.prev = s.prev /\ server'.prev_age = s.prev_age
      /\ server'.next = s.next /\ server'.had = server.had \cup {m.sid}
  BY <1>2, <1>4 DEF ServerFields
<1>6. EntryInv' /\ FollowsInv' /\ NowInv'
  <2>1. CASE m.sid = server.next
    BY <1>2, <1>3, <1>4, <1>5, <2>1, PromotionKeeps
  <2>2. CASE m.sid # server.next
    BY <1>2, <1>4, <1>5, <2>2, DataKeeps
  <2> QED
    BY <2>1, <2>2
<1>7. ASSUME NEW k \in net', k \notin net PROVE k.type = "DOWN" /\ k.sid = server'.cur
  BY <1>2, <1>5, <1>7 DEF Down
<1>8. ASSUME NEW k \in Packets', k \notin Packets PROVE k.type = "DOWN"
  BY <1>7, <1>8 DEF Packets
<1>9. Ups' \subseteq Ups
  <2> SUFFICES ASSUME NEW k \in Packets', k.type = "UP" PROVE k.sid \in Ups
    BY DEF Ups
  <2> QED
    BY <1>8, UpIsUsed
<1>10. Heard' \subseteq Heard /\ Used' \subseteq Used
  BY <1>2, <1>3, <1>5, <1>9 DEF Heard, Used
<1>11. UsedInv' /\ LeftInv' /\ RekeyInv'
  <2>1. UsedInv'
    BY <1>1, <1>2, <1>10 DEF UsedInv
  <2> QED
    BY <1>1, <1>2, <1>10, <2>1 DEF LeftInv, RekeyInv
<1>12. AnswerInv'
  <2>1. ASSUME NEW k \in Packets', k.type \in {"INIT", "RESP"} PROVE k \in Packets
    BY <1>8, <2>1
  <2> QED
    BY <1>1, <1>2, <1>10, <2>1 DEF AnswerInv
<1>13. FreshInv'
  <2>1. ASSUME NEW k \in net', k.type = "UP" PROVE k \in net
    BY <1>7, <2>1
  <2> QED
    BY <1>1, <1>2, <2>1 DEF FreshInv
<1>14. ASSUME InTimeInv, MovesInTime' PROVE InTimeInv'
  <2>1. server'.cur \in client'.had => server'.cur \in {client'.cur, client'.prev}
    <3>1. CASE m.sid = server.next /\ server.next \in client.had
      <4>1. client.cur # None
        BY <1>1, <3>1 DEF UsedInv
      <4> QED
        BY <1>2, <1>3, <1>4, <1>5, <3>1, <4>1, PromotionKeeps
    <3> QED
      BY <1>2, <1>4, <1>5, <1>14, <3>1 DEF InTimeInv
  <2>2. ASSUME NEW k \in net', k.type = "DOWN", k.sid \in client'.had
        PROVE  k.sid = client'.cur \/ (k.sid = client'.prev /\ client'.prev_age <= Grace)
    <3>1. CASE k \in net
      BY <1>2, <1>14, <2>2, <3>1 DEF InTimeInv
    <3>2. CASE k \notin net
      <4>1. server'.cur \in client'.had /\ k.sid = server'.cur
        BY <1>7, <2>2, <3>2
      <4>2. server'.cur = client'.cur \/ (server'.cur = client'.prev /\ client'.created <= Grace)
        BY <1>1, <1>2, <1>14, <2>1, <4>1, NoneIsNo DEF MovesInTime, SessionTypes
      <4>3. server'.cur # None
        BY <1>1, <1>2, <4>1 DEF UsedInv, Used, SessionTypes
      <4> QED
        BY <1>1, <1>2, <4>1, <4>2, <4>3, NoneIsNo DEF LeftInv, Minimum, SessionTypes
    <3> QED
      BY <3>1, <3>2
  <2> QED
    BY <2>1, <2>2 DEF InTimeInv
<1> QED
  BY <1>6, <1>11, <1>12, <1>13, <1>14 DEF FlightInv

\* A second passes, and nothing is on the way that is not late.
LEMMA SecondKeeps ==
    ASSUME HsInv, FlightInv, Tick PROVE FlightInv' /\ (InTimeInv => InTimeInv')
<1>1. /\ UsedInv /\ LeftInv /\ RekeyInv /\ EntryInv /\ FollowsInv /\ AnswerInv /\ NowInv /\ FreshInv
      /\ SessionTypes
  BY TypesOfSessions DEF FlightInv
<1>2. net = {} /\ UNCHANGED <<net, late, issued, made>>
  BY DEF Tick
<1>3. /\ client'.cur = client.cur /\ client'.prev = client.prev /\ client'.had = client.had
      /\ client'.pending = client.pending
      /\ client.prev # None => client'.prev_age = Older(client.prev_age, Grace + 1)
      /\ client.cur # None => client'.created = Older(client.created, RekeyAfter)
  BY DEF Tick, HsInv, ClientInv, ClientFields
<1>4. /\ server'.cur = server.cur /\ server'.next = server.next /\ server'.prev = server.prev
      /\ server'.had = server.had
  BY DEF Tick, HsInv, ServerInv, ServerFields
<1>5. Packets' = Packets /\ Used' = Used /\ Heard' = Heard
  BY <1>2, <1>3, <1>4 DEF Packets, Used, Heard, Ups
<1>6. client.cur # None => client'.created = Minimum(RekeyAfter, client.created + 1)
  BY <1>1, <1>3, NoneIsNo DEF Older, SessionTypes
<1>7. client.cur # None => client'.created \in Nat \ {0}
  BY <1>1, <1>6, NoneIsNo DEF Minimum, SessionTypes
<1>8. UsedInv' /\ EntryInv' /\ FollowsInv'
  BY <1>1, <1>2, <1>3, <1>4, <1>5 DEF UsedInv, EntryInv, FollowsInv
<1>9. LeftInv'
  <2> SUFFICES ASSUME client.prev # None PROVE LeftInv'
    BY <1>3 DEF LeftInv
  <2>1. client.prev_age = Minimum(Grace + 1, client.created) /\ client.cur # None
    BY <1>1 DEF LeftInv, UsedInv
  <2>2. client.prev_age \in Nat
    BY <1>1, <2>1, NoneIsNo DEF Minimum, SessionTypes
  <2>3. client'.prev_age = Minimum(Grace + 1, client.prev_age + 1)
    BY <1>3, <2>2, NoneIsNo DEF Older
  <2>4. client'.prev_age = Minimum(Grace + 1, client'.created)
    BY <1>1, <1>6, <2>1, <2>3, NoneIsNo DEF Minimum, SessionTypes
  <2> QED
    BY <1>1, <1>3, <1>5, <2>4 DEF LeftInv
<1>10. RekeyInv'
  BY <1>1, <1>3, <1>6, NoneIsNo DEF RekeyInv, Minimum, SessionTypes
<1>11. AnswerInv'
  BY <1>1, <1>2, <1>3, <1>5 DEF AnswerInv
<1>12. NowInv'
  <2>1. client'.prev # None => client'.cur # None
    BY <1>1, <1>3 DEF UsedInv
  <2> QED
    BY <1>3, <1>7, <2>1 DEF NowInv
<1>13. FreshInv' /\ (InTimeInv => InTimeInv')
  BY <1>2, <1>3, <1>4 DEF FreshInv, InTimeInv
<1> QED
  BY <1>8, <1>9, <1>10, <1>11, <1>12, <1>13 DEF FlightInv

----------------------------------------------------------------------------
(* The other steps *)

\* A step of the client alone
LEMMA CalmClient ==
    ASSUME HsInv, UNCHANGED <<server, late, made>>, ClientStays, issued' \in {issued, issued + 1},
           \A m \in net' : m \in net \/ Sends(m)
    PROVE  Calm
<1>1. ServerStays
  BY DEF ServerStays
<1>2. issued \in Nat
  BY DEF HsInv, Counters
<1> QED
  BY <1>1, <1>2 DEF Calm, Packets

\* Message 1 is the newest.
LEMMA MessageSent == ASSUME issued' = issued + 1, NEW c, NEW m, m = Message1(c) PROVE Sends(m)
BY DEF Message1, Init1, Sends

\* A client that sends message 1 keeps its sessions: it had none, or its
\* handshake was pending, or it rekeys.
LEMMA SentStays ==
    ASSUME NEW c, DOMAIN c = ClientFields, client' \in {Sent(c), Started(c)},
           issued' = issued + 1, issued \in Nat,
           \/ c.cur = None /\ c.prev = None /\ c.had = {}
           \/ /\ c.cur = client.cur /\ c.prev = client.prev /\ c.prev_age = client.prev_age
              /\ c.created = client.created /\ c.had = client.had
              /\ client.cur # None => client.pending \/ client.created >= RekeyAfter
    PROVE  ClientStays
<1>1. /\ client'.cur = c.cur /\ client'.prev = c.prev /\ client'.prev_age = c.prev_age
      /\ client'.created = c.created /\ client'.had = c.had
  BY DEF Sent, Started, ClientFields
<1>2. issued' # issued
  OBVIOUS
<1> QED
  BY <1>1, <1>2 DEF ClientStays

\* client_wait_for_config() and client_wait_reconnect()
LEMMA WaitCalm ==
    ASSUME HsInv, WaitRetries \/ WaitGivesUp \/ WaitPauses, UNCHANGED <<server, late, made>>
    PROVE  Calm
<1>1. DOMAIN client = ClientFields /\ issued \in Nat
  BY DEF HsInv, ClientInv, Counters
<1>2. client.cur = None
  BY DEF HsInv, ClientInv, WaitRetries, WaitGivesUp, WaitPauses
<1>3. CASE UNCHANGED <<client, issued, net>>
  BY <1>3, CalmClient DEF ClientStays
<1>4. ASSUME client' = Sent(client), issued' = issued + 1, net' = net \cup {Message1(client)}
      PROVE  Calm
  <2>1. ClientStays
    BY <1>1, <1>2, <1>4, SentStays
  <2>2. \A m \in net' : m \in net \/ Sends(m)
    BY <1>4, MessageSent
  <2> QED
    BY <1>4, <2>1, <2>2, CalmClient
<1>5. ASSUME NEW sock, NEW c,
             c = [client EXCEPT !.phase = "wait", !.up = TRUE, !.sock = sock,
                                !.since = 0, !.reconnect = None],
             client' = Started(c), net' = net \cup {Message1(c)}, issued' = issued + 1
      PROVE  Calm
  <2>1. /\ DOMAIN c = ClientFields /\ c.cur = client.cur /\ c.prev = client.prev
        /\ c.prev_age = client.prev_age /\ c.created = client.created /\ c.had = client.had
    BY <1>1, <1>5 DEF ClientFields
  <2>2. ClientStays
    BY <1>1, <1>2, <1>5, <2>1, SentStays
  <2>3. \A m \in net' : m \in net \/ Sends(m)
    BY <1>5, MessageSent
  <2> QED
    BY <1>5, <2>2, <2>3, CalmClient
<1>6. ASSUME UNCHANGED <<issued, net>>,
             \/ client' = [client EXCEPT !.reconnect = Interval]
             \/ client' = [client EXCEPT !.phase = "pause", !.up = FALSE, !.reconnect = Interval]
      PROVE  Calm
  <2>1. ClientStays
    BY <1>1, <1>2, <1>6 DEF ClientStays, ClientFields
  <2> QED
    BY <1>6, <2>1, CalmClient
<1>7. CASE WaitRetries
  BY <1>3, <1>4, <1>7 DEF WaitRetries
<1>8. CASE WaitGivesUp
  BY <1>6, <1>8 DEF WaitGivesUp
<1>9. CASE WaitPauses
  BY <1>3, <1>5, <1>6, <1>9 DEF WaitPauses
<1> QED
  BY <1>7, <1>8, <1>9

\* client_reconnect() wipes the sessions.
LEMMA ReconnectCalm == ASSUME HsInv, Reconnect, UNCHANGED <<server, late, made>> PROVE Calm
<1> DEFINE c == Wiped(client)
<1>1. DOMAIN client = ClientFields /\ issued \in Nat
  BY DEF HsInv, ClientInv, Counters
<1>2. /\ DOMAIN c = ClientFields /\ c.cur = None /\ c.prev = None /\ c.had = {}
      /\ c.pending = FALSE
  BY <1>1 DEF Wiped, ClientFields
<1>3. \/ \E sock \in Addrs \ {client.sock} :
            LET new == [c EXCEPT !.up = TRUE, !.sock = sock, !.reconnect = None,
                                 !.recv = 0, !.ka = 0]
            IN /\ client' = Started(new) /\ net' = net \cup {Message1(new)}
               /\ issued' = issued + 1
      \/ /\ UNCHANGED <<issued, net>>
         /\ \E delay, backoff : client' = [c EXCEPT !.up = FALSE, !.recv = None,
                                             !.reconnect = delay, !.backoff = backoff]
      \/ UNCHANGED <<issued, net>> /\ ReconnectUnsent(c)
  BY Zenon DEF Reconnect
<1> HIDE DEF c
<1>4. ASSUME NEW sock, NEW new,
             new = [c EXCEPT !.up = TRUE, !.sock = sock, !.reconnect = None, !.recv = 0, !.ka = 0],
             client' = Started(new), net' = net \cup {Message1(new)}, issued' = issued + 1
      PROVE  Calm
  <2>1. DOMAIN new = ClientFields /\ new.cur = None /\ new.prev = None /\ new.had = {}
    BY <1>2, <1>4 DEF ClientFields
  <2>2. ClientStays
    BY <1>1, <1>4, <2>1, SentStays
  <2>3. \A m \in net' : m \in net \/ Sends(m)
    BY <1>4, MessageSent
  <2> QED
    BY <1>4, <2>2, <2>3, CalmClient
<1>5. ASSUME NEW delay, NEW backoff, UNCHANGED <<issued, net>>,
             client' = [c EXCEPT !.up = FALSE, !.recv = None, !.reconnect = delay,
                                 !.backoff = backoff]
      PROVE  Calm
  <2>1. ClientStays
    BY <1>2, <1>5 DEF ClientFields, ClientStays
  <2> QED
    BY <1>5, <2>1, CalmClient
<1>6. CASE UNCHANGED <<issued, net>> /\ ReconnectUnsent(c)
  <2>1. ClientStays
    BY <1>2, <1>6 DEF ReconnectUnsent, ClientFields, ClientStays
  <2> QED
    BY <1>6, <2>1, CalmClient
<1> QED
  BY <1>3, <1>4, <1>5, <1>6

\* A retransmission, a rekey, and the keepalive on the client's session
LEMMA WorksCalm == ASSUME HsInv, TickWorks, UNCHANGED <<server, late, made>> PROVE Calm
<1> DEFINE init == RetryDue(client) \/ RekeyDue(client)
           c == IF RetryDue(client) THEN Sent(client)
                ELSE IF RekeyDue(client) THEN Started(client) ELSE client
<1>1. DOMAIN client = ClientFields /\ issued \in Nat
  BY DEF HsInv, ClientInv, Counters
<1>2. /\ issued' = IF init THEN issued + 1 ELSE issued
      /\ net' = net \cup {m \in {Message1(client)} : init}
                    \cup {m \in {Up(client.cur, TRUE, client.sock)} : KeepaliveDue(client)}
      /\ client' = c \/ client' = [c EXCEPT !.ka = 0]
  BY DEF TickWorks
<1>3. /\ DOMAIN c = ClientFields
      /\ c.cur = client.cur /\ c.prev = client.prev
      /\ c.prev_age = client.prev_age /\ c.created = client.created
      /\ c.had = client.had
      /\ client.cur # None /\ c.pending => client.pending \/ client.created >= RekeyAfter
      /\ ~init => c.pending = client.pending
  <2>1. CASE RetryDue(client)
    <3>1. c = Sent(client) /\ init /\ client.pending
      BY <2>1 DEF RetryDue
    <3> QED
      BY <1>1, <3>1 DEF Sent, ClientFields
  <2>2. CASE ~RetryDue(client) /\ RekeyDue(client)
    <3>1. c = Started(client) /\ init /\ client.created >= RekeyAfter
      BY <2>2 DEF RekeyDue
    <3> QED
      BY <1>1, <3>1 DEF Sent, Started, ClientFields
  <2>3. CASE ~RetryDue(client) /\ ~RekeyDue(client)
    BY <1>1, <2>3
  <2> QED
    BY <2>1, <2>2, <2>3
<1>4. issued' = issued => ~init
  BY <1>1, <1>2
<1> HIDE DEF c
<1>5. /\ client'.cur = c.cur /\ client'.prev = c.prev /\ client'.prev_age = c.prev_age
      /\ client'.created = c.created /\ client'.had = c.had /\ client'.pending = c.pending
  BY <1>2, <1>3 DEF ClientFields
<1>6. ClientStays
  BY <1>3, <1>4, <1>5 DEF ClientStays
<1>7. ASSUME NEW m \in net', m \notin net PROVE Sends(m)
  <2>1. CASE init /\ m = Message1(client)
    BY <1>2, <2>1, MessageSent
  <2>2. CASE KeepaliveDue(client) /\ m = Up(client.cur, TRUE, client.sock)
    BY <1>3, <1>5, <2>2 DEF KeepaliveDue, Up, Sends
  <2> QED
    BY <1>2, <1>7, <2>1, <2>2
<1> QED
  BY <1>2, <1>6, <1>7, CalmClient

\* The client's loop
LEMMA ClientTickCalm == ASSUME HsInv, ClientTick PROVE Calm
<1>1. UNCHANGED <<server, late, made>>
  BY DEF ClientTick
<1>2. DOMAIN client = ClientFields /\ issued \in Nat
  BY DEF HsInv, ClientInv, Counters
<1>3. CASE TickWaits
  <2>1. ClientStays
    BY <1>3 DEF TickWaits, ClientStays
  <2> QED
    BY <1>1, <1>3, <2>1, CalmClient DEF TickWaits
<1>4. CASE TickRetryFails
  <2>1. ClientStays
    BY <1>2, <1>4 DEF TickRetryFails, ClientStays, ClientFields
  <2> QED
    BY <1>1, <1>4, <2>1, CalmClient DEF TickRetryFails
<1> QED
  BY <1>1, <1>3, <1>4, WaitCalm, ReconnectCalm, WorksCalm DEF ClientTick, TickReconnects

\* What both ends send through the tunnel
LEMMA SendCalm == ASSUME HsInv, ClientSend \/ ServerSend PROVE Calm
<1>1. UNCHANGED <<client, server, late, issued, made>>
  BY DEF ClientSend, ServerSend
<1>2. ASSUME NEW m \in net' PROVE m \in net \/ Sends(m)
  BY <1>1, <1>2 DEF ClientSend, ServerSend, Sends, Up, Down
<1>3. ClientStays
  BY <1>1 DEF ClientStays
<1> QED
  BY <1>1, <1>2, <1>3, CalmClient

\* A step of the server alone that sends nothing
LEMMA CalmServer ==
    ASSUME HsInv, UNCHANGED <<client, issued, made>>, ServerStays, net' \subseteq net,
           late' \subseteq Packets
    PROVE  Calm
<1>1. ClientStays
  BY DEF ClientStays
<1>2. issued \in Nat
  BY DEF HsInv, Counters
<1> QED
  BY <1>1, <1>2 DEF Calm

\* server_expire_clients()
LEMMA ServerTickCalm == ASSUME HsInv, ServerTick PROVE Calm
<1>1. UNCHANGED <<client, net, late, issued, made>>
  BY DEF ServerTick
<1>2. ServerStays
  <2>1. CASE server' = NoEntry
    BY <2>1 DEF NoEntry, ServerStays
  <2>2. CASE server' = server
    BY <2>2 DEF ServerStays
  <2>3. CASE server' = [server EXCEPT !.prev = IF server.prev_age > Grace THEN None ELSE @,
                                      !.next = IF server.next_age > Grace THEN None ELSE @]
    BY <2>3 DEF HsInv, ServerInv, ServerFields, ServerStays
  <2> QED
    BY <2>1, <2>2, <2>3 DEF ServerTick, Expired
<1> QED
  BY <1>1, <1>2, CalmServer DEF Packets

\* A packet that is late, and one that is dropped
LEMMA PacketsCalm ==
    ASSUME HsInv, UNCHANGED <<client, server, issued, made>>, net' \subseteq net,
           late' \subseteq Packets
    PROVE  Calm
BY CalmServer DEF ServerStays

\* A process that starts anew has no session.
LEMMA RestartCalm == ASSUME HsInv, Restart PROVE Calm
<1>1. UNCHANGED <<late, made>>
  BY DEF Restart
<1>2. issued \in Nat
  BY DEF HsInv, Counters
<1>3. CASE server' = NoEntry /\ UNCHANGED <<client, net, issued, epoch>>
  <2>1. ServerStays
    BY <1>3 DEF NoEntry, ServerStays
  <2> QED
    BY <1>1, <1>3, <2>1, CalmServer DEF Packets
<1>4. ASSUME NEW sock, NEW ts, client' = NewClient(sock, issued + 1),
             net' = net \cup {Init1(issued + 1, ts, sock)},
             issued' = issued + 1, UNCHANGED server
      PROVE  Calm
  <2>1. ClientStays
    BY <1>2, <1>4 DEF NewClient, ClientStays
  <2>2. \A m \in net' : m \in net \/ Sends(m)
    BY <1>4 DEF Init1, Sends
  <2> QED
    BY <1>1, <1>4, <2>1, <2>2, CalmClient
<1> QED
  BY <1>3, <1>4, Zenon DEF Restart

\* What the client takes from the server keeps its sessions,
LEMMA DownCalm ==
    ASSUME HsInv, NEW m \in Packets, HandleDown(m), UNCHANGED <<server, issued, made>>,
           late' \subseteq Packets
    PROVE  Calm
<1>1. ClientStays
  BY DEF HandleDown, HsInv, ClientInv, ClientFields, ClientStays
<1>2. ServerStays
  BY DEF ServerStays
<1>3. net' \subseteq net /\ issued \in Nat
  BY DEF HandleDown, HsInv, Counters
<1> QED
  BY <1>1, <1>2, <1>3 DEF Calm

\* ... and so does a message 1 the server drops or cannot answer.
LEMMA RefusedCalm ==
    ASSUME HsInv, NEW m \in Packets, UNCHANGED <<client, issued, made>>, net' = net \ {m},
           late' \subseteq Packets,
           \/ UNCHANGED server
           \/ server' = IF server.active
                        THEN [server EXCEPT !.seen = 0, !.ts = m.ts] ELSE NoEntry
    PROVE  Calm
<1>1. ServerStays
  <2>1. CASE server' = NoEntry
    BY <2>1 DEF NoEntry, ServerStays
  <2>2. CASE server' = server
    BY <2>2 DEF ServerStays
  <2>3. CASE server' = [server EXCEPT !.seen = 0, !.ts = m.ts]
    BY <2>3 DEF HsInv, ServerInv, ServerFields, ServerStays
  <2> QED
    BY <2>1, <2>2, <2>3
<1> QED
  BY <1>1, CalmServer

----------------------------------------------------------------------------
\* A packet arrives.
LEMMA ReceiveKeeps ==
    ASSUME HsInv, FlightInv, NEW m \in Packets, Receive(m), late' \subseteq late
    PROVE  FlightInv' /\ (InTimeInv /\ MovesInTime /\ MovesInTime' => InTimeInv')
<1>1. late' \subseteq Packets /\ m \in net \cup late
  BY DEF Packets
<1>2. CASE Calm
  BY <1>2, CalmKeeps, CalmInTime
<1>3. ASSUME HandleInit(m), UNCHANGED issued PROVE (FlightInv' /\ (InTimeInv => InTimeInv')) \/ Calm
  <2>1. UNCHANGED client /\ m.type = "INIT"
    BY <1>3 DEF HandleInit
  <2>2. CASE /\ server' = Accepted(m, made + 1) /\ made' = made + 1
             /\ net' = (net \ {m}) \cup {Resp(m.h, made + 1, m.addr)}
    BY <1>3, <2>1, <2>2, AcceptKeeps
  <2>3. CASE /\ net' = net \ {m} /\ UNCHANGED made
             /\ \/ UNCHANGED server
                \/ server' = IF server.active
                             THEN [server EXCEPT !.seen = 0, !.ts = m.ts] ELSE NoEntry
    BY <1>1, <1>3, <2>1, <2>3, RefusedCalm
  <2> QED
    BY <1>3, <2>2, <2>3 DEF HandleInit
<1>4. ASSUME HandleUp(m), UNCHANGED issued
      PROVE  (FlightInv' /\ (InTimeInv /\ MovesInTime' => InTimeInv')) \/ Calm
  <2>1. CASE m.sid \in Holds(server)
    BY <1>4, <2>1, UpKeeps
  <2>2. CASE m.sid \notin Holds(server)
    BY <1>1, <1>4, <2>2, PacketsCalm DEF HandleUp
  <2> QED
    BY <2>1, <2>2
<1>5. ASSUME ClientReceive(m)
      PROVE  (FlightInv' /\ (InTimeInv /\ MovesInTime => InTimeInv')) \/ Calm
  <2>1. UNCHANGED <<server, issued, made>>
    BY <1>5 DEF ClientReceive
  <2>2. CASE DropAtClient(m)
    BY <1>1, <2>1, <2>2, PacketsCalm DEF DropAtClient
  <2>3. CASE Reaches(m) /\ HandleResp(m)
    BY <2>1, <2>3, RespKeeps
  <2>4. CASE HandleDown(m)
    BY <1>1, <2>1, <2>4, DownCalm
  <2> QED
    BY <1>5, <2>2, <2>3, <2>4 DEF ClientReceive
<1> QED
  BY <1>2, <1>3, <1>4, <1>5 DEF Receive, ServerReceive

\* One step
LEMMA FlightKeeps ==
    ASSUME HsInv, FlightInv, [Next]_vars
    PROVE  FlightInv' /\ (InTimeInv /\ MovesInTime /\ MovesInTime' => InTimeInv')
<1>1. CASE Calm
  BY <1>1, CalmKeeps, CalmInTime
<1>2. CASE Deliver \/ Arrive
  <2>1. PICK m \in Packets : Receive(m) /\ late' \subseteq late
    BY <1>2 DEF Deliver, Arrive, Packets
  <2> QED
    BY <2>1, ReceiveKeeps
<1>3. CASE Delay
  <2>1. UNCHANGED <<client, server, issued, made>> /\ net' \subseteq net /\ late' \subseteq Packets
    BY <1>3 DEF Delay, Packets
  <2> QED
    BY <1>1, <2>1, PacketsCalm
<1>4. CASE UNCHANGED vars
  <2>1. UNCHANGED <<client, server, issued, made>> /\ net' \subseteq net /\ late' \subseteq Packets
    BY <1>4 DEF vars, Packets
  <2> QED
    BY <1>1, <2>1, PacketsCalm
<1> QED
  BY <1>1, <1>2, <1>3, <1>4, ClientTickCalm, SendCalm, ServerTickCalm, RestartCalm, SecondKeeps
     DEF Next

\* The invariant holds of every state.
LEMMA FlightInvariant == Spec => []FlightInv
<1>1. HsInv /\ FlightInv /\ [Next]_vars => FlightInv'
  BY FlightKeeps
<1> QED
  BY NothingInFlight, HsInvariant, <1>1, PTL DEF Spec

\* server_handle_data(), server_expire_clients(): no packet of a client that is
\* on time, on a session both had, is dropped by the server, for every number
\* of packets that are late, lost or come twice, of rekeys and of restarts:
\* the session is cur or next, or was left within the second.
THEOREM UpAlwaysOpens == Spec => []UpOpens
<1>1. ASSUME HsInv, FlightInv PROVE UpOpens
  <2> SUFFICES ASSUME NEW m \in net, m.type = "UP", m.sid \in client.had \cap server.had
               PROVE  m.sid \in Holds(server)
    BY DEF UpOpens
  <2>1. UsedInv /\ LeftInv /\ FollowsInv /\ NowInv /\ FreshInv /\ SessionTypes
    BY <1>1, TypesOfSessions DEF FlightInv
  <2>2. m.sid # None
    BY <2>1 DEF UsedInv, Used, SessionTypes
  <2>3. m.sid = client.cur => m.sid = server.cur
    BY <2>1 DEF FollowsInv
  <2>4. m.sid = client.prev /\ client.created = 0
           => m.sid = server.cur \/ (m.sid = server.prev /\ server.prev_age <= Grace)
    BY <2>1, <2>2, NoneIsNo DEF NowInv
  <2> QED
    BY <2>1, <2>2, <2>3, <2>4 DEF FreshInv, Holds
<1> QED
  BY <1>1, HsInvariant, FlightInvariant, PTL

\* client_handle_net_packet(), client_handle_resp(): nor, while the server
\* follows the client within the grace time, is a packet of the server that is
\* on time dropped by the client.
THEOREM NothingLostInFlight == Spec /\ []MovesInTime => []InFlightOpens
<1>1. ASSUME FlightInv, InTimeInv, HsInv PROVE DownOpens
  <2> SUFFICES ASSUME NEW m \in net, m.type = "DOWN", m.sid \in client.had
               PROVE  m.sid \in Opens(client)
    BY DEF DownOpens
  <2>1. m.sid # None
    BY <1>1, TypesOfSessions DEF FlightInv, UsedInv, Used, SessionTypes
  <2> QED
    BY <1>1, <2>1 DEF InTimeInv, Opens
<1>2. HsInv /\ FlightInv /\ MovesInTime /\ MovesInTime' /\ InTimeInv /\ [Next]_vars => InTimeInv'
  BY FlightKeeps
<1>3. Init => InTimeInv
  BY NothingInFlight
<1> QED
  BY <1>1, <1>2, <1>3, UpAlwaysOpens, HsInvariant, FlightInvariant, PTL DEF Spec, InFlightOpens

=============================================================================
