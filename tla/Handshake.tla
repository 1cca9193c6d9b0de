----------------------------- MODULE Handshake -----------------------------
(***************************************************************************)
(* One client and the server's entry for it, over UDP (src/src/client.c,   *)
(* src/src/server.c, src/src/camex.c): handshakes and their                *)
(* retransmission, sessions in cur, next and prev on both sides, rekeying, *)
(* confirmation, loss of the link and reconnection.                        *)
(*                                                                         *)
(* Handshakes and sessions are numbers, fresh for every message 1 and      *)
(* every answer; a packet can be opened by who has its session.  Instead   *)
(* of time stamps the module has ages, in seconds of a short day: each     *)
(* second the clock ticks, then both programs do their periodic work.      *)
(* What the network carries arrives within the second, unless it is one of *)
(* at most MaxFaults packets that are late: those arrive any time later,   *)
(* in any order, again, or never.                                          *)
(***************************************************************************)
EXTENDS Naturals, FiniteSets

CONSTANTS
    None,              \* no session, no time (0 in the code)
    Addrs,             \* source addresses of the client's sockets
    Retry,             \* V2_HANDSHAKE_RETRY
    Interval,          \* CAMEX_RECONNECT_INTERVAL
    MaxDelay,          \* the longest pause between attempts: 60
    Keepalive,         \* client_keepalive_interval()
    ServerTimeout,     \* server_timeout, and client_loss_after()
    Grace,             \* V2_PREV_SESSION_GRACE
    RekeyTimeout,      \* V2_REKEY_TIMEOUT
    RekeyAfter,        \* client_rekey_after()
    ClientTimeout,     \* server_client_timeout()
    OldAnswersFail,    \* the answer to a message 1 older than the last may fail
    MaxFaults,         \* bound of the faults of a behaviour
    MaxRekeys          \* bound of the rekeys of a behaviour

ASSUME TimeAssumption ==
    /\ {Retry, Interval, MaxDelay, Keepalive, ServerTimeout, Grace, RekeyTimeout,
        RekeyAfter, ClientTimeout} \subseteq Nat \ {0}
    /\ Retry <= ServerTimeout /\ Keepalive < ServerTimeout
    /\ Retry < Grace /\ Grace < RekeyAfter
    /\ OldAnswersFail \in BOOLEAN /\ None \notin Nat /\ Cardinality(Addrs) > 1

VARIABLES
    client,     \* client_state, net_fd, client_reconnect_at
    server,     \* the client's entry in server_clients
    net,        \* packets that arrive within this second
    late,       \* packets that are late
    issued,     \* handshakes started so far
    epoch,      \* ... when the client's clock was set back
    made,       \* sessions the server made so far
    faults,     \* faults so far
    rekeys,     \* rekeys so far
    due         \* what may still happen in this second

vars == <<client, server, net, late, issued, epoch, made, faults, rekeys, due>>

Work == {"client", "server"}            \* what each program does every second
Tunnel == {"up", "down"}                \* a packet from each end of the tunnel

NoEntry == [active |-> FALSE, cur |-> None, next |-> None, prev |-> None,
            next_age |-> 0, prev_age |-> 0, seen |-> 0, data |-> None,
            ts |-> 0, addr |-> CHOOSE a \in Addrs : TRUE, had |-> {}]


\* What both ends send
Init1(h, ts, from) == [type |-> "INIT", h |-> h, ts |-> ts, addr |-> from]
Resp(h, sid, to) == [type |-> "RESP", h |-> h, sid |-> sid, addr |-> to]
Up(sid, ka, from) == [type |-> "UP", sid |-> sid, ka |-> ka, addr |-> from]
Down(sid, to) == [type |-> "DOWN", sid |-> sid, addr |-> to]

\* The message 1 that is sent next, and the client after client_send_init()
Message1(c) == Init1(issued + 1, issued + 1 - epoch, c.sock)
Sent(c) == [c EXCEPT !.hs = issued + 1, !.pending = TRUE, !.sent = 0]
Started(c) == [Sent(c) EXCEPT !.started = 0]

Fault == faults < MaxFaults /\ faults' = faults + 1
Minimum(x, y) == IF x < y THEN x ELSE y

----------------------------------------------------------------------------
(* The client *)

\* A new process: client_state_init(), a socket, client_start_handshake()
NewClient(sock, h) ==
    [phase |-> "wait", up |-> TRUE, sock |-> sock, reconnect |-> None, backoff |-> 0,
     hs |-> h, pending |-> TRUE, sent |-> 0, started |-> 0, since |-> 0,
     established |-> FALSE, confirm |-> FALSE, recv |-> 0, ka |-> 0,
     cur |-> None, prev |-> None, prev_age |-> 0, created |-> 0, had |-> {}]

\* Mutant: the session the client leaves is forgotten
Moved_Forget(c, sid) ==
    [c EXCEPT !.phase = "run", !.pending = FALSE, !.prev = None,
              !.cur = sid, !.created = 0, !.recv = 0, !.ka = 0,
              !.established = TRUE, !.confirm = TRUE, !.backoff = 0,
              !.had = @ \cup {sid}]

\* The client with the session of a RESP: the old one keeps receiving
Moved(c, sid) ==
    [c EXCEPT !.phase = "run", !.pending = FALSE, !.prev = c.cur,
              !.prev_age = IF c.cur = None THEN @ ELSE 0,
              !.cur = sid, !.created = 0, !.recv = 0, !.ka = 0,
              !.established = TRUE, !.confirm = TRUE, !.backoff = 0,
              !.had = @ \cup {sid}]

\* client_handle_resp(), for the handshake that is pending: it confirms at once
HandleResp(m) ==
    LET c == Moved(client, m.sid) IN
    /\ m.type = "RESP" /\ client.pending /\ m.h = client.hs
    /\ client' = c
    /\ net' = (net \ {m}) \cup {Up(m.sid, TRUE, client.sock)}

\* Sessions the client opens packets of
Opens(c) == {s \in {c.cur} : s # None}
               \cup {s \in {c.prev} : s # None /\ c.prev_age <= Grace}

\* Mutant: any packet of the server confirms the new session
HandleDown_Any(m) ==
    /\ m.type = "DOWN" /\ m.sid \in Opens(client)
    /\ client' = [client EXCEPT !.recv = 0, !.backoff = 0, !.confirm = FALSE]
    /\ net' = net \ {m}

\* client_handle_net_packet(), DATA
HandleDown(m) ==
    /\ m.type = "DOWN" /\ m.sid \in Opens(client)
    /\ client' = [client EXCEPT !.recv = 0, !.backoff = 0,
                                !.confirm = @ /\ m.sid # client.cur]
    /\ net' = net \ {m}

\* ... or the packet is dropped: unknown, not for this socket, or no socket
Reaches(m) == client.up /\ client.phase # "pause" /\ m.addr = client.sock
DropAtClient(m) ==
    /\ m.type \in {"RESP", "DOWN"}
    /\ \/ ~Reaches(m)
       \/ m.type = "RESP" /\ ~(client.pending /\ m.h = client.hs)
       \/ m.type = "DOWN" /\ m.sid \notin Opens(client)
    /\ net' = net \ {m} /\ UNCHANGED client

ClientReceive(m) ==
    /\ \/ DropAtClient(m)
       \/ /\ Reaches(m)
          /\ HandleResp(m) \/ HandleDown(m)
    /\ UNCHANGED <<server, issued, made>>

\* The conditions of client_tick(), in its order
Down_(c) == ~c.up \/ c.reconnect # None
Lost(c) ==
    \/ c.established /\ c.recv # None /\ c.recv >= ServerTimeout
    \/ ~c.established /\ c.pending /\ c.started >= ServerTimeout
Unrenewed(c) == c.established /\ c.pending /\ c.started >= RekeyTimeout
RetryDue(c) == c.pending /\ c.sent >= Retry
RekeyDue(c) == c.cur # None /\ ~c.pending /\ c.created >= RekeyAfter /\ rekeys < MaxRekeys
KeepaliveDue(c) ==
    c.cur # None /\ c.ka >= (IF c.confirm THEN Retry ELSE Keepalive)

\* client_wait_for_config(): retransmission, or the socket is given up ...
WaitRetries ==
    /\ client.phase = "wait" /\ client.since < ServerTimeout
    /\ IF RetryDue(client)
       THEN client' = Sent(client) /\ issued' = issued + 1
            /\ net' = net \cup {Message1(client)}
       ELSE UNCHANGED <<client, issued, net>>
    /\ UNCHANGED faults
WaitGivesUp ==
    /\ client.phase = "wait"
    /\ \/ client.since >= ServerTimeout /\ UNCHANGED faults
       \/ client.since < ServerTimeout /\ RetryDue(client) /\ Fault
    /\ client' = [client EXCEPT !.phase = "pause", !.up = FALSE, !.reconnect = Interval]
    /\ UNCHANGED <<issued, net>>

\* ... and client_wait_reconnect() gets a new one after a pause
WaitPauses ==
    /\ client.phase = "pause"
    /\ \/ client.reconnect > 0 /\ UNCHANGED <<client, issued, net, faults>>
       \/ /\ client.reconnect = 0
          /\ \E sock \in Addrs \ {client.sock} :
                LET c == [client EXCEPT !.phase = "wait", !.up = TRUE, !.sock = sock,
                                        !.since = 0, !.reconnect = None]
                IN client' = Started(c) /\ net' = net \cup {Message1(c)}
          /\ issued' = issued + 1 /\ UNCHANGED faults
       \/ /\ client.reconnect = 0 /\ Fault
          /\ client' = [client EXCEPT !.reconnect = Interval]
          /\ UNCHANGED <<issued, net>>

\* client_reconnect(): everything of the old link is wiped
Wiped(c) == [c EXCEPT !.cur = None, !.prev = None, !.pending = FALSE,
                      !.established = FALSE, !.had = {}]

\* Mutant: a handshake that cannot be sent leaves the new socket open
ReconnectUnsent_Open(c) ==
    \E sock \in Addrs \ {c.sock} :
       client' = [c EXCEPT !.up = TRUE, !.sock = sock, !.reconnect = None, !.recv = None]

ReconnectUnsent(c) ==
    client' = [c EXCEPT !.up = FALSE, !.reconnect = Interval, !.recv = None]

Reconnect ==
    LET c == Wiped(client) IN
    \/ \E sock \in Addrs \ {client.sock} :
          LET new == [c EXCEPT !.up = TRUE, !.sock = sock, !.reconnect = None,
                               !.recv = 0, !.ka = 0]
          IN /\ client' = Started(new) /\ net' = net \cup {Message1(new)}
             /\ issued' = issued + 1 /\ UNCHANGED faults
    \/ /\ Fault /\ UNCHANGED <<issued, net>>
       /\ \/ client' = [c EXCEPT !.up = FALSE, !.recv = None,
                           !.reconnect = Minimum(MaxDelay, Interval * 2 ^ c.backoff),
                           !.backoff = Minimum(4, @ + 1)]
          \/ ReconnectUnsent(c)

TickReconnects ==
    /\ client.phase = "run"
    /\ \/ Down_(client) /\ client.reconnect \in {None, 0}
       \/ ~Down_(client) /\ (Lost(client) \/ Unrenewed(client))
    /\ Reconnect /\ UNCHANGED rekeys
TickWaits ==
    /\ client.phase = "run" /\ Down_(client) /\ client.reconnect \notin {None, 0}
    /\ UNCHANGED <<client, net, issued, faults, rekeys>>

\* Retransmission or rekey, and the keepalive (on the session of before)
TickWorks ==
    LET init == RetryDue(client) \/ RekeyDue(client)
        ka == KeepaliveDue(client)
        c == IF RetryDue(client) THEN Sent(client)
             ELSE IF RekeyDue(client) THEN Started(client) ELSE client
    IN
    /\ client.phase = "run"
    /\ ~Down_(client) /\ ~Lost(client) /\ ~Unrenewed(client)
    /\ client' = IF ka THEN [c EXCEPT !.ka = 0] ELSE c
    /\ issued' = IF init THEN issued + 1 ELSE issued
    /\ rekeys' = IF RekeyDue(client) THEN rekeys + 1 ELSE rekeys
    /\ net' = net \cup {m \in {Message1(client)} : init}
                  \cup {m \in {Up(client.cur, TRUE, client.sock)} : ka}
    /\ UNCHANGED faults
TickRetryFails ==
    /\ client.phase = "run"
    /\ ~Down_(client) /\ ~Lost(client) /\ ~Unrenewed(client) /\ RetryDue(client) /\ Fault
    /\ client' = [client EXCEPT !.up = FALSE, !.reconnect = None]
    /\ UNCHANGED <<net, issued, rekeys>>

ClientTick ==
    /\ "client" \in due /\ due' = due \ {"client"}
    /\ \/ (WaitRetries \/ WaitGivesUp \/ WaitPauses) /\ UNCHANGED rekeys
       \/ TickReconnects \/ TickWaits \/ TickWorks \/ TickRetryFails
    /\ UNCHANGED <<server, late, epoch, made>>

\* client_handle_tun_packet(), once a second
ClientSend ==
    /\ "up" \in due /\ due' = due \ {"up"}
    /\ client.phase = "run" /\ client.up /\ client.cur # None
    /\ net' = net \cup {Up(client.cur, FALSE, client.sock)}
    /\ UNCHANGED <<client, server, late, issued, epoch, made, faults, rekeys>>

----------------------------------------------------------------------------
(* The server *)

\* Authenticated data came lately: message 1's timestamps must grow
Live(s) == s.active /\ s.cur # None /\ s.data # None /\ s.data <= ClientTimeout

\* Mutant: the timestamp is not looked at
Stale_Never(m) == FALSE

Stale(m) == Live(server) /\ m.ts <= server.ts

\* The entry with the session of an accepted message 1: a first session is
\* used at once, another one waits in next
Accepted(m, sid) ==
    IF server.active /\ server.cur # None
    THEN [server EXCEPT !.next = sid, !.next_age = 0, !.seen = 0, !.ts = m.ts]
    ELSE [NoEntry EXCEPT !.active = TRUE, !.cur = sid, !.ts = m.ts, !.addr = m.addr]

\* server_handle_init()
HandleInit(m) ==
    /\ m.type = "INIT"
    /\ IF Stale(m)
       THEN net' = net \ {m} /\ UNCHANGED <<server, made, faults>>
       ELSE \/ /\ server' = Accepted(m, made + 1) /\ made' = made + 1
               /\ net' = (net \ {m}) \cup {Resp(m.h, made + 1, m.addr)}
               /\ UNCHANGED faults
            \/ \* no random bytes, or the reply is not sent: all but the
               \* timestamp is put back
               /\ Fault /\ (OldAnswersFail \/ m.ts >= server.ts)
               /\ net' = net \ {m} /\ UNCHANGED made
               /\ server' = IF server.active
                            THEN [server EXCEPT !.seen = 0, !.ts = m.ts] ELSE NoEntry
    /\ UNCHANGED client

\* Sessions the server opens packets of
Holds(s) == {x \in {s.cur, s.next} : x # None}
               \cup {x \in {s.prev} : x # None /\ s.prev_age <= Grace}

\* The first packet on next: it becomes cur
Promoted(s) == [s EXCEPT !.prev = s.cur, !.prev_age = 0, !.cur = s.next, !.next = None]

\* server_handle_data(): a keepalive is answered on cur
HandleUp(m) ==
    /\ m.type = "UP"
    /\ IF m.sid \in Holds(server)
       THEN LET s == IF m.sid = server.next THEN Promoted(server) ELSE server IN
            /\ server' = [s EXCEPT !.seen = 0, !.data = 0, !.addr = m.addr,
                                  !.had = @ \cup {m.sid}]
            /\ net' = (net \ {m}) \cup {x \in {Down(s.cur, m.addr)} : m.ka}
       ELSE net' = net \ {m} /\ UNCHANGED server
    /\ UNCHANGED <<client, made, faults>>

ServerReceive(m) == (HandleInit(m) \/ HandleUp(m)) /\ UNCHANGED issued

\* server_expire_clients()
Expired(s) ==
    IF s.seen > ClientTimeout THEN NoEntry
    ELSE [s EXCEPT !.prev = IF s.prev_age > Grace THEN None ELSE @,
                   !.next = IF s.next_age > Grace THEN None ELSE @]

ServerTick ==
    /\ "server" \in due /\ due' = due \ {"server"}
    /\ server' = IF server.active THEN Expired(server) ELSE server
    /\ UNCHANGED <<client, net, late, issued, epoch, made, faults, rekeys>>

\* server_forward_packet(), once a second
ServerSend ==
    /\ "down" \in due /\ due' = due \ {"down"}
    /\ server.active /\ server.cur # None
    /\ net' = net \cup {Down(server.cur, server.addr)}
    /\ UNCHANGED <<client, server, late, issued, epoch, made, faults, rekeys>>

----------------------------------------------------------------------------
(* The network, the clock, restarts *)

Receive(m) ==
    \/ ServerReceive(m)
    \/ ClientReceive(m) /\ UNCHANGED faults

\* A packet arrives
Deliver ==
    /\ \E m \in net : Receive(m)
    /\ UNCHANGED <<late, epoch, rekeys, due>>

\* It is late, or comes twice; a second copy of DATA is dropped by the replay
\* window (ReplayWindow) and left out
Delay ==
    /\ Fault
    /\ \E m \in net :
          /\ late' = late \cup {m}
          /\ net' = net \ {m} \/ (m.type \in {"INIT", "RESP"} /\ net' = net)
    /\ UNCHANGED <<client, server, issued, epoch, made, rekeys, due>>

\* A late packet arrives
Arrive ==
    /\ \E m \in late \ net : Receive(m) /\ late' = late \ {m}
    /\ UNCHANGED <<epoch, rekeys, due>>

Restart ==
    /\ Fault
    /\ \/ /\ server' = NoEntry
          /\ UNCHANGED <<client, net, issued, epoch>>
       \/ /\ \E sock \in Addrs \ {client.sock} :
                /\ epoch' \in {epoch, issued}        \* the clock may be set back
                /\ client' = NewClient(sock, issued + 1)
                /\ net' = net \cup {Init1(issued + 1, issued + 1 - epoch', sock)}
          /\ issued' = issued + 1 /\ UNCHANGED server
    /\ UNCHANGED <<late, made, rekeys, due>>

Older(age, cap) == IF age = None THEN None ELSE Minimum(cap, age + 1)

\* A second passes.  Ages no comparison can tell apart are one.
Tick ==
    /\ net = {} /\ due \cap Work = {}
    /\ due' = Work \cup Tunnel
    /\ client' = [client EXCEPT
          !.sent = IF client.pending THEN Older(@, Retry) ELSE 0,
          !.started = IF client.pending THEN Older(@, RekeyTimeout) ELSE 0,
          !.since = IF client.phase = "wait" THEN Older(@, ServerTimeout) ELSE 0, !.recv = Older(@, ServerTimeout),
          !.ka = Older(@, Keepalive + Retry),
          !.prev_age = IF client.prev = None THEN 0 ELSE Older(@, Grace + 1),
          !.created = IF client.cur = None THEN 0 ELSE Older(@, RekeyAfter),
          !.reconnect = IF @ \in {None, 0} THEN @ ELSE @ - 1]
    /\ server' = IF ~server.active THEN server
                 ELSE [server EXCEPT
          !.seen = @ + 1, !.data = Older(@, ClientTimeout + 1),
          !.next_age = IF server.next = None THEN 0 ELSE @ + 1,
          !.prev_age = IF server.prev = None THEN 0 ELSE @ + 1]
    /\ UNCHANGED <<net, late, issued, epoch, made, faults, rekeys>>

Init ==
    /\ issued = 1 /\ epoch = 0 /\ made = 0 /\ faults = 0 /\ rekeys = 0
    /\ \E sock \in {CHOOSE a \in Addrs : TRUE} :
          client = NewClient(sock, 1) /\ net = {Init1(1, 1, sock)}
    /\ server = NoEntry /\ late = {} /\ due = Tunnel

Next == ClientTick \/ ClientSend \/ ServerTick \/ ServerSend
           \/ Deliver \/ Delay \/ Arrive \/ Restart \/ Tick

\* The loops run, the clock advances and what is not late arrives.  Nothing
\* makes anyone use the tunnel, a late packet arrive, or a fault happen.
Fairness == WF_vars(ClientTick) /\ WF_vars(ServerTick) /\ WF_vars(Deliver) /\ WF_vars(Tick)

Spec == Init /\ [][Next]_vars /\ Fairness

----------------------------------------------------------------------------
(* Properties *)

\* A session the client has moved to, and waits in the server's next for the
\* first packet on it, leaves next only to become cur, or because nobody used
\* it for the whole grace time: no message 1 that is late or comes again
\* takes its place while the server hears the client.  (A client's clock
\* that was set back is another story: its old messages are then newer.)
MoveKept ==
    [][(/\ server.next # None /\ server.next = client.cur
        /\ Live(server) /\ server.next_age <= Grace /\ epoch = 0)
       => client.cur \in {server'.cur, server'.next} \/ ~server'.active]_vars

\* A client that no longer confirms its session is one the server has moved:
\* the session is not in next, where it would expire.
ConfirmedIsCurrent ==
    client.cur # None /\ ~client.confirm => server.next # client.cur

\* Rekeying loses nothing in flight: a packet that arrives in time, on a
\* session its receiver has had (the server: heard the client on), can be opened,
\* in both directions, however the two ends' moves to the new session and
\* the packets on the old one interleave.
UpOpens ==
    \A m \in net :
        m.type = "UP" /\ m.sid \in client.had \cap server.had => m.sid \in Holds(server)
DownOpens ==
    \A m \in net :
        m.type = "DOWN" /\ Reaches(m) /\ m.sid \in client.had => m.sid \in Opens(client)
InFlightOpens == UpOpens /\ DownOpens

\* The server follows a client that has moved: when the client no longer opens
\* packets on its old session, the server does not send on it.  (It may never
\* follow if all the client confirms with for the whole grace time is lost.)
MovesInTime ==
    client.created > Grace /\ server.cur \in client.had => server.cur = client.cur

\* The link comes back, and stays, after whatever happened
Connected ==
    /\ client.phase = "run" /\ client.cur # None /\ ~client.confirm
    /\ server.active /\ server.cur = client.cur /\ server.addr = client.sock
StaysConnected == <>[]Connected

=============================================================================
