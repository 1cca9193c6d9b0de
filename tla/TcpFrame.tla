------------------------------ MODULE TcpFrame ------------------------------
(***************************************************************************)
(* Frames over TCP (src/src/net.c): a length and a body, written and read  *)
(* in pieces.  The sender keeps one unsent frame per descriptor in a table *)
(* shared by all of them; the receiver keeps the progress of the frame it  *)
(* is reading.                                                             *)
(*                                                                         *)
(* A byte is the frame it belongs to and its place in it, so that a model  *)
(* can see a stream that is out of step.  Frames are numbered as they are  *)
(* accepted.  The kernel's stream is external: it takes any part of what   *)
(* it is offered and hands over any part of what it holds, in order.       *)
(***************************************************************************)
EXTENDS Naturals, Sequences, FiniteSets

CONSTANTS
    Fds,        \* descriptors of connections
    NoFd,       \* -1: the slot is free
    Slots,      \* tcp_pending
    Header,     \* bytes of the length: 2
    BodyLens,   \* lengths of bodies
    MaxFrames,  \* bound of the frames of one connection
    MaxConns    \* bound of the connections that take a descriptor

Junk == 0       \* what a dead stack frame holds

ASSUME FrameAssumption ==
    /\ NoFd \notin Fds /\ Slots # {}
    /\ Header \in Nat \ {0} /\ BodyLens \subseteq Nat \ {0}
    /\ MaxFrames \in Nat /\ MaxConns \in Nat

VARIABLES
    conns,      \* connections a descriptor has had: the last one is open
    broken,     \* the peer or the network ended it
    pending,    \* tcp_pending: the owner, and the bytes from offset to len
    stream,     \* bytes in the kernel
    rx,         \* tcp_recv_state_t
    body,       \* the receiver's buffer: the frame each byte came from
    accepted,   \* frames of the connection that were accepted
    got         \* frames returned: how each byte of the buffer was filled

vars == <<conns, broken, pending, stream, rx, body, accepted, got>>

FreeSlot == [fd |-> NoFd, left |-> <<>>]
Start == [header |-> <<>>, done |-> FALSE, body_have |-> 0]

\* The bytes of a connection's n-th frame
Bytes(fd, n, len) == [i \in 1 .. Header + len |->
                         [conn |-> conns[fd], frame |-> n, at |-> i, len |-> len]]

Drop(s, n) == SubSeq(s, n + 1, Len(s))
Take(s, n) == SubSeq(s, 1, n)

SlotsOf(fd) == {s \in Slots : pending[s].fd = fd}

----------------------------------------------------------------------------
(* Sending *)

\* Mutant: what is pending is forgotten when the socket takes no more
Flushed_Forget(slot, k) == FreeSlot

\* tcp_send_flush_pending(): k bytes go, the slot is free once all have
Flushed(slot, k) ==
    IF k = Len(slot.left) THEN FreeSlot ELSE [slot EXCEPT !.left = Drop(@, k)]

\* A frame with nothing pending: net_tcp_send_frame_ex() puts it in a free
\* slot and the kernel takes k bytes of it
SendFrame(fd, len) ==
    /\ ~broken[fd] /\ accepted[fd] < MaxFrames
    /\ SlotsOf(fd) = {}
    /\ LET n == accepted[fd] + 1
           bytes == Bytes(fd, n, len)
           slot == [fd |-> fd, left |-> bytes]
       IN \E s \in SlotsOf(NoFd), k \in 0 .. Len(bytes) :
             /\ pending' = [pending EXCEPT ![s] = Flushed(slot, k)]
             /\ stream' = [stream EXCEPT ![fd] = @ \o Take(bytes, k)]
             /\ accepted' = [accepted EXCEPT ![fd] = n]
    /\ UNCHANGED <<conns, broken, rx, body, got>>

\* ... while an older one is pending: that one is flushed first, and when the
\* kernel does not take all of it the new frame is dropped (result 1)
SendBehind(fd, len) ==
    /\ ~broken[fd] /\ accepted[fd] < MaxFrames
    /\ \E s \in SlotsOf(fd) : \E k \in 0 .. Len(pending[s].left) :
          LET old == pending[s].left
              n == accepted[fd] + 1
              bytes == Bytes(fd, n, len)
          IN IF k < Len(old)
             THEN /\ pending' = [pending EXCEPT ![s] = Flushed(@, k)]
                  /\ stream' = [stream EXCEPT ![fd] = @ \o Take(old, k)]
                  /\ UNCHANGED accepted
             ELSE \E j \in 0 .. Len(bytes) :
                  /\ pending' = [pending EXCEPT
                                    ![s] = Flushed([fd |-> fd, left |-> bytes], j)]
                  /\ stream' = [stream EXCEPT ![fd] = @ \o old \o Take(bytes, j)]
                  /\ accepted' = [accepted EXCEPT ![fd] = n]
    /\ UNCHANGED <<conns, broken, rx, body, got>>

\* net_tcp_flush_writable(), for a descriptor select() found writable
FlushWritable(fd) ==
    /\ ~broken[fd]
    /\ \E s \in SlotsOf(fd) : \E k \in 1 .. Len(pending[s].left) :
          /\ pending' = [pending EXCEPT ![s] = Flushed(@, k)]
          /\ stream' = [stream EXCEPT ![fd] = @ \o Take(pending[s].left, k)]
    /\ UNCHANGED <<conns, broken, rx, body, accepted, got>>

\* The connection breaks: what is in the kernel is lost, ...
Break(fd) ==
    /\ conns[fd] > 0 /\ ~broken[fd]
    /\ broken' = [broken EXCEPT ![fd] = TRUE]
    /\ stream' = [stream EXCEPT ![fd] = <<>>]
    /\ UNCHANGED <<conns, pending, rx, body, accepted, got>>

\* ... and the next send fails: what is pending is dropped
SendFails(fd) ==
    /\ broken[fd]
    /\ \E s \in SlotsOf(fd) : pending' = [pending EXCEPT ![s] = FreeSlot]
    /\ UNCHANGED <<conns, broken, stream, rx, body, accepted, got>>

----------------------------------------------------------------------------
(* A new connection on the descriptor *)

\* Mutant: close() without tcp_pending_release()
Reopen_Leak(fd) ==
    /\ broken[fd] /\ conns[fd] < MaxConns
    /\ conns' = [conns EXCEPT ![fd] = @ + 1]
    /\ broken' = [broken EXCEPT ![fd] = FALSE]
    /\ rx' = [rx EXCEPT ![fd] = Start]
    /\ body' = [body EXCEPT ![fd] = <<>>]
    /\ accepted' = [accepted EXCEPT ![fd] = 0]
    /\ got' = [got EXCEPT ![fd] = <<>>]
    /\ UNCHANGED <<pending, stream>>

\* net_tcp_close() releases the slot; accept(), connect() or adoption gives
\* the number to a new connection, whose receive state is zeroed
Reopen(fd) ==
    /\ broken[fd] /\ conns[fd] < MaxConns
    /\ conns' = [conns EXCEPT ![fd] = @ + 1]
    /\ broken' = [broken EXCEPT ![fd] = FALSE]
    /\ pending' = [s \in Slots |-> IF pending[s].fd = fd THEN FreeSlot ELSE pending[s]]
    /\ rx' = [rx EXCEPT ![fd] = Start]
    /\ body' = [body EXCEPT ![fd] = <<>>]
    /\ accepted' = [accepted EXCEPT ![fd] = 0]
    /\ got' = [got EXCEPT ![fd] = <<>>]
    /\ UNCHANGED stream

----------------------------------------------------------------------------
(* Receiving *)

\* The length a header says; bytes of two frames say any length
Says(h) ==
    IF \A i \in 1 .. Header : h[i].frame = h[1].frame /\ h[i].conn = h[1].conn
                                /\ h[i].at = i
    THEN {h[1].len} ELSE BodyLens

\* The buffer at the start of a call.  In the event loop it is a local
\* variable of a function that has returned since: what was read into it is
\* still there or not.
Before(fd) ==
    {body[fd]} \cup {[i \in DOMAIN body[fd] |->
                         [body[fd][i] EXCEPT !.frame = Junk]]}

\* Mutant: the progress of a header is forgotten
RecvHeader_Forget(fd) ==
    /\ ~broken[fd] /\ ~rx[fd].done
    /\ stream[fd] # <<>> /\ Len(rx[fd].header) + Len(stream[fd]) < Header
    /\ rx' = [rx EXCEPT ![fd] = Start]
    /\ stream' = [stream EXCEPT ![fd] = <<>>]
    /\ UNCHANGED <<conns, broken, pending, body, accepted, got>>

\* net_tcp_recv_frame() gets part of a header, then EAGAIN
RecvHeader(fd) ==
    /\ ~broken[fd] /\ ~rx[fd].done
    /\ \E k \in 1 .. Len(stream[fd]) :
          /\ Len(rx[fd].header) + k < Header
          /\ rx' = [rx EXCEPT ![fd].header = @ \o Take(stream[fd], k)]
          /\ stream' = [stream EXCEPT ![fd] = Drop(@, k)]
    /\ UNCHANGED <<conns, broken, pending, body, accepted, got>>

\* ... the rest of the header if it is missing, and k bytes of the body
RecvBody(fd) ==
    /\ ~broken[fd]
    /\ LET state == rx[fd]
           missing == Header - Len(state.header)
           header == state.header \o Take(stream[fd], missing)
           rest == Drop(stream[fd], missing)
       IN /\ Len(stream[fd]) > 0 /\ missing <= Len(stream[fd])
          /\ \E len \in Says(header), k \in 0 .. Len(rest), old \in Before(fd) :
                /\ state.body_have + k <= len
                /\ missing > 0 \/ k > 0
                /\ stream' = [stream EXCEPT ![fd] = Drop(rest, k)]
                /\ LET filled == Take(old, state.body_have) \o Take(rest, k)
                   IN IF state.body_have + k < len
                      THEN /\ rx' = [rx EXCEPT ![fd] =
                                [header |-> header, done |-> TRUE,
                                 body_have |-> state.body_have + k]]
                           /\ body' = [body EXCEPT ![fd] = filled]
                           /\ UNCHANGED got
                      ELSE /\ rx' = [rx EXCEPT ![fd] = Start]
                           /\ body' = [body EXCEPT ![fd] = <<>>]
                           /\ got' = [got EXCEPT ![fd] = Append(@, filled)]
    /\ UNCHANGED <<conns, broken, pending, accepted>>

----------------------------------------------------------------------------
Init ==
    /\ conns = [fd \in Fds |-> 0]
    /\ broken = [fd \in Fds |-> TRUE]
    /\ pending = [s \in Slots |-> FreeSlot]
    /\ stream = [fd \in Fds |-> <<>>]
    /\ rx = [fd \in Fds |-> Start]
    /\ body = [fd \in Fds |-> <<>>]
    /\ accepted = [fd \in Fds |-> 0]
    /\ got = [fd \in Fds |-> <<>>]

Recv(fd) == RecvHeader(fd) \/ RecvBody(fd)

Next == \E fd \in Fds :
    \/ \E len \in BodyLens : SendFrame(fd, len) \/ SendBehind(fd, len)
    \/ FlushWritable(fd) \/ Break(fd) \/ SendFails(fd) \/ Reopen(fd)
    \/ Recv(fd)

\* select() reports a descriptor that can be written or read, and the loop
\* serves it; nothing makes anyone send, and a connection may break any time
Fairness == \A fd \in Fds : WF_vars(FlushWritable(fd)) /\ WF_vars(Recv(fd))

Spec == Init /\ [][Next]_vars /\ Fairness

----------------------------------------------------------------------------
(* Properties *)

\* All of a connection that has been accepted and not returned, in the order
\* in which it will be read
Unread(fd) ==
    LET slot == CHOOSE s \in SlotsOf(fd) : TRUE
    IN stream[fd] \o (IF SlotsOf(fd) = {} THEN <<>> ELSE pending[slot].left)

\* Reader and writer stay in step: what is read next is the next byte of the
\* frame whose header was read, and what follows are the frames accepted
\* since, whole, of this connection and of no earlier one, whatever pieces
\* they went in and whatever was dropped.
InStep ==
    \A fd \in Fds : ~broken[fd] =>
        LET rest == Unread(fd)
            had == Len(rx[fd].header) + rx[fd].body_have
        IN /\ Cardinality(SlotsOf(fd)) <= 1
           /\ \A i \in 1 .. Len(rest) :
                /\ rest[i].conn = conns[fd]
                /\ IF i = 1
                   THEN /\ rest[1].frame = Len(got[fd]) + 1 /\ rest[1].at = had + 1
                        /\ had > 0 => rx[fd].header[1].frame = rest[1].frame
                   ELSE IF rest[i].at = 1
                   THEN /\ rest[i].frame = rest[i - 1].frame + 1
                        /\ rest[i - 1].at = Header + rest[i - 1].len
                   ELSE rest[i].frame = rest[i - 1].frame /\ rest[i].at = rest[i - 1].at + 1

\* The n-th frame returned has the length of the n-th frame accepted, and
\* what is not lost of it is at its place.
FramesInOrder ==
    \A fd \in Fds : \A n \in 1 .. Len(got[fd]) : \A i \in 1 .. Len(got[fd][n]) :
        LET b == got[fd][n][i] IN
        /\ b.frame \in {n, Junk} /\ b.at = Header + i
        /\ b.len = Len(got[fd][n])

\* A frame that was accepted arrives, unless its connection breaks
AcceptedArrives ==
    \A fd \in Fds : \A n \in 1 .. MaxFrames :
        accepted[fd] >= n ~> Len(got[fd]) >= n \/ broken[fd]

\* What net.h says of tcp_recv_state_t ("so partial progress survives across
\* EAGAIN"): a frame is returned as it was sent.
FrameWhole ==
    \A fd \in Fds : \A n \in 1 .. Len(got[fd]) : \A i \in 1 .. Len(got[fd][n]) :
        got[fd][n][i].frame # Junk

=============================================================================
