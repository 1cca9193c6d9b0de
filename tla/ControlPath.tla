---------------------------- MODULE ControlPath ----------------------------
(***************************************************************************)
(* Where a server's control socket is (src/src/control.c, control_open(),  *)
(* control_reopen(), control_close()): a socket left behind is removed     *)
(* first, a reload makes the new socket before it closes the old one, and  *)
(* whatever fails, the old one stays.  Servers may be given one path.  A   *)
(* socket file is its inode; every call into the system is a step.         *)
(***************************************************************************)
EXTENDS Naturals, FiniteSets

CONSTANTS
    Hosts,        \* servers
    SockPaths,    \* values of control_socket=
    Default,      \* control_socket= is not given: the path is DefaultAt
    DefaultAt,
    Off,          \* control_socket=none
    Simultaneous, \* whether two servers open or close sockets at one time
    MaxInodes     \* bound: sockets made

ASSUME PathAssumption ==
    /\ Off \notin SockPaths /\ Default \notin SockPaths \cup {Off} /\ DefaultAt \in SockPaths
    /\ Simultaneous \in BOOLEAN /\ MaxInodes \in Nat

VARIABLES
    file,       \* the inode at a path, or 0
    listening,  \* inodes somebody listens on
    host,       \* see NoHost
    inodes
pathVars == <<file, listening, host, inodes>>

\* control_default_path()
PathOf(spec) == IF spec = Default THEN DefaultAt ELSE spec

\* fd, path: control_fd, control_path; spec, ok: control_spec, control_spec_ok
\* want: the setting control_listen() is about; stale, new: its sockets
\* closed: close() is done, unlink() not yet
\* had: the server has had a socket since it was last told to have none
NoHost == [at |-> "down", fd |-> 0, path |-> Off, spec |-> Off, ok |-> FALSE,
           want |-> Off, stale |-> 0, new |-> 0, closed |-> FALSE, had |-> FALSE]

Working(s) == host[s].at \notin {"down", "up"}
MayWork(s) == Simultaneous \/ \A t \in Hosts \ {s} : ~Working(t)
Proceed(s, at) == host' = [host EXCEPT ![s].at = at]

----------------------------------------------------------------------------
\* control_open()
ControlOpen(s, want) ==
    /\ host[s].at = "down" /\ MayWork(s)
    /\ host' = [host EXCEPT ![s] =
                   [NoHost EXCEPT !.at = IF want = Off THEN "up" ELSE "check",
                                !.spec = want, !.ok = (want = Off), !.want = want]]
    /\ UNCHANGED <<file, listening, inodes>>

\* Mutant: the old socket is closed first
ControlReopen_First(s, want) ==
    /\ host[s].at = "up" /\ MayWork(s)
    /\ ~(host[s].ok /\ host[s].spec = want)
    /\ host' = [host EXCEPT ![s].at = IF want = Off THEN "off" ELSE "check",
                            ![s].want = want, ![s].fd = 0]
    /\ listening' = listening \ {host[s].fd}
    /\ file' = IF host[s].fd # 0 THEN [file EXCEPT ![host[s].path] = 0] ELSE file
    /\ UNCHANGED inodes

\* control_reopen(): an unchanged setting that is in effect stays
ControlReopen(s, want) ==
    /\ host[s].at = "up" /\ MayWork(s)
    /\ ~(host[s].ok /\ host[s].spec = want)
    /\ host' = [host EXCEPT ![s].at = IF want = Off THEN "off" ELSE "check",
                            ![s].want = want]
    /\ UNCHANGED <<file, listening, inodes>>

\* stale_socket(): a socket nobody listens on
Check(s) ==
    LET ino == file[PathOf(host[s].want)] IN
    /\ host[s].at = "check"
    /\ \/ host' = [host EXCEPT ![s].at = "compare",
                               ![s].stale = IF ino \in listening THEN 0 ELSE ino]
       \/ host' = [host EXCEPT ![s].at = "up"]      \* no directory
    /\ UNCHANGED <<file, listening, inodes>>

\* lstat() once more, unlink()
Compare(s) ==
    /\ host[s].at = "compare"
    /\ Proceed(s, IF host[s].stale # 0 /\ file[PathOf(host[s].want)] = host[s].stale
                THEN "remove" ELSE "bind")
    /\ UNCHANGED <<file, listening, inodes>>
Remove(s) ==
    /\ host[s].at = "remove"
    /\ file' = [file EXCEPT ![PathOf(host[s].want)] = 0]
    /\ Proceed(s, "bind")
    /\ UNCHANGED <<listening, inodes>>

\* socket() and bind()
Bind(s) ==
    /\ host[s].at = "bind"
    /\ \/ /\ file[PathOf(host[s].want)] = 0 /\ inodes < MaxInodes
          /\ inodes' = inodes + 1
          /\ file' = [file EXCEPT ![PathOf(host[s].want)] = inodes']
          /\ host' = [host EXCEPT ![s].at = "listen", ![s].new = inodes']
       \/ Proceed(s, "up") /\ UNCHANGED <<file, inodes>>
    /\ UNCHANGED listening

\* listen(); after a failure the socket is removed
Listen(s) ==
    /\ host[s].at = "listen"
    /\ \/ listening' = listening \cup {host[s].new} /\ Proceed(s, "close") /\ UNCHANGED file
       \/ /\ host' = [host EXCEPT ![s].at = "up", ![s].new = 0]
          /\ file' = [file EXCEPT ![PathOf(host[s].want)] = 0] /\ UNCHANGED listening
    /\ UNCHANGED inodes

\* control_close(), of the old socket, for none, or as the server stops
Close(s) ==
    /\ host[s].at \in {"close", "off", "stop"} /\ ~host[s].closed
    /\ listening' = listening \ {host[s].fd}
    /\ host' = [host EXCEPT ![s].closed = TRUE]
    /\ UNCHANGED <<file, inodes>>
Unlink(s) ==
    LET h == host[s] IN
    /\ h.closed
    /\ file' = IF h.fd # 0 THEN [file EXCEPT ![h.path] = 0] ELSE file
    /\ host' = [host EXCEPT ![s] =
           CASE h.at = "close" -> [NoHost EXCEPT !.at = "up", !.fd = h.new, !.had = TRUE,
                                   !.path = PathOf(h.want), !.spec = h.want, !.ok = TRUE]
             [] h.at = "off"   -> [NoHost EXCEPT !.at = "up", !.spec = Off, !.ok = TRUE]
             [] h.at = "stop"  -> NoHost]
    /\ UNCHANGED <<listening, inodes>>

\* camex_stop()
StopHost(s) ==
    /\ host[s].at = "up" /\ MayWork(s)
    /\ Proceed(s, "stop") /\ UNCHANGED <<file, listening, inodes>>
Crash(s) ==
    /\ host[s].at # "down"
    /\ host' = [host EXCEPT ![s] = NoHost]
    /\ listening' = listening \ {host[s].fd, host[s].new}
    /\ UNCHANGED <<file, inodes>>

PathInit ==
    /\ file = [p \in SockPaths |-> 0] /\ listening = {} /\ inodes = 0
    /\ host = [s \in Hosts |-> NoHost]
PathNext == \E s \in Hosts :
    \/ Check(s) \/ Compare(s) \/ Remove(s) \/ Bind(s) \/ Listen(s) \/ Close(s) \/ Unlink(s)
    \/ StopHost(s) \/ Crash(s)
    \/ \E want \in SockPaths \cup {Default, Off} : ControlOpen(s, want) \/ ControlReopen(s, want)
PathSpec == PathInit /\ [][PathNext]_pathVars

----------------------------------------------------------------------------
\* A server that has had a control socket keeps one that can be reached,
\* through reloads that fail, crashes of others, and paths it is given that
\* are another server's or its own already.
SocketReachable ==
    \A s \in Hosts : host[s].had /\ host[s].at = "up" =>
        host[s].fd \in listening /\ file[host[s].path] = host[s].fd

\* control_listen(): "Only the stale socket that was checked: another server
\* that bound the path in between keeps its own".
RemovesChecked ==
    \A s \in Hosts : host[s].at = "remove" =>
        file[PathOf(host[s].want)] \in {0, host[s].stale}

=============================================================================
