----------------------------- MODULE MCOperate -----------------------------
(***************************************************************************)
(* What keeps a running camex in step with its surroundings, part by part: *)
(* the control socket's connections, where the socket is, a follower that  *)
(* waits on it, the reload of the configuration, the tunnel of the client  *)
(* and the device under it.  The parts do not act on one another here; a   *)
(* behaviour is one of the parts, under that part's fairness.              *)
(***************************************************************************)
EXTENDS ControlConns, ControlPath, StatusWait, Reload, ClientTunnel, TunDevice

CONSTANT FirstState  \* of the clients, while the control socket is idle

\* Configurations of two clients: without a global key, with a key that is
\* no key, with one key for all
File(g, x, y) == [psk |-> g, clients |-> [id \in {"c1", "c2"} |-> IF id = "c1" THEN x ELSE y]]
FilesDef == {File("none", "p1", "none"), File("p1", "p2", "none"), File("bad", "p3", "bad"),
             File("bad", "bad", "none"), File("p3", "p3", "p1"), File("none", "none", "none")}

TunConfigsDef == [net : {"n1", "n2"}, cidrs : {{"r1"}, {"r1", "r2"}}]

VARIABLE part
vars == <<part, controlVars, pathVars, waitVars, reloadVars, tunnelVars, deviceVars>>

\* A part that is not the behaviour's has one state
Init == /\ part \in {"control", "path", "wait", "reload", "tunnel", "device"}
        /\ ControlInit /\ PathInit /\ WaitInit /\ ReloadInit /\ TunnelInit /\ DeviceInit
        /\ part # "control" => clients = FirstState
        /\ part # "wait" => \A p \in Paths : ~servers[p].up /\ servers[p].file = 0
        /\ part # "reload" => cli = "none" /\ db.file = File("none", "p1", "none")
        /\ part # "tunnel" => offer = [net |-> "n1", cidrs |-> {"r1"}] /\ ~pending /\ ~persist
        /\ part # "device" => \A n \in Staying : ~found[n]

ControlPart(A) == part = "control" /\ A
    /\ UNCHANGED <<part, pathVars, waitVars, reloadVars, tunnelVars, deviceVars>>
PathPart(A) == part = "path" /\ A
    /\ UNCHANGED <<part, controlVars, waitVars, reloadVars, tunnelVars, deviceVars>>
WaitPart(A) == part = "wait" /\ A
    /\ UNCHANGED <<part, controlVars, pathVars, reloadVars, tunnelVars, deviceVars>>
ReloadPart(A) == part = "reload" /\ A
    /\ UNCHANGED <<part, controlVars, pathVars, waitVars, tunnelVars, deviceVars>>
TunnelPart(A) == part = "tunnel" /\ A
    /\ UNCHANGED <<part, controlVars, pathVars, waitVars, reloadVars, deviceVars>>
DevicePart(A) == part = "device" /\ A
    /\ UNCHANGED <<part, controlVars, pathVars, waitVars, reloadVars, tunnelVars>>

Next == \/ ControlPart(ControlNext) \/ PathPart(PathNext) \/ WaitPart(WaitNext)
        \/ ReloadPart(ReloadNext) \/ TunnelPart(TunnelNext) \/ DevicePart(DeviceNext)

Fair == /\ WF_vars(ControlPart(FdSet)) /\ WF_vars(ControlPart(Handle))
        /\ WF_vars(ControlPart(ControlTick))
        /\ WF_vars(WaitPart(FollowerStep)) /\ WF_vars(WaitPart(AskStep))
        /\ WF_vars(WaitPart(Tick)) /\ WF_vars(WaitPart(\E p \in Paths : Answer(p)))
        /\ WF_vars(TunnelPart(HandleConfig))
Spec == Init /\ [][Next]_vars /\ Fair

=============================================================================
