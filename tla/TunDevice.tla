----------------------------- MODULE TunDevice -----------------------------
(***************************************************************************)
(* The packet backend on Linux (src/src/packet.c, src/src/tun.c): a device *)
(* is given to camex (Android), or created, from /dev/net/tun, whose       *)
(* interface goes away with the descriptor, or from /dev/camex or tun_dev= *)
(* whose interface stays and must be left as it was found.  Each system    *)
(* call that can fail on the way is a step.                                *)
(***************************************************************************)
EXTENDS Naturals

CONSTANTS
    Staying,     \* interfaces that outlive the descriptor: /dev/camex, tun_dev=
    NetTun,      \* the one of /dev/net/tun
    Given,       \* the name of a descriptor that was given to camex
    NoIface,
    MaxDeviceTrouble  \* bound: crashes and refusals to put something back

ASSUME DeviceAssumption ==
    /\ MaxDeviceTrouble \in Nat
    /\ {NetTun, Given, NoIface} \cap Staying = {}
    /\ NetTun # Given /\ NoIface \notin {NetTun, Given}

VARIABLES
    iface,     \* those that stay: IPv6 is off, an address is set, it is up
    found,     \* IPv6 was off when camex came
    tun,       \* see NoDev
    abandoned, \* interfaces whose last creation failed
    excused,   \* interfaces camex was kept from cleaning up
    troubles
deviceVars == <<iface, found, tun, abandoned, excused, troubles>>

\* at: the step of packet_open(), "open" when it is done; name: tun_name
\* was: tun_ipv6_was is '0'; persistent: tun_persistent; env: tun_from_env
NoDev == [at |-> "closed", name |-> NoIface, was |-> FALSE,
          persistent |-> FALSE, env |-> FALSE]

\* A field of the interface of the device, if it stays
With(field, value) ==
    IF tun.name \in Staying THEN [iface EXCEPT ![tun.name][field] = value] ELSE iface
Trouble == troubles < MaxDeviceTrouble /\ troubles' = troubles + 1

----------------------------------------------------------------------------
\* tun_open_provided(), tun_accept_fd()
OpenGiven ==
    /\ tun.at = "closed"
    /\ tun' = [tun EXCEPT !.at = "opened", !.name = Given, !.env = TRUE]
    /\ UNCHANGED <<iface, found, abandoned, excused, troubles>>

\* tun_create_device(): the device tun_dev= names, or /dev/net/tun, or else
\* /dev/camex; without one, nothing is changed
Create(name) ==
    /\ tun.at = "closed"
    /\ tun' = [tun EXCEPT !.at = "socket", !.name = name, !.was = FALSE]
    /\ UNCHANGED <<iface, found, abandoned, excused, troubles>>

Goes(at) == tun' = [tun EXCEPT !.at = at]
Creating == UNCHANGED <<found, abandoned, excused, troubles>>

Socket == tun.at = "socket" /\ Goes("address") /\ UNCHANGED iface /\ Creating
SetAddress == /\ tun.at = "address" /\ Goes("netmask")
              /\ iface' = With("addr", TRUE) /\ Creating
\* and SIOCSIFMTU, whose failure is only logged
SetNetmask == tun.at = "netmask" /\ Goes("ipv6") /\ UNCHANGED iface /\ Creating

\* tun_disable_ipv6(): what cannot be read or written stays as it is
DisableIpv6 ==
    /\ tun.at = "ipv6"
    /\ \/ /\ (tun.name \in Staying => ~iface[tun.name].ipv6off)
          /\ iface' = With("ipv6off", TRUE)
          /\ tun' = [tun EXCEPT !.at = "flags", !.was = TRUE]
       \/ tun' = [tun EXCEPT !.at = "flags", !.was = FALSE] /\ UNCHANGED iface
    /\ Creating

\* The descriptor may be above FD_SETSIZE
SetUp ==
    /\ tun.at = "flags"
    /\ iface' = With("up", TRUE)
    /\ tun' = [tun EXCEPT !.at = "opened", !.persistent = tun.name # NetTun]
    /\ Creating
OpenDone == tun.at = "opened" /\ Goes("open") /\ UNCHANGED iface /\ Creating

\* tun_restore_ipv6()
Restored(refused) ==
    IF tun.was /\ ~refused THEN With("ipv6off", FALSE) ELSE iface
Refused(refused) ==
    IF refused THEN Trouble /\ excused' = excused \cup {tun.name}
    ELSE UNCHANGED <<troubles, excused>>

\* Mutant: the backend is reset before the value is put back
Failed_Reset(refused) ==
    UNCHANGED iface /\ Refused(refused)

\* close_tun_creation(): any of the calls may fail
Failed(refused) ==
    iface' = Restored(refused) /\ Refused(refused)

CreationFails ==
    /\ tun.at \in {"socket", "address", "netmask", "flags"}
    /\ \E refused \in BOOLEAN : (refused => tun.was) /\ Failed(refused)
    /\ abandoned' = abandoned \cup {tun.name}
    /\ tun' = [tun EXCEPT !.at = "closed", !.name = NoIface, !.persistent = FALSE]
    /\ UNCHANGED found

\* tun_release_persistent(), tun_restore_ipv6(): each call may be refused
Released(down, unaddressed, refused) ==
    [Restored(refused) EXCEPT ![tun.name].up = @ /\ ~down,
                              ![tun.name].addr = @ /\ ~unaddressed]

\* tun_close_device(), by packet_close() or as the descriptor is too high
CloseDevice ==
    /\ tun.at \in {"opened", "open"}
    /\ IF tun.persistent
       THEN \E down, unaddressed, refused \in BOOLEAN :
               /\ iface' = Released(down, unaddressed, refused)
               /\ Refused(refused \/ ~down \/ ~unaddressed)
       ELSE UNCHANGED <<iface, troubles, excused>>
    /\ abandoned' = abandoned \ {tun.name}
    /\ tun' = NoDev
    /\ UNCHANGED found

\* camex is killed: what stays, stays as it is
Killed ==
    /\ tun.at # "closed" /\ Trouble
    /\ tun' = NoDev
    /\ excused' = excused \cup {tun.name}
    /\ UNCHANGED <<iface, found, abandoned>>

DeviceInit ==
    /\ found \in [Staying -> BOOLEAN]
    /\ iface = [n \in Staying |-> [ipv6off |-> found[n], addr |-> FALSE, up |-> FALSE]]
    /\ tun = NoDev
    /\ abandoned = {} /\ excused = {} /\ troubles = 0
DeviceNext ==
    \/ OpenGiven \/ \E n \in Staying \cup {NetTun} : Create(n)
    \/ Socket \/ SetAddress \/ SetNetmask \/ DisableIpv6 \/ SetUp \/ OpenDone
    \/ CreationFails \/ CloseDevice \/ Killed
DeviceSpec == DeviceInit /\ [][DeviceNext]_deviceVars

----------------------------------------------------------------------------
\* "An interface that outlives us is left as it was": whatever devices were
\* opened, and however far their creation got, IPv6 is as it was found on an
\* interface camex has let go of, and its address is gone unless its creation
\* failed.
LeftAsFound ==
    \A n \in Staying \ excused : tun.name # n =>
        /\ iface[n].ipv6off = found[n]
        /\ iface[n].addr => n \in abandoned

=============================================================================
