---------------------------- MODULE ClientTunnel ----------------------------
(***************************************************************************)
(* The client's tunnel device and routes (src/src/camex.c,                 *)
(* camex_client_reconfigure(); src/src/client.c): every handshake brings   *)
(* the server's CONFIG, which is applied to the live tunnel when it is     *)
(* another one (#49), or when the last attempt left something missing.     *)
(* Opening the device, adding and removing a route may fail.  The device   *)
(* is one camex opens itself (not Android's).                              *)
(***************************************************************************)
EXTENDS Naturals, FiniteSets

CONSTANTS
    TunConfigs,  \* CONFIGs: [net |-> address and gateway, cidrs |-> routes]
    NoDevice,    \* no tunnel is open
    MaxTrouble,  \* bound: handshakes during which something fails
    MaxOffers    \* bound: changes of the server's CONFIG

ASSUME TunnelAssumption ==
    MaxTrouble \in Nat /\ MaxOffers \in Nat /\ NoDevice \notin TunConfigs

VARIABLES
    offer,    \* the CONFIG of the server's next reply
    current,  \* current_config
    device,   \* the config of the open device, or NoDevice
    persist,  \* a persistent device keeps its routes while it is closed
    routes,   \* routes the host has
    stuck,    \* those of them whose removal failed
    pending,  \* client_reconfig_pending
    trouble, offers
tunnelVars == <<offer, current, device, persist, routes, stuck, pending, trouble, offers>>

RoutesOf(c) == {<<cidr, c.net>> : cidr \in c.cidrs}
WhileClosed(rs) == IF persist THEN rs ELSE {}

\* client_set_routes(): what is added or removed is all but what fails
Fails(rs) == SUBSET rs

Bounded(failed) ==
    /\ failed => trouble < MaxTrouble
    /\ trouble' = IF failed THEN trouble + 1 ELSE trouble

\* Mutant: only a reopen sets the flag
Installed_Quiet(c, rs, left, missing) ==
    /\ routes' = rs \cup (RoutesOf(c) \ missing)
    /\ stuck' = left \ (RoutesOf(c) \ missing)
    /\ pending' = FALSE

\* Routes of c are added to rs but the missing ones, which the next handshake
\* tries again
Installed(c, rs, left, missing) ==
    /\ routes' = rs \cup (RoutesOf(c) \ missing)
    /\ stuck' = left \ (RoutesOf(c) \ missing)
    /\ pending' = (missing # {})

----------------------------------------------------------------------------
\* The same settings on a live tunnel: only routes that failed are missing
AddMissing ==
    /\ device # NoDevice /\ offer = current /\ pending
    /\ \E missing \in Fails(RoutesOf(current)) :
          /\ Bounded(missing # {})
          /\ Installed(current, routes, stuck, missing \ routes)
    /\ UNCHANGED <<offer, current, device, persist, offers>>

\* The old routes are removed while the device exists; left: what stays
Removed(fails) ==
    LET gone == IF device = NoDevice THEN {} ELSE RoutesOf(current) \ fails
    IN [rs |-> WhileClosed(routes \ gone), left |-> WhileClosed((stuck \cup (fails \cap routes)) \ gone)]

\* Mutant: what is not applied is forgotten
Offered_Changed == offer # current

\* A CONFIG to apply
Offered == offer # current \/ pending

\* The device reopened with it, or with the old one, or not at all
Reopen ==
    /\ Offered /\ (offer # current \/ device = NoDevice)
    /\ \E fails \in Fails(IF device = NoDevice THEN {} ELSE RoutesOf(current)) :
       LET r == Removed(fails) IN
       \/ \E missing \in Fails(RoutesOf(offer)) :
             /\ Bounded(fails \cup missing # {})
             /\ current' = offer /\ device' = offer
             /\ Installed(offer, r.rs, r.left, missing \ r.rs)
       \/ \E missing \in Fails(RoutesOf(current)) :
             /\ Bounded(TRUE)
             /\ device' = current /\ UNCHANGED current
             /\ Installed(current, r.rs, r.left, missing \ r.rs)
       \/ /\ Bounded(TRUE)
          /\ device' = NoDevice /\ pending' = TRUE
          /\ routes' = r.rs /\ stuck' = r.left /\ UNCHANGED current
    /\ UNCHANGED <<offer, persist, offers>>

HandleConfig == AddMissing \/ Reopen

\* The server's profile of this client is changed
NewOffer(c) ==
    /\ offers < MaxOffers /\ offers' = offers + 1
    /\ c # offer /\ offer' = c
    /\ UNCHANGED <<current, device, persist, routes, stuck, pending, trouble>>

\* The tunnel is opened with the first CONFIG; camex_client_install_routes()
TunnelInit ==
    /\ offer \in TunConfigs /\ current = offer /\ device = offer
    /\ persist \in BOOLEAN
    /\ \E missing \in Fails(RoutesOf(offer)) :
          routes = RoutesOf(offer) \ missing /\ pending = (missing # {})
    /\ stuck = {} /\ trouble = 0 /\ offers = 0
TunnelNext == HandleConfig \/ \E c \in TunConfigs : NewOffer(c)

\* The client rekeys, and connects again, for as long as it runs
TunnelSpec == TunnelInit /\ [][TunnelNext]_tunnelVars /\ WF_tunnelVars(HandleConfig)

----------------------------------------------------------------------------
\* Unless the next handshake is to try again, the device and the routes are
\* those of current_config, which handshakes are compared with; other routes
\* are only those that could not be removed.
TunnelMatches ==
    /\ ~pending => device = current /\ RoutesOf(current) \subseteq routes
    /\ routes \subseteq RoutesOf(current) \cup stuck

\* Whatever fails on the way, the tunnel ends up as the server wants it.
TunnelConverges == <>[](device = offer /\ current = offer /\ RoutesOf(offer) \subseteq routes)

=============================================================================
