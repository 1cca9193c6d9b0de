--------------------------- MODULE MCServerTable ---------------------------
(***************************************************************************)
(* Small instances of ServerTable for TLC.                                 *)
(***************************************************************************)
EXTENDS ServerTable, TLC

CONSTANTS a1, a2, a3, g, k

\* No [client ID] block: every auto client has a pool address
Plain(pool) ==
    [pool |-> pool, listed |-> {}, profile |-> [i \in Ids |-> NoAddr],
     psk |-> [i \in Ids |-> NoKey], global |-> g, deny |-> FALSE]

\* One client has a block with address a1
WithBlock(pool, id) ==
    [Plain(pool) EXCEPT !.listed = {id},
                        !.profile = [i \in Ids |-> IF i = id THEN a1 ELSE NoAddr]]

PlainConfigs == {Plain({a1, a2})}

\* A reload gives a1 to a block, to both (nothing forbids it), takes it away,
\* or leaves a2 alone in the pool
SharedBlock(pool) ==
    [Plain(pool) EXCEPT !.listed = Ids, !.profile = [i \in Ids |-> a1]]
ReloadConfigs == {Plain({a1, a2}), Plain({a2}), SharedBlock({a1, a2})}
                   \cup {WithBlock({a1, a2}, i) : i \in Ids}

\* A reload gives a client a key of its own, or serves listed IDs only
WithKey(pool, id) ==
    [Plain(pool) EXCEPT !.listed = {id}, !.psk = [i \in Ids |-> IF i = id THEN k ELSE NoKey]]
KeyConfigs == {Plain({a1, a2})} \cup {WithKey({a1, a2}, i) : i \in Ids}
                 \cup {[WithKey({a1, a2}, i) EXCEPT !.deny = TRUE] : i \in AutoIds}

\* Sound: nothing below chooses among IDs, among the addresses of the
\* Plain configurations, or among peers (FindByAddr() chooses among slots)
PlainSymmetry == Permutations(AutoIds) \cup Permutations(Addrs)

=============================================================================
