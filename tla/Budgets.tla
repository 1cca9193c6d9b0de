------------------------------ MODULE Budgets ------------------------------
(***************************************************************************)
(* The handshake budgets of src/src/server.c (#9, #16, #75, #78): how many *)
(* message 1s, and how many trials of per-client keys, a second allows in  *)
(* all, to unknown sources together, to a source address and to a /24.  An *)
(* INIT is handled in one step, up to the key that authenticates it.  The  *)
(* counts of a second that is over are cleared with it (the code clears    *)
(* them when it meets them next).                                          *)
(***************************************************************************)
EXTENDS Naturals, FiniteSets, FiniteSetsExt

CONSTANTS
    SourceAddrs,  \* source addresses
    Net(_),       \* the /24 of one
    LiveAt,       \* those a live client is known at
    Keys,         \* keys of the keystore that have an owner, none locked
    Handshakes,   \* SERVER_HANDSHAKES_PER_SEC
    Trials,       \* SERVER_KEY_TRIALS_PER_SEC
    KnownPerSec,  \* SERVER_KNOWN_PER_SEC
    Probes        \* SERVER_SRC_PROBES: with fewer slots in use one is free

ASSUME BudgetAssumption ==
    /\ LiveAt \subseteq SourceAddrs
    /\ {Keys, Handshakes, Trials, KnownPerSec, Probes} \subseteq Nat
    /\ Handshakes >= 8

VARIABLES
    total,    \* budget_handshakes and budget_trials
    unknown,  \* budget_unknown_handshakes and budget_unknown_trials
    shares,   \* server_shares in use this second: addresses and /24s
    rekeys,   \* hs_count of the live clients
    result    \* of the last INIT of this second
budgetVars == <<total, unknown, shares, rekeys, result>>

Zero == [handshakes |-> 0, trials |-> 0]
Plus(c, h, t) == [handshakes |-> c.handshakes + h, trials |-> c.trials + t]

Larger(a, b) == IF a > b THEN a ELSE b
UnknownShare(n) == (n \div 4) * 3
SrcShare(n) == n \div 8
NetShare(n) == n \div 4

\* server_key_trials_limit()
TrialsLimit == Larger(Trials, 4 * Keys)

\* Mutant: no least share
TrialShare_NoFloor(k) ==
    IF k \in SourceAddrs THEN SrcShare(TrialsLimit) ELSE NetShare(TrialsLimit)

\* server_trial_share()
TrialShare(k) ==
    IF k \in SourceAddrs THEN Larger(SrcShare(TrialsLimit), Keys)
    ELSE Larger(NetShare(TrialsLimit), 2 * Keys)
HandshakeShare(k) ==
    IF k \in SourceAddrs THEN SrcShare(Handshakes) ELSE NetShare(Handshakes)

\* server_source_shares(): the entries of a source, each found, or put in a
\* free slot, or not to be had when many slots are taken
SharesWith(from) ==
    {[k \in DOMAIN shares \cup got |-> IF k \in DOMAIN shares THEN shares[k] ELSE Zero] :
        got \in {g \in SUBSET {from, Net(from)} :
                    Cardinality(DOMAIN shares) < Probes => g = {from, Net(from)}}}
Entries(sh, from) == {from, Net(from)} \cap DOMAIN sh
Charged(sh, from, h, t) ==
    [k \in DOMAIN sh |-> IF k \in {from, Net(from)} THEN Plus(sh[k], h, t) ELSE sh[k]]

\* Mutant: unknown sources are held by their own shares only
Spent_NoShare(known) == total.handshakes >= Handshakes

\* server_handshake_budget(): -1 and -2; then -3
Spent(known) ==
    \/ total.handshakes >= Handshakes
    \/ ~known /\ unknown.handshakes >= UnknownShare(Handshakes)
OverShare(sh, from) == \E k \in Entries(sh, from) : sh[k].handshakes >= HandshakeShare(k)

\* Key trials before server_key_trial_budget() says no, of those wanted
OthersAllowed(sh, from) ==
    Min({UnknownShare(TrialsLimit) - unknown.trials}
            \cup {TrialShare(k) - sh[k].trials : k \in Entries(sh, from)})
Tried(sh, from, known, wanted) ==
    LET room == TrialsLimit - total.trials IN
    IF ~known THEN Min({wanted, room, OthersAllowed(sh, from)})
    ELSE IF room = 0 \/ wanted = 0 THEN 0
    ELSE 1 + Min({wanted - 1, room - 1, OthersAllowed(sh, from)})

\* A source that has used nothing yet, where one other /24 at most, and no
\* live client, has
Newcomer(from) ==
    /\ total = unknown
    /\ {from, Net(from)} \cap DOMAIN shares = {}
    /\ \/ unknown = Zero
       \/ \E n \in DOMAIN shares \ SourceAddrs : shares[n] = unknown

----------------------------------------------------------------------------
\* server_handle_init() up to the key: the one in place `key` of those tried
\* in turn authenticates message 1 (a live client's own key is the first)
InitArrives(from, key) ==
    LET known == from \in LiveAt /\ rekeys[from] < KnownPerSec
        wanted == IF key > Keys THEN Keys ELSE key
        others == /\ wanted > 1 /\ TrialsLimit - total.trials > 1
                  /\ unknown.trials < UnknownShare(TrialsLimit)
    IN \E sh \in IF ~Spent(known) /\ (~known \/ others) THEN SharesWith(from) ELSE {shares} :
       LET refused == Spent(known) \/ (~known /\ OverShare(sh, from))
           n == IF refused THEN 0 ELSE Tried(sh, from, known, wanted)
           t == IF known /\ n > 0 THEN n - 1 ELSE n
           h(counted) == IF refused \/ ~counted THEN 0 ELSE 1
       IN /\ rekeys' = IF known THEN [rekeys EXCEPT ![from] = @ + 1] ELSE rekeys
          /\ total' = Plus(total, h(TRUE), n)
          /\ unknown' = Plus(unknown, h(~known), t)
          /\ shares' = Charged(sh, from, h(~known), t)
          /\ result' = [from |-> from, known |-> known, key |-> key,
                        newcomer |-> Newcomer(from), served |-> n = key]

NoneYet(from) == [from |-> from, known |-> FALSE, key |-> 0, newcomer |-> FALSE, served |-> TRUE]

NextSecond ==
    /\ total' = Zero /\ unknown' = Zero /\ shares' = [k \in {} |-> Zero]
    /\ rekeys' = [a \in LiveAt |-> 0]
    /\ result' = NoneYet(result.from)

BudgetInit ==
    /\ total = Zero /\ unknown = Zero /\ shares = [k \in {} |-> Zero]
    /\ rekeys = [a \in LiveAt |-> 0]
    /\ \E a \in SourceAddrs : result = NoneYet(a)
BudgetNext == NextSecond \/ \E from \in SourceAddrs, key \in 1 .. Keys + 1 : InitArrives(from, key)
BudgetSpec == BudgetInit /\ [][BudgetNext]_budgetVars

----------------------------------------------------------------------------
\* A live client's rekey with its own key gets through, whatever unknown
\* sources send in that second: it is refused only when live clients have
\* used up what unknown sources cannot have.
RekeyServed ==
    result.known /\ result.key = 1 /\ Keys > 0 /\ ~result.served =>
        \/ total.handshakes - unknown.handshakes >= Handshakes - UnknownShare(Handshakes)
        \/ total.trials - unknown.trials >= TrialsLimit - UnknownShare(TrialsLimit)

\* One /24 cannot keep others out: a source of another one still reaches
\* every key of the keystore with its first message 1.
NewcomerServed == result.newcomer /\ result.key <= Keys => result.served

=============================================================================
