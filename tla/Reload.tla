------------------------------- MODULE Reload -------------------------------
(***************************************************************************)
(* A reload of the server's configuration (src/src/camex.c, camex_run();   *)
(* src/src/config.c, keys.c and crypto.c), step by step: the file is       *)
(* parsed over server_db, the global key and the keystore are made anew,   *)
(* keys of passphrases being derived or found in the cache, and what was   *)
(* in force is kept until nothing can fail, to be put back when something  *)
(* did.  Memory may run out at every allocation.                           *)
(***************************************************************************)
EXTENDS Naturals, FiniteSets

CONSTANTS
    Files,      \* configurations: [psk |-> a key text, clients |-> ID -> text]
    Passwords,  \* key texts that are passphrases: derived and cached
    Bad,        \* a key text that is no key
    NoText,     \* no psk=
    CliPsks     \* what --psk may be: passphrases, or NoText

ASSUME ReloadAssumption ==
    /\ Bad \notin Passwords /\ NoText \notin Passwords /\ Bad # NoText
    /\ CliPsks \subseteq Passwords \cup {NoText}

(* Keys are their texts; the owner of the global key's entry is "".  The   *)
(* blocks of memory of an old and of a new configuration are numbered.     *)
VARIABLES
    cli,     \* --psk
    db,      \* server_db: file, complete (all of it was read), block
    ks,      \* server_ks: entries, block
    global,  \* crypto_ctx.psk_key, or NoText
    saved,   \* saved_db, saved_ks, saved_ctx; ks_rebuilt
    cache,   \* key_cache: keys, and those seen and fresh since the mark
    heap,    \* blocks allocated and not freed
    todo     \* the step of the reload; clients whose key is not made yet
reloadVars == <<cli, db, ks, global, saved, cache, heap, todo>>

IdsOf(f) == DOMAIN f.clients
Keyed(f) == {id \in IdsOf(f) : f.clients[id] # NoText}

\* The keystore of a file under a global key: a text that is no key leaves a
\* locked entry
GlobalEntry(g) == IF g = NoText THEN {} ELSE {<<"", g>>}
ClientEntry(f, id) == <<id, f.clients[id]>>
Usable(entries) == {e \in entries : e[2] # Bad}

\* The global key a file asks for; --psk comes before it
GlobalOf(f) == IF cli # NoText THEN cli
               ELSE IF f.psk \in Passwords THEN f.psk ELSE NoText
KeystoreOf(f) == GlobalEntry(GlobalOf(f)) \cup {ClientEntry(f, id) : id \in Keyed(f)}
Loadable(f) == Usable(KeystoreOf(f)) # {}

OtherBlock(b) == IF b = 1 THEN 2 ELSE 1

----------------------------------------------------------------------------
\* key_from_psk(): the cache after the key of a text is found or derived
Derived(text) ==
    [keys |-> cache.keys \cup {text}, seen |-> cache.seen \cup {text},
     fresh |-> IF text \in cache.keys THEN cache.fresh ELSE cache.fresh \cup {text}]
OutOfMemory(text) == text \in Passwords \ cache.keys

\* key_cache_mark(), key_cache_sweep(), key_cache_drop_new()
Marked == [cache EXCEPT !.seen = {}, !.fresh = {}]
Swept == [cache EXCEPT !.keys = @ \cap cache.seen]
NewDropped == [cache EXCEPT !.keys = @ \ cache.fresh]

Goto(step, ids) == todo' = [step |-> step, ids |-> ids]

\* SIGHUP: what is in force is saved, and the file parsed over server_db;
\* an error in it leaves what was read so far
Parse(f) ==
    /\ todo.step = "idle"
    /\ saved' = [db |-> db, ks |-> ks, global |-> global, rebuilt |-> FALSE]
    /\ cache' = Marked
    /\ heap' = heap \cup {<<"db", OtherBlock(db.block)>>}
    /\ \E complete \in BOOLEAN :
          /\ db' = [file |-> f, complete |-> complete, block |-> OtherBlock(db.block)]
          /\ Goto(IF complete THEN "global" ELSE "restore", {})
    /\ UNCHANGED <<ks, global>>

\* The global key: a bad one must not leave the old one working
MakeGlobal ==
    /\ todo.step = "global"
    /\ \/ /\ cli # NoText \/ db.file.psk \in {NoText, Bad}
          /\ global' = GlobalOf(db.file)
          /\ Goto("keystore", {}) /\ UNCHANGED cache
       \/ /\ cli = NoText /\ db.file.psk \in Passwords
          /\ \/ /\ global' = db.file.psk /\ cache' = Derived(db.file.psk)
                /\ Goto("keystore", {})
             \/ /\ OutOfMemory(db.file.psk)
                /\ Goto("restore", {}) /\ UNCHANGED <<global, cache>>
    /\ UNCHANGED <<db, ks, saved, heap>>

\* config_build_keystore(): server_ks is overwritten
StartKeystore ==
    /\ todo.step = "keystore"
    /\ saved' = [saved EXCEPT !.rebuilt = TRUE]
    /\ \/ /\ ks' = [entries |-> GlobalEntry(global), block |-> OtherBlock(ks.block)]
          /\ heap' = heap \cup {<<"ks", OtherBlock(ks.block)>>}
          /\ Goto("clients", Keyed(db.file))
       \/ /\ ks' = [entries |-> {}, block |-> 0]
          /\ Goto("restore", {}) /\ UNCHANGED heap
    /\ UNCHANGED <<db, global, cache>>

\* Its failures: the half that is built is freed
NoKeystore ==
    /\ ks' = [entries |-> {}, block |-> 0]
    /\ heap' = heap \ {<<"ks", ks.block>>}
    /\ Goto("restore", {})

ClientKey(id) ==
    LET text == db.file.clients[id] IN
    /\ todo.step = "clients" /\ id \in todo.ids
    /\ \/ /\ ks' = [ks EXCEPT !.entries = @ \cup {ClientEntry(db.file, id)}]
          /\ cache' = IF text = Bad THEN cache ELSE Derived(text)
          /\ Goto("clients", todo.ids \ {id}) /\ UNCHANGED heap
       \/ OutOfMemory(text) /\ NoKeystore /\ UNCHANGED cache
    /\ UNCHANGED <<db, global, saved>>

\* All keys are made: the indexes, then whether any key can be used (when
\* not, the keystore is left for the caller)
EndKeystore ==
    /\ todo.step = "clients" /\ todo.ids = {}
    /\ \/ NoKeystore
       \/ /\ Goto(IF Usable(ks.entries) # {} THEN "commit" ELSE "restore", {})
          /\ UNCHANGED <<ks, heap>>
    /\ UNCHANGED <<db, global, saved, cache>>

\* The old configuration is freed; keys the new one does not use go
Commit ==
    /\ todo.step = "commit"
    /\ heap' = heap \ {<<"db", saved.db.block>>, <<"ks", saved.ks.block>>}
    /\ cache' = Swept
    /\ Goto("idle", {})
    /\ UNCHANGED <<db, ks, global, saved>>

\* Mutant: the global key stays the new one
Restore_Global ==
    /\ todo.step = "restore"
    /\ heap' = heap \ ({<<"db", db.block>>} \cup (IF saved.rebuilt THEN {<<"ks", ks.block>>} ELSE {}))
    /\ db' = saved.db /\ ks' = (IF saved.rebuilt THEN saved.ks ELSE ks)
    /\ cache' = NewDropped
    /\ Goto("idle", {})
    /\ UNCHANGED <<global, saved>>

\* Mutant: the cache is swept after a rollback too, and what it added stays
Restore_Sweep ==
    /\ todo.step = "restore"
    /\ heap' = heap \ ({<<"db", db.block>>} \cup (IF saved.rebuilt THEN {<<"ks", ks.block>>} ELSE {}))
    /\ db' = saved.db /\ ks' = (IF saved.rebuilt THEN saved.ks ELSE ks) /\ global' = saved.global
    /\ cache' = Swept
    /\ Goto("idle", {})
    /\ UNCHANGED saved

\* The rollback
Restore ==
    /\ todo.step = "restore"
    /\ heap' = heap \ ({<<"db", db.block>>} \cup (IF saved.rebuilt THEN {<<"ks", ks.block>>} ELSE {}))
    /\ db' = saved.db /\ ks' = (IF saved.rebuilt THEN saved.ks ELSE ks) /\ global' = saved.global
    /\ cache' = NewDropped
    /\ Goto("idle", {})
    /\ UNCHANGED saved

\* The server has started with a file it could load
ReloadInit ==
    /\ cli \in CliPsks
    /\ \E f \in Files :
          /\ Loadable(f) /\ (cli = NoText => f.psk # Bad)
          /\ db = [file |-> f, complete |-> TRUE, block |-> 1]
          /\ ks = [entries |-> KeystoreOf(f), block |-> 1]
          /\ global = GlobalOf(f)
          /\ cache = [keys |-> {e[2] : e \in Usable(KeystoreOf(f))}, seen |-> {}, fresh |-> {}]
    /\ saved = [db |-> db, ks |-> ks, global |-> global, rebuilt |-> FALSE]
    /\ heap = {<<"db", 1>>, <<"ks", 1>>}
    /\ todo = [step |-> "idle", ids |-> {}]
ReloadStep ==
    \/ \E f \in Files : Parse(f)
    \/ MakeGlobal \/ StartKeystore \/ EndKeystore \/ Commit \/ Restore
    \/ \E id \in todo.ids : ClientKey(id)
ReloadNext == ReloadStep /\ UNCHANGED cli
ReloadSpec == ReloadInit /\ [][ReloadNext]_reloadVars

----------------------------------------------------------------------------
\* Whichever step of a reload fails, the file, the keystore and the global
\* key in force belong together, and some client can connect.
ReloadAtomic ==
    todo.step = "idle" =>
        /\ db.complete /\ Loadable(db.file)
        /\ ks.entries = KeystoreOf(db.file)
        /\ global = GlobalOf(db.file)

\* A reload, done or rolled back, frees one copy of what it had twice, and
\* leaves in the cache keys of passphrases in force only (--psk, which a
\* reload does not look up, goes with the first one), all of them after a
\* rollback.
NothingLeft ==
    todo.step = "idle" =>
        /\ heap = {<<"db", db.block>>, <<"ks", ks.block>>}
        /\ cache.keys \subseteq {e[2] : e \in Usable(ks.entries)}
        /\ \A id \in Keyed(db.file) : db.file.clients[id] \in cache.keys \cup {Bad}

=============================================================================
