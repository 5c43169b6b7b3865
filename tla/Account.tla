------------------------------ MODULE Account ------------------------------
(***************************************************************************)
(* The keys of the accounts: the table users, the handlers that write its  *)
(* key columns, and the browser tabs that register, log in, unlock, change *)
(* the password, recover and log out.                                      *)
(*                                                                         *)
(* An operation of a tab is a sequence of requests with client code in     *)
(* between.  A reply may be lost, and a request that its tab has given up  *)
(* may still be served later.  The tabs of one browser share its           *)
(* localStorage; each tab has its own React state.                         *)
(***************************************************************************)
EXTENDS Naturals, FiniteSets

CONSTANTS
    User,       \* the user names
    Password,   \* the master passwords that users type
    Draw,       \* what generateSalt and generateRSAKeyPair may draw
    Tab,        \* the open tabs
    Browser,    \* the browsers
    BrowserOf,  \* BrowserOf[t]: the browser of tab t
    Shown,      \* which phrase a registration may show and wrap the key with
    MaxOrphans, \* bound: requests that outlive the tab's interest in them
    Nil         \* SQL NULL, null

(***************************************************************************)
(*  "own"       the phrase the web client draws itself;                    *)
(*  "returned"  the phrase that register returns, as a client written to   *)
(*              the server's description of recovery would.                *)
(***************************************************************************)
ASSUME NilAssumption == Nil \notin User \cup Draw \cup Tab
ASSUME BrowserAssumption == BrowserOf \in [Tab -> Browser]
ASSUME ShownAssumption == Shown \subseteq {"own", "returned"}

VARIABLES
    auth_hash,              \* the columns of users: the verifier,
    salts,                  \* auth_salt and kek_salt, written together,
    public_key,             \* the key pair, Nil while there is no row,
    wrapped_private_key,
    recovery_phrase,        \* recovery_phrase_hash and recovery_auth_hash,
    recovery_wrapped_key,
    storage,                \* the session in a browser's localStorage
    status,                 \* the state of a tab's AuthProvider
    user,
    privateKey,
    op,                     \* the operation a tab is in
    request,                \* the request it waits for
    reply,                  \* the answer it has not processed yet
    storing,                \* the tail of register: the recovery key to store
    orphans,                \* requests nobody waits for
    drawn                   \* the draws that have been used

rowVars == <<auth_hash, salts, public_key, wrapped_private_key,
             recovery_phrase, recovery_wrapped_key>>
tabVars == <<status, user, privateKey>>
callVars == <<request, reply, orphans>>
vars == <<auth_hash, salts, public_key, wrapped_private_key, recovery_phrase,
          recovery_wrapped_key, storage, status, user, privateKey, op,
          request, reply, storing, orphans, drawn>>

\* A draw is a pair of salts, and in a registration a key pair and a phrase
\* besides.  What is derived or wrapped is what it is made from.
Verifier(p, g) == [password |-> p, salt |-> g]
Wrapped(k, p, g) == [key |-> k, password |-> p, salt |-> g]
RecoveryWrapped(k, ph) == [key |-> k, phrase |-> ph]
Phrase == {"own", "returned"} \X Draw

Session(u, a, k, w) ==
    [user |-> u, authSalt |-> a, kekSalt |-> k, wrappedPrivateKey |-> w]

Registered(u) == public_key[u] # Nil
Idle == [name |-> "none"]

-----------------------------------------------------------------------------
(***************************************************************************)
(* The handlers.  m is the request, t the tab that waits for it, or Nil.   *)
(***************************************************************************)

Answer(m, t, a) ==
    IF t = Nil
    THEN orphans' = orphans \ {m} /\ UNCHANGED <<request, reply>>
    ELSE /\ request' = [request EXCEPT ![t] = Nil]
         /\ reply' = [reply EXCEPT ![t] = a]
         /\ UNCHANGED orphans

\* Mutant of Register: without the unique index.
RegisterAgain(m, t) ==
    /\ m.kind = "register"
    /\ auth_hash' = [auth_hash EXCEPT ![m.user] = m.verifier]
    /\ salts' = [salts EXCEPT ![m.user] = m.verifier.salt]
    /\ public_key' = [public_key EXCEPT ![m.user] = m.wrapped.key]
    /\ wrapped_private_key' = [wrapped_private_key EXCEPT ![m.user] = m.wrapped]
    /\ recovery_phrase' =
         [recovery_phrase EXCEPT ![m.user] = <<"returned", m.wrapped.key>>]
    /\ UNCHANGED recovery_wrapped_key
    /\ Answer(m, t, [kind |-> "registered"])

\* register: the INSERT, which the unique index on username may refuse.
Register(m, t) ==
    /\ m.kind = "register"
    /\ ~Registered(m.user)
    /\ auth_hash' = [auth_hash EXCEPT ![m.user] = m.verifier]
    /\ salts' = [salts EXCEPT ![m.user] = m.verifier.salt]
    /\ public_key' = [public_key EXCEPT ![m.user] = m.wrapped.key]
    /\ wrapped_private_key' = [wrapped_private_key EXCEPT ![m.user] = m.wrapped]
    /\ recovery_phrase' =
         [recovery_phrase EXCEPT ![m.user] = <<"returned", m.wrapped.key>>]
    /\ UNCHANGED recovery_wrapped_key
    /\ Answer(m, t, [kind |-> "registered"])

GetSalts(m, t) ==
    /\ m.kind = "get_salts"
    /\ Registered(m.user)
    /\ Answer(m, t, [kind |-> "salts", salts |-> salts[m.user]])
    /\ UNCHANGED rowVars

Login(m, t) ==
    /\ m.kind = "login"
    /\ Registered(m.user)
    /\ auth_hash[m.user] = m.verifier
    /\ Answer(m, t, [kind |-> "logged_in", salts |-> salts[m.user],
                     wrapped |-> wrapped_private_key[m.user]])
    /\ UNCHANGED rowVars

\* Mutant of StoreKeys: the UPDATE leaves the salts as they were.
StoreKeysKeepsSalts(m) ==
    /\ auth_hash' = [auth_hash EXCEPT ![m.user] = m.verifier]
    /\ wrapped_private_key' = [wrapped_private_key EXCEPT ![m.user] = m.wrapped]
    /\ UNCHANGED <<salts, public_key>>

\* Mutant of StoreKeys: the key is stored as it is, not wrapped.
StoreKeysUnwrapped(m) ==
    /\ auth_hash' = [auth_hash EXCEPT ![m.user] = m.verifier]
    /\ salts' = [salts EXCEPT ![m.user] = m.verifier.salt]
    /\ wrapped_private_key' = [wrapped_private_key EXCEPT ![m.user] = m.wrapped.key]
    /\ UNCHANGED public_key

\* What change_password and the recovery's change_password both write.
StoreKeys(m) ==
    /\ auth_hash' = [auth_hash EXCEPT ![m.user] = m.verifier]
    /\ salts' = [salts EXCEPT ![m.user] = m.verifier.salt]
    /\ wrapped_private_key' = [wrapped_private_key EXCEPT ![m.user] = m.wrapped]
    /\ UNCHANGED public_key

\* change_password: the SELECT and the check of the current password.
CheckPassword(m, t) ==
    LET checked == [kind |-> "update_password", user |-> m.user,
                    verifier |-> m.verifier, wrapped |-> m.wrapped] IN
    /\ m.kind = "change_password"
    /\ auth_hash[m.user] = m.current
    /\ IF t = Nil
       THEN orphans' = (orphans \ {m}) \cup {checked} /\ UNCHANGED request
       ELSE request' = [request EXCEPT ![t] = checked] /\ UNCHANGED orphans
    /\ UNCHANGED <<rowVars, reply>>

\* Its UPDATE, which does not check again.
UpdatePassword(m, t) ==
    /\ m.kind = "update_password"
    /\ StoreKeys(m)
    /\ UNCHANGED <<recovery_phrase, recovery_wrapped_key>>
    /\ Answer(m, t, [kind |-> "changed"])

\* recover finds the account by the phrase alone.  An account without a
\* stored key is refused.
Recover(m, t) ==
    /\ m.kind = "recover"
    /\ \E u \in User :
         /\ recovery_phrase[u] # Nil
         /\ recovery_phrase[u] = m.phrase
         /\ recovery_wrapped_key[u] # Nil
         /\ Answer(m, t, [kind |-> "recovered", user |-> u,
                          wrapped |-> recovery_wrapped_key[u]])
    /\ UNCHANGED rowVars

\* change_password of the recovery module.
ResetPassword(m, t) ==
    /\ m.kind = "reset_password"
    /\ StoreKeys(m)
    /\ recovery_phrase' = [recovery_phrase EXCEPT ![m.user] = Nil]
    /\ recovery_wrapped_key' = [recovery_wrapped_key EXCEPT ![m.user] = Nil]
    /\ Answer(m, t, [kind |-> "reset"])

Handle(m, t) ==
    \/ Register(m, t)
    \/ GetSalts(m, t)
    \/ Login(m, t)
    \/ CheckPassword(m, t)
    \/ UpdatePassword(m, t)
    \/ Recover(m, t)
    \/ ResetPassword(m, t)

\* The tab gets an error: the request is refused (a wrong password, a taken
\* name, a session that is gone), it fails, or it is not answered in time and
\* may be served later, which matters if it writes.
Abandon(m) ==
    \/ UNCHANGED orphans
    \/ /\ m.kind \in {"register", "change_password", "update_password",
                      "reset_password"}
       /\ Cardinality(orphans) < MaxOrphans
       /\ orphans' = orphans \cup {m}
NoAnswer(t) ==
    /\ request[t] # Nil
    /\ Abandon(request[t])
    /\ request' = [request EXCEPT ![t] = Nil]
    /\ reply' = [reply EXCEPT ![t] = [kind |-> "error"]]
    /\ UNCHANGED <<rowVars, storage, tabVars, op, storing, drawn>>

-----------------------------------------------------------------------------
(***************************************************************************)
(* What a tab does.                                                        *)
(***************************************************************************)

Ask(t, o, m) ==
    /\ op' = [op EXCEPT ![t] = o]
    /\ request' = [request EXCEPT ![t] = m]
    /\ UNCHANGED <<reply, orphans>>
Proceed(t, m) ==
    /\ request' = [request EXCEPT ![t] = m]
    /\ reply' = [reply EXCEPT ![t] = Nil]
    /\ UNCHANGED <<op, orphans>>
End(t) ==
    /\ op' = [op EXCEPT ![t] = Idle]
    /\ reply' = [reply EXCEPT ![t] = Nil]
    /\ UNCHANGED <<request, orphans>>
Got(t, name, kind) ==
    /\ op[t].name = name
    /\ reply[t] # Nil
    /\ reply[t].kind = kind
Fresh(g) == g \notin drawn /\ drawn' = drawn \cup {g}

\* A page with a form: anything but the unlock dialog.
Form(t) == op[t] = Idle /\ status[t] \in {"unauthenticated", "unlocked"}

\* The end of loginInternal and of recover.
SignIn(t, s, k) ==
    /\ storage' = [storage EXCEPT ![BrowserOf[t]] = s]
    /\ user' = [user EXCEPT ![t] = s]
    /\ privateKey' = [privateKey EXCEPT ![t] = k]
    /\ status' = [status EXCEPT ![t] = "unlocked"]

StartRegister(t, u, p, g, shown) ==
    /\ Form(t)
    /\ storing[t] = Nil
    /\ Fresh(g)
    /\ status' = [status EXCEPT ![t] = "loading"]
    /\ Ask(t, [name |-> "register", user |-> u, password |-> p,
               key |-> g, phrase |-> <<shown, g>>],
           [kind |-> "register", user |-> u, verifier |-> Verifier(p, g),
            wrapped |-> Wrapped(g, p, g)])
    /\ UNCHANGED <<rowVars, storage, user, privateKey, storing>>

Registration(t) ==
    /\ Got(t, "register", "registered")
    /\ Proceed(t, [kind |-> "get_salts", user |-> op[t].user])
    /\ UNCHANGED <<rowVars, storage, tabVars, storing, drawn>>

StartLogin(t, u, p) ==
    /\ Form(t)
    /\ status' = [status EXCEPT ![t] = "loading"]
    /\ Ask(t, [name |-> "login", user |-> u, password |-> p],
           [kind |-> "get_salts", user |-> u])
    /\ UNCHANGED <<rowVars, storage, user, privateKey, storing, drawn>>

SendVerifier(t) ==
    /\ Got(t, "login", "salts") \/ Got(t, "register", "salts")
    /\ Proceed(t, [kind |-> "login", user |-> op[t].user,
                   verifier |-> Verifier(op[t].password, reply[t].salts)])
    /\ UNCHANGED <<rowVars, storage, tabVars, storing, drawn>>

\* Can the password open what was wrapped?
Opens(p, g, w) == w.password = p /\ w.salt = g

\* The rest of loginInternal; register goes on in the background.
LoggedIn(t) ==
    LET a == reply[t] IN
    /\ Got(t, "login", "logged_in") \/ Got(t, "register", "logged_in")
    /\ Opens(op[t].password, a.salts, a.wrapped)
    /\ SignIn(t, Session(op[t].user, a.salts, a.salts, a.wrapped), a.wrapped.key)
    /\ storing' = IF op[t].name = "register"
                  THEN [storing EXCEPT ![t] =
                          [user |-> Nil,
                           wrapped |-> RecoveryWrapped(op[t].key, op[t].phrase)]]
                  ELSE storing
    /\ End(t)
    /\ UNCHANGED <<rowVars, drawn>>

\* register reads the session back from localStorage ...
ReadSession(t) ==
    LET s == storage[BrowserOf[t]] IN
    /\ storing[t] # Nil
    /\ storing[t].user = Nil
    /\ storing' = [storing EXCEPT ![t] =
                     IF s = Nil THEN Nil
                     ELSE [user |-> s.user, wrapped |-> storing[t].wrapped]]
    /\ UNCHANGED <<rowVars, storage, tabVars, op, callVars, drawn>>

\* ... and stores the recovery key with it (store_key), or fails to.
StoreKey(t) ==
    /\ storing[t] # Nil
    /\ storing[t].user # Nil
    /\ \/ recovery_wrapped_key' =
            [recovery_wrapped_key EXCEPT ![storing[t].user] = storing[t].wrapped]
       \/ UNCHANGED recovery_wrapped_key
    /\ storing' = [storing EXCEPT ![t] = Nil]
    /\ UNCHANGED <<auth_hash, salts, public_key, wrapped_private_key,
                   recovery_phrase, storage, tabVars, op, callVars, drawn>>

\* Mutant of Unlock: it opens the session that localStorage has now.
UnlockStored(t, p) ==
    LET s == storage[BrowserOf[t]] IN
    /\ status[t] = "locked" /\ op[t] = Idle
    /\ s # Nil
    /\ Opens(p, s.kekSalt, s.wrappedPrivateKey)
    /\ privateKey' = [privateKey EXCEPT ![t] = s.wrappedPrivateKey.key]
    /\ status' = [status EXCEPT ![t] = "unlocked"]
    /\ UNCHANGED <<rowVars, storage, user, op, callVars, storing, drawn>>

Unlock(t, p) ==
    /\ status[t] = "locked" /\ op[t] = Idle
    /\ Opens(p, user[t].kekSalt, user[t].wrappedPrivateKey)
    /\ privateKey' = [privateKey EXCEPT ![t] = user[t].wrappedPrivateKey.key]
    /\ status' = [status EXCEPT ![t] = "unlocked"]
    /\ UNCHANGED <<rowVars, storage, user, op, callVars, storing, drawn>>

\* handleChangePassword of the dashboard.
StartChangePassword(t, current, p, g) ==
    LET new == Wrapped(privateKey[t], p, g) IN
    /\ op[t] = Idle /\ status[t] = "unlocked"
    /\ current # p
    /\ Fresh(g)
    /\ Ask(t, [name |-> "change_password", wrapped |-> new],
           [kind |-> "change_password", user |-> user[t].user,
            current |-> Verifier(current, user[t].authSalt),
            verifier |-> Verifier(p, g), wrapped |-> new])
    /\ UNCHANGED <<rowVars, storage, tabVars, storing>>

\* Mutant of Changed: the stored session keeps its kekSalt, too.
ChangedKeyOnly(t) ==
    /\ Got(t, "change_password", "changed")
    /\ storage' = [storage EXCEPT ![BrowserOf[t]] =
                     Session(user[t].user, user[t].authSalt, user[t].kekSalt,
                             op[t].wrapped)]
    /\ End(t)
    /\ UNCHANGED <<rowVars, tabVars, storing, drawn>>

\* It renews the stored session's kekSalt and key, not its authSalt, and
\* leaves the tab's own user as it was.
Changed(t) ==
    /\ Got(t, "change_password", "changed")
    /\ storage' = [storage EXCEPT ![BrowserOf[t]] =
                     Session(user[t].user, user[t].authSalt, op[t].wrapped.salt,
                             op[t].wrapped)]
    /\ End(t)
    /\ UNCHANGED <<rowVars, tabVars, storing, drawn>>

StartRecover(t, ph, p) ==
    /\ Form(t)
    /\ Ask(t, [name |-> "recover", phrase |-> ph, password |-> p],
           [kind |-> "recover", phrase |-> ph])
    /\ UNCHANGED <<rowVars, storage, tabVars, storing, drawn>>

Recovered(t, g) ==
    LET w == reply[t].wrapped
        p == op[t].password IN
    /\ Got(t, "recover", "recovered")
    /\ w.phrase = op[t].phrase
    /\ Fresh(g)
    /\ op' = [op EXCEPT ![t] = [name |-> "reset",
                session |-> Session(reply[t].user, g, g, Wrapped(w.key, p, g))]]
    /\ request' = [request EXCEPT ![t] =
                     [kind |-> "reset_password", user |-> reply[t].user,
                      verifier |-> Verifier(p, g), wrapped |-> Wrapped(w.key, p, g)]]
    /\ reply' = [reply EXCEPT ![t] = Nil]
    /\ UNCHANGED <<rowVars, storage, tabVars, storing, orphans>>

Reset(t) ==
    /\ Got(t, "reset", "reset")
    /\ SignIn(t, op[t].session, op[t].session.wrappedPrivateKey.key)
    /\ End(t)
    /\ UNCHANGED <<rowVars, storing, drawn>>

\* The logout button, and the dashboard of a tab without a user.  The request
\* that comes first leaves the users alone, and its answer does not matter.
Logout(t) ==
    /\ op[t] = Idle
    /\ user' = [user EXCEPT ![t] = Nil]
    /\ privateKey' = [privateKey EXCEPT ![t] = Nil]
    /\ storage' = [storage EXCEPT ![BrowserOf[t]] = Nil]
    /\ status' = [status EXCEPT ![t] = "unauthenticated"]
    /\ UNCHANGED <<rowVars, op, callVars, storing, drawn>>

\* The page is loaded again: what the tab had in memory is gone, and
\* restoreSession starts.
Reload(t) ==
    LET s == storage[BrowserOf[t]] IN
    /\ user' = [user EXCEPT ![t] = Nil]
    /\ privateKey' = [privateKey EXCEPT ![t] = Nil]
    /\ status' = [status EXCEPT ![t] =
                    IF s = Nil THEN "unauthenticated" ELSE "loading"]
    /\ op' = [op EXCEPT ![t] =
                IF s = Nil THEN Idle ELSE [name |-> "restore", session |-> s]]
    /\ IF request[t] = Nil THEN UNCHANGED orphans ELSE Abandon(request[t])
    /\ request' = [request EXCEPT ![t] = Nil]
    /\ reply' = [reply EXCEPT ![t] = Nil]
    /\ storing' = [storing EXCEPT ![t] = Nil]
    /\ UNCHANGED <<rowVars, storage, drawn>>

\* get_me accepts the session that the tab has read, or not.
Restored(t) ==
    /\ op[t].name = "restore"
    /\ user' = [user EXCEPT ![t] = op[t].session]
    /\ status' = [status EXCEPT ![t] = "locked"]
    /\ End(t)
    /\ UNCHANGED <<rowVars, storage, privateKey, storing, drawn>>
RestoreFails(t) ==
    /\ op[t].name = "restore"
    /\ storage' = [storage EXCEPT ![BrowserOf[t]] = Nil]
    /\ status' = [status EXCEPT ![t] = "unauthenticated"]
    /\ End(t)
    /\ UNCHANGED <<rowVars, user, privateKey, storing, drawn>>

\* The catch blocks: an error, or a key that does not open.
Failed(t) ==
    /\ reply[t] # Nil
    /\ \/ reply[t].kind = "error"
       \/ /\ reply[t].kind = "logged_in"
          /\ ~Opens(op[t].password, reply[t].salts, reply[t].wrapped)
       \/ /\ reply[t].kind = "recovered"
          /\ reply[t].wrapped.phrase # op[t].phrase
    /\ status' = IF op[t].name \in {"register", "login"}
                 THEN [status EXCEPT ![t] = "unauthenticated"] ELSE status
    /\ End(t)
    /\ UNCHANGED <<rowVars, storage, user, privateKey, storing, drawn>>

-----------------------------------------------------------------------------
Init ==
    /\ auth_hash = [u \in User |-> Nil]
    /\ salts = [u \in User |-> Nil]
    /\ public_key = [u \in User |-> Nil]
    /\ wrapped_private_key = [u \in User |-> Nil]
    /\ recovery_phrase = [u \in User |-> Nil]
    /\ recovery_wrapped_key = [u \in User |-> Nil]
    /\ storage = [b \in Browser |-> Nil]
    /\ status = [t \in Tab |-> "unauthenticated"]
    /\ user = [t \in Tab |-> Nil]
    /\ privateKey = [t \in Tab |-> Nil]
    /\ op = [t \in Tab |-> Idle]
    /\ request = [t \in Tab |-> Nil]
    /\ reply = [t \in Tab |-> Nil]
    /\ storing = [t \in Tab |-> Nil]
    /\ orphans = {}
    /\ drawn = {}

\* A request is served, for the tab that waits or for nobody; or it is lost.
HandleAwaited(t) ==
    /\ request[t] # Nil
    /\ Handle(request[t], t)
    /\ UNCHANGED <<storage, tabVars, op, storing, drawn>>
HandleOrphan(m) ==
    /\ Handle(m, Nil)
    /\ UNCHANGED <<storage, tabVars, op, storing, drawn>>
LoseOrphan(m) ==
    /\ orphans' = orphans \ {m}
    /\ UNCHANGED <<rowVars, storage, tabVars, op, request, reply, storing, drawn>>

TabStep(t) ==
    \/ \E u \in User, p \in Password, g \in Draw, shown \in Shown :
         StartRegister(t, u, p, g, shown)
    \/ Registration(t)
    \/ \E u \in User, p \in Password : StartLogin(t, u, p)
    \/ SendVerifier(t)
    \/ LoggedIn(t)
    \/ ReadSession(t)
    \/ StoreKey(t)
    \/ \E p \in Password : Unlock(t, p)
    \/ \E current, p \in Password, g \in Draw :
         StartChangePassword(t, current, p, g)
    \/ Changed(t)
    \/ \E ph \in Shown \X drawn, p \in Password : StartRecover(t, ph, p)
    \/ \E g \in Draw : Recovered(t, g)
    \/ Reset(t)
    \/ Logout(t)
    \/ Reload(t)
    \/ Restored(t)
    \/ RestoreFails(t)
    \/ Failed(t)

Next ==
    \/ \E t \in Tab : TabStep(t) \/ HandleAwaited(t) \/ NoAnswer(t)
    \/ \E m \in orphans : HandleOrphan(m) \/ LoseOrphan(m)

Spec == Init /\ [][Next]_vars

-----------------------------------------------------------------------------
\* What a password or a recovery phrase has wrapped.
WrappedKey == [key : Draw, password : Password, salt : Draw]
RecoveryKey == [key : Draw, phrase : Phrase]
SessionRecord ==
    [user : User, authSalt : Draw, kekSalt : Draw, wrappedPrivateKey : WrappedKey]

\* The types of the columns, of what a browser keeps and of a tab's state.
TypeOK ==
    /\ auth_hash \in [User -> [password : Password, salt : Draw] \cup {Nil}]
    /\ salts \in [User -> Draw \cup {Nil}]
    /\ public_key \in [User -> Draw \cup {Nil}]
    /\ wrapped_private_key \in [User -> WrappedKey \cup {Nil}]
    /\ recovery_phrase \in [User -> Phrase \cup {Nil}]
    /\ recovery_wrapped_key \in [User -> RecoveryKey \cup {Nil}]
    /\ storage \in [Browser -> SessionRecord \cup {Nil}]
    /\ status \in [Tab -> {"loading", "unauthenticated", "locked", "unlocked"}]
    /\ user \in [Tab -> SessionRecord \cup {Nil}]
    /\ privateKey \in [Tab -> Draw \cup {Nil}]
    /\ drawn \in SUBSET Draw

\* Whoever can log in can read his documents: the wrapped key of a row opens
\* with the password and the salt that the row's verifier was made from, and
\* it is the private key of the row's public key.
VerifierUnwraps ==
    \A u \in User : Registered(u) =>
        /\ auth_hash[u].salt = salts[u]
        /\ Opens(auth_hash[u].password, salts[u], wrapped_private_key[u])
        /\ wrapped_private_key[u].key = public_key[u]

\* An unlocked tab holds the private key of the account it shows.
MemoryKeyIsOwn ==
    \A t \in Tab : status[t] = "unlocked" =>
        privateKey[t] = public_key[user[t].user]

\* What a browser keeps can be unlocked: the salt that it remembers is the one
\* its wrapped key was made with, and the key is the account's.
StorageUnlocks ==
    \A b \in Browser : storage[b] # Nil =>
        LET s == storage[b] IN
        /\ s.wrappedPrivateKey.salt = s.kekSalt
        /\ s.wrappedPrivateKey.key = public_key[s.user]

\* KeyCustody's variables: the password that a row accepts, what its wrapped
\* key holds, and the key that an unlocked tab holds.
accepted == [u \in User |-> IF Registered(u) THEN auth_hash[u].password ELSE Nil]
chests == [u \in User |-> IF Registered(u)
                          THEN [key |-> wrapped_private_key[u].key,
                                password |-> wrapped_private_key[u].password]
                          ELSE Nil]
holding == [t \in Tab |-> IF status[t] = "unlocked"
                          THEN [user |-> user[t].user, key |-> privateKey[t]]
                          ELSE Nil]
Custody == INSTANCE KeyCustody
             WITH Key <- Draw, pair <- public_key, password <- accepted,
                  chest <- chests, held <- holding

\* The accounts and their tabs implement KeyCustody: one account's row, or one
\* tab's key, changes at a time; a key pair is never shared and never replaced;
\* and no late or repeated request takes password and wrapped key apart.
ImplementsCustody == Custody!Spec

\* "12-word mnemonic phrase for account recovery" (README.md:89): once the
\* recovery key of an account is stored, the phrase that finds the account
\* opens it.
RecoveryWorks ==
    \A u \in User :
        recovery_phrase[u] # Nil /\ recovery_wrapped_key[u] # Nil
            => recovery_wrapped_key[u].phrase = recovery_phrase[u]

=============================================================================
