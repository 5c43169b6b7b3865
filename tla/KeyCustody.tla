---------------------------- MODULE KeyCustody ----------------------------
(***************************************************************************)
(* What registration, login, password change and recovery promise of the   *)
(* accounts' private keys together: an account gets a key pair of its own  *)
(* and keeps it for good; the password and the chest that it opens change  *)
(* in one step, whoever changes them; and what a tab takes is the key of   *)
(* the account that it shows.                                              *)
(***************************************************************************)
CONSTANTS User, Password, Key, Tab, Nil

VARIABLES
    pair,       \* the key pair of an account, Nil while there is no account
    password,   \* the password that the server accepts
    chest,      \* the private key and the password that it is wrapped with
    held        \* the account that a tab has unlocked, and the key it holds

vars == <<pair, password, chest, held>>

Chest(k, p) == [key |-> k, password |-> p]

Init ==
    /\ pair = [u \in User |-> Nil]
    /\ password = [u \in User |-> Nil]
    /\ chest = [u \in User |-> Nil]
    /\ held = [t \in Tab |-> Nil]

Fill(u, k, p) ==
    /\ password' = [password EXCEPT ![u] = p]
    /\ chest' = [chest EXCEPT ![u] = Chest(k, p)]
    /\ UNCHANGED held

Enrol(u, k, p) ==
    /\ pair[u] = Nil
    /\ \A v \in User : pair[v] # k
    /\ pair' = [pair EXCEPT ![u] = k]
    /\ Fill(u, k, p)

Rewrap(u, p) ==
    /\ pair[u] # Nil
    /\ Fill(u, pair[u], p)
    /\ UNCHANGED pair

Take(t, u) ==
    /\ pair[u] # Nil
    /\ held' = [held EXCEPT ![t] = [user |-> u, key |-> pair[u]]]
    /\ UNCHANGED <<pair, password, chest>>

Release(t) ==
    /\ held' = [held EXCEPT ![t] = Nil]
    /\ UNCHANGED <<pair, password, chest>>

Next ==
    \/ \E u \in User, k \in Key, p \in Password : Enrol(u, k, p)
    \/ \E u \in User, p \in Password : Rewrap(u, p)
    \/ \E t \in Tab, u \in User : Take(t, u)
    \/ \E t \in Tab : Release(t)

Spec == Init /\ [][Next]_vars

\* The password of an account opens its chest, with the account's own key in
\* it; no two accounts have one key; and no tab holds a key of another account.
Kept ==
    /\ \A u \in User : pair[u] # Nil =>
         /\ chest[u] = Chest(pair[u], password[u])
         /\ \A v \in User : pair[v] = pair[u] => v = u
    /\ \A t \in Tab : held[t] # Nil => held[t].key = pair[held[t].user]

=============================================================================
