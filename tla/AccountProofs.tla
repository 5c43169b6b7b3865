--------------------------- MODULE AccountProofs ---------------------------
(***************************************************************************)
(* What Account guarantees for any number of accounts, passwords, tabs,    *)
(* browsers and requests that outlive their tabs, whichever phrase a       *)
(* registration shows.                                                     *)
(***************************************************************************)
EXTENDS Account, TLAPS

VerifierRecord == [password : Password, salt : Draw]
StoringRecord == [user : User \cup {Nil}, wrapped : RecoveryKey]

\* A verifier and a wrapped key that were made together.
Together(v, w) ==
    /\ v \in VerifierRecord
    /\ w \in WrappedKey
    /\ w.password = v.password
    /\ w.salt = v.salt

\* A session whose key is its user's, and opens with its salt.
SessionSafe(s) ==
    /\ s \in SessionRecord
    /\ s.wrappedPrivateKey.salt = s.kekSalt
    /\ s.wrappedPrivateKey.key = public_key[s.user]

\* A recovery key that is wrapped with the phrase of its own registration.
PairSafe(w) == w \in RecoveryKey /\ w.phrase[2] = w.key

\* What a request that writes the row of an account would write.
MessageSafe(m) ==
    /\ m.kind \in {"register", "change_password", "update_password",
                   "reset_password"}
         => m.user \in User /\ Together(m.verifier, m.wrapped)
    /\ m.kind \in {"change_password", "update_password", "reset_password"}
         => m.wrapped.key = public_key[m.user]

RowsSafe ==
    \A u \in User :
        /\ Registered(u) => /\ Together(auth_hash[u], wrapped_private_key[u])
                            /\ auth_hash[u].salt = salts[u]
                            /\ wrapped_private_key[u].key = public_key[u]
        /\ recovery_phrase[u] # Nil
             => Registered(u) /\ recovery_phrase[u] = <<"returned", public_key[u]>>
        /\ recovery_wrapped_key[u] # Nil => PairSafe(recovery_wrapped_key[u])

\* A tab waits for one request, or has one answer to process.
CallsSafe(t) ==
    /\ op[t].name \in {"none", "restore"} => request[t] = Nil /\ reply[t] = Nil
    /\ reply[t] # Nil => request[t] = Nil

OpSafe(t) ==
    /\ op[t].name = "none" => op[t] = Idle
    /\ op[t].name \in {"register", "login"}
         => op[t].user \in User /\ op[t].password \in Password
    /\ op[t].name = "register"
         => PairSafe(RecoveryWrapped(op[t].key, op[t].phrase))
    /\ op[t].name = "change_password"
         => /\ SessionSafe(user[t])
            /\ op[t].wrapped \in WrappedKey
            /\ op[t].wrapped.key = public_key[user[t].user]
    /\ op[t].name = "recover" => op[t].password \in Password
    /\ op[t].name \in {"reset", "restore"} => SessionSafe(op[t].session)

RequestSafe(t) ==
    request[t] # Nil =>
        /\ MessageSafe(request[t])
        /\ request[t].kind = "login" => request[t].user = op[t].user
        /\ request[t].kind = "recover" => request[t].phrase = op[t].phrase

\* The answers that the rest of the operation relies on.
ReplySafe(t) ==
    reply[t] # Nil =>
        /\ reply[t].kind = "logged_in" /\ op[t].name \in {"register", "login"}
             => /\ reply[t].salts \in Draw
                /\ reply[t].wrapped \in WrappedKey
                /\ reply[t].wrapped.salt = reply[t].salts
                /\ reply[t].wrapped.key = public_key[op[t].user]
        /\ reply[t].kind = "recovered"
             => /\ reply[t].user \in User
                /\ Registered(reply[t].user)
                /\ PairSafe(reply[t].wrapped)
                /\ op[t].phrase = <<"returned", public_key[reply[t].user]>>

MemorySafe(t) ==
    /\ status[t] \in {"locked", "unlocked"} => SessionSafe(user[t])
    /\ status[t] = "unlocked" => privateKey[t] = public_key[user[t].user]
    /\ storing[t] # Nil => storing[t] \in StoringRecord /\ PairSafe(storing[t].wrapped)

TabSafe(t) ==
    /\ CallsSafe(t)
    /\ OpSafe(t)
    /\ RequestSafe(t)
    /\ ReplySafe(t)
    /\ MemorySafe(t)

Domains ==
    /\ DOMAIN op = Tab
    /\ DOMAIN request = Tab
    /\ DOMAIN reply = Tab
    /\ DOMAIN storing = Tab

StorageSafe == \A b \in Browser : storage[b] # Nil => SessionSafe(storage[b])
OrphansSafe == \A m \in orphans : MessageSafe(m)

IInv ==
    /\ TypeOK
    /\ Domains
    /\ RowsSafe
    /\ \A t \in Tab : TabSafe(t)
    /\ StorageSafe
    /\ OrphansSafe

\* No step changes the key pair of an account that has one.
KeysKept == \A u \in User : Registered(u) => public_key'[u] = public_key[u]

-----------------------------------------------------------------------------
LEMMA InitInv == Init => IInv
BY NilAssumption
   DEF Init, IInv, TypeOK, Domains, RowsSafe, TabSafe, CallsSafe, OpSafe, Idle,
       RequestSafe, ReplySafe, MemorySafe, StorageSafe, OrphansSafe, Registered

\* What is safe stays safe when other accounts' rows change.
LEMMA MessageKept ==
    ASSUME NEW m, MessageSafe(m), KeysKept
    PROVE  MessageSafe(m)'
BY NilAssumption DEF MessageSafe, Together, KeysKept, Registered, WrappedKey

\* A tab whose operation and state a step leaves alone, and one that does not
\* take part in it.
StateKept(x) ==
    /\ op'[x] = op[x]
    /\ status'[x] = status[x]
    /\ user'[x] = user[x]
    /\ privateKey'[x] = privateKey[x]
    /\ storing'[x] = storing[x]
Untouched(x) ==
    /\ StateKept(x)
    /\ request'[x] = request[x]
    /\ reply'[x] = reply[x]

LEMMA OpKept ==
    ASSUME NEW x, OpSafe(x), KeysKept, StateKept(x)
    PROVE  OpSafe(x)'
<1>1. SessionSafe(user[x]) => SessionSafe(user[x])'
  BY NilAssumption
     DEF SessionSafe, KeysKept, Registered, SessionRecord, WrappedKey, StateKept
<1>2. SessionSafe(op[x].session) => SessionSafe(op[x].session)'
  BY NilAssumption
     DEF SessionSafe, KeysKept, Registered, SessionRecord, WrappedKey, StateKept
<1>3. ASSUME SessionSafe(user[x]), op[x].wrapped \in WrappedKey,
             op[x].wrapped.key = public_key[user[x].user]
      PROVE  op[x].wrapped.key = public_key'[user[x].user]
  BY <1>3, NilAssumption
     DEF SessionSafe, KeysKept, Registered, SessionRecord, WrappedKey
<1> QED
  BY <1>1, <1>2, <1>3 DEF OpSafe, StateKept, SessionSafe

\* A tab without an operation has nothing to keep.
LEMMA IdleSafe ==
    ASSUME NEW x, op'[x] = Idle
    PROVE  OpSafe(x)'
BY DEF OpSafe, Idle

LEMMA MemoryKept ==
    ASSUME NEW x, MemorySafe(x), KeysKept, StateKept(x)
    PROVE  MemorySafe(x)'
<1>1. SessionSafe(user[x]) => SessionSafe(user[x])'
  BY NilAssumption
     DEF SessionSafe, KeysKept, Registered, SessionRecord, WrappedKey, StateKept
<1>2. SessionSafe(user[x]) => public_key'[user[x].user] = public_key[user[x].user]
  BY NilAssumption
     DEF SessionSafe, KeysKept, Registered, SessionRecord, WrappedKey
<1> QED
  BY <1>1, <1>2 DEF MemorySafe, StateKept, SessionSafe, PairSafe

LEMMA TabKept ==
    ASSUME NEW x, TabSafe(x), KeysKept, Untouched(x)
    PROVE  TabSafe(x)'
<1>1. CallsSafe(x)'
  BY DEF TabSafe, CallsSafe, Untouched, StateKept
<1>2. OpSafe(x)' /\ MemorySafe(x)'
  BY OpKept, MemoryKept DEF TabSafe, Untouched
<1>3. RequestSafe(x)'
  BY NilAssumption DEF TabSafe, RequestSafe, Untouched, StateKept, MessageSafe,
       Together, KeysKept, Registered, WrappedKey
<1>4. ReplySafe(x)'
  <2>1. ASSUME op[x].user \in User, reply[x].wrapped \in WrappedKey,
               reply[x].wrapped.key = public_key[op[x].user]
        PROVE  reply[x].wrapped.key = public_key'[op[x].user]
    BY <2>1, NilAssumption DEF KeysKept, Registered, WrappedKey
  <2> QED
    BY <2>1 DEF TabSafe, OpSafe, ReplySafe, Untouched, StateKept, KeysKept,
                Registered, PairSafe
<1> QED
  BY <1>1, <1>2, <1>3, <1>4 DEF TabSafe

-----------------------------------------------------------------------------
\* What a step of tab t leaves to be shown.
TabStepSafe(t) ==
    /\ TypeOK'
    /\ Domains'
    /\ KeysKept
    /\ RowsSafe'
    /\ \A x \in Tab \ {t} : Untouched(x)
    /\ TabSafe(t)'
    /\ StorageSafe'
    /\ OrphansSafe'

\* One lemma for each step of a tab.
LEMMA StartRegisterSafe ==
    ASSUME IInv, NEW t \in Tab,
           NEW u \in User, NEW p \in Password, NEW g \in Draw,
           NEW shown \in Shown, StartRegister(t, u, p, g, shown)
    PROVE  TabStepSafe(t)
<1> USE DEF IInv, TabSafe, StartRegister, Ask, Form, Fresh, Verifier, Wrapped,
       rowVars, tabVars, callVars
<1>1. TypeOK'
  BY DEF TypeOK
<1>2. Domains' /\ KeysKept /\ RowsSafe'
  BY DEF Domains, KeysKept, RowsSafe, Registered
<1>3. \A x \in Tab \ {t} : Untouched(x)
  BY DEF Untouched, StateKept
<1>4. CallsSafe(t)'
  BY DEF CallsSafe, Domains, Idle
<1>5. OpSafe(t)'
  BY ShownAssumption
     DEF OpSafe, SessionSafe, PairSafe, RecoveryWrapped, RecoveryKey, Phrase
<1>6. RequestSafe(t)'
  BY DEF RequestSafe, Domains, MessageSafe, Together, VerifierRecord,
         WrappedKey
<1>7. ReplySafe(t)'
  BY DEF ReplySafe, CallsSafe, Idle
<1>8. MemorySafe(t)'
  BY DEF MemorySafe, SessionSafe
<1>9. StorageSafe'
  BY DEF StorageSafe, SessionSafe
<1>10. OrphansSafe'
  BY DEF OrphansSafe, MessageSafe
<1> QED
  BY <1>1, <1>2, <1>3, <1>4, <1>5, <1>6, <1>7, <1>8, <1>9, <1>10
     DEF TabStepSafe

LEMMA RegistrationSafe ==
    ASSUME IInv, NEW t \in Tab, Registration(t)
    PROVE  TabStepSafe(t)
<1> USE DEF IInv, TabSafe, Registration, Got, Proceed, rowVars, tabVars,
       callVars
<1>1. TypeOK'
  BY DEF TypeOK
<1>2. Domains' /\ KeysKept /\ RowsSafe'
  BY DEF Domains, KeysKept, RowsSafe, Registered
<1>3. \A x \in Tab \ {t} : Untouched(x)
  BY DEF Untouched, StateKept
<1>4. CallsSafe(t)'
  BY DEF CallsSafe, Domains
<1>5. OpSafe(t)'
  BY DEF OpSafe
<1>6. RequestSafe(t)'
  BY DEF RequestSafe, MessageSafe
<1>7. ReplySafe(t)'
  BY DEF ReplySafe
<1>8. MemorySafe(t)'
  BY DEF MemorySafe, SessionSafe
<1>9. StorageSafe'
  BY DEF StorageSafe, SessionSafe
<1>10. OrphansSafe'
  BY DEF OrphansSafe, MessageSafe
<1> QED
  BY <1>1, <1>2, <1>3, <1>4, <1>5, <1>6, <1>7, <1>8, <1>9, <1>10
     DEF TabStepSafe

LEMMA StartLoginSafe ==
    ASSUME IInv, NEW t \in Tab,
           NEW u \in User, NEW p \in Password, StartLogin(t, u, p)
    PROVE  TabStepSafe(t)
<1> USE DEF IInv, TabSafe, StartLogin, Ask, Form, rowVars, tabVars, callVars
<1>1. TypeOK'
  BY DEF TypeOK
<1>2. Domains' /\ KeysKept /\ RowsSafe'
  BY DEF Domains, KeysKept, RowsSafe, Registered
<1>3. \A x \in Tab \ {t} : Untouched(x)
  BY DEF Untouched, StateKept
<1>4. CallsSafe(t)'
  BY DEF CallsSafe, Domains, Idle
<1>5. OpSafe(t)'
  BY DEF OpSafe, SessionSafe
<1>6. RequestSafe(t)'
  BY DEF RequestSafe, Domains, MessageSafe
<1>7. ReplySafe(t)'
  BY DEF ReplySafe, CallsSafe, Idle
<1>8. MemorySafe(t)'
  BY DEF MemorySafe, SessionSafe
<1>9. StorageSafe'
  BY DEF StorageSafe, SessionSafe
<1>10. OrphansSafe'
  BY DEF OrphansSafe, MessageSafe
<1> QED
  BY <1>1, <1>2, <1>3, <1>4, <1>5, <1>6, <1>7, <1>8, <1>9, <1>10
     DEF TabStepSafe

LEMMA SendVerifierSafe ==
    ASSUME IInv, NEW t \in Tab, SendVerifier(t)
    PROVE  TabStepSafe(t)
<1> USE DEF IInv, TabSafe, SendVerifier, Got, Proceed, Verifier, rowVars,
       tabVars, callVars
<1>1. TypeOK'
  BY DEF TypeOK
<1>2. Domains' /\ KeysKept /\ RowsSafe'
  BY DEF Domains, KeysKept, RowsSafe, Registered
<1>3. \A x \in Tab \ {t} : Untouched(x)
  BY DEF Untouched, StateKept
<1>4. CallsSafe(t)'
  BY DEF CallsSafe, Domains
<1>5. OpSafe(t)'
  BY DEF OpSafe
<1>6. RequestSafe(t)'
  BY DEF RequestSafe, MessageSafe
<1>7. ReplySafe(t)'
  BY DEF ReplySafe
<1>8. MemorySafe(t)'
  BY DEF MemorySafe, SessionSafe
<1>9. StorageSafe'
  BY DEF StorageSafe, SessionSafe
<1>10. OrphansSafe'
  BY DEF OrphansSafe, MessageSafe
<1> QED
  BY <1>1, <1>2, <1>3, <1>4, <1>5, <1>6, <1>7, <1>8, <1>9, <1>10
     DEF TabStepSafe

LEMMA LoggedInSafe ==
    ASSUME IInv, NEW t \in Tab, LoggedIn(t)
    PROVE  TabStepSafe(t)
<1> USE DEF IInv, TabSafe, LoggedIn, Got, SignIn, Session, End, Opens,
       RecoveryWrapped, rowVars, tabVars, callVars
<1>1. TypeOK'
  BY DEF TypeOK, SessionRecord, WrappedKey, OpSafe, ReplySafe
<1>2. Domains' /\ KeysKept /\ RowsSafe'
  BY DEF Domains, KeysKept, RowsSafe, Registered
<1>3. \A x \in Tab \ {t} : Untouched(x)
  BY DEF Untouched, StateKept
<1>4. CallsSafe(t)'
  BY DEF CallsSafe, Domains
<1>5. OpSafe(t)'
  BY IdleSafe DEF Domains
<1>6. RequestSafe(t)'
  BY DEF RequestSafe, CallsSafe
<1>7. ReplySafe(t)'
  BY DEF ReplySafe, Domains
<1>8. MemorySafe(t)'
  BY DEF MemorySafe, TypeOK, OpSafe, SessionSafe, SessionRecord, ReplySafe,
         StoringRecord, PairSafe, RecoveryKey
<1>9. StorageSafe'
  <2>1. SessionSafe(user[t])'
    BY <1>8 DEF MemorySafe, TypeOK
  <2>2. \A b \in Browser : storage'[b] = storage[b] \/ storage'[b] = user'[t]
    BY DEF TypeOK
  <2> QED
    BY <2>1, <2>2 DEF StorageSafe, SessionSafe
<1>10. OrphansSafe'
  BY DEF OrphansSafe, MessageSafe
<1> QED
  BY <1>1, <1>2, <1>3, <1>4, <1>5, <1>6, <1>7, <1>8, <1>9, <1>10
     DEF TabStepSafe

LEMMA ReadSessionSafe ==
    ASSUME IInv, NEW t \in Tab, ReadSession(t)
    PROVE  TabStepSafe(t)
<1> USE DEF IInv, TabSafe, ReadSession, rowVars, tabVars, callVars
<1>1. TypeOK'
  BY DEF TypeOK
<1>2. Domains' /\ KeysKept /\ RowsSafe'
  BY DEF Domains, KeysKept, RowsSafe, Registered
<1>3. \A x \in Tab \ {t} : Untouched(x)
  BY DEF Untouched, StateKept
<1>4. CallsSafe(t)'
  BY DEF CallsSafe
<1>5. OpSafe(t)'
  BY DEF OpSafe, SessionSafe
<1>6. RequestSafe(t)'
  BY DEF RequestSafe, MessageSafe
<1>7. ReplySafe(t)'
  BY DEF ReplySafe, Registered
<1>8. MemorySafe(t)'
  BY BrowserAssumption
     DEF MemorySafe, SessionSafe, SessionRecord, StorageSafe, StoringRecord
<1>9. StorageSafe'
  BY DEF StorageSafe, SessionSafe
<1>10. OrphansSafe'
  BY DEF OrphansSafe, MessageSafe
<1> QED
  BY <1>1, <1>2, <1>3, <1>4, <1>5, <1>6, <1>7, <1>8, <1>9, <1>10
     DEF TabStepSafe

LEMMA StoreKeySafe ==
    ASSUME IInv, NEW t \in Tab, StoreKey(t)
    PROVE  TabStepSafe(t)
<1> USE DEF IInv, TabSafe, StoreKey, rowVars, tabVars, callVars
<1>1. TypeOK'
  BY DEF TypeOK, MemorySafe, PairSafe
<1>2. Domains' /\ KeysKept /\ RowsSafe'
  BY DEF Domains, TypeOK, KeysKept, RowsSafe, Registered, MemorySafe
<1>3. \A x \in Tab \ {t} : Untouched(x)
  BY DEF Untouched, StateKept
<1>4. CallsSafe(t)'
  BY DEF CallsSafe
<1>5. OpSafe(t)'
  BY DEF OpSafe, SessionSafe
<1>6. RequestSafe(t)'
  BY DEF RequestSafe, MessageSafe
<1>7. ReplySafe(t)'
  BY DEF ReplySafe, Registered
<1>8. MemorySafe(t)'
  BY DEF MemorySafe, SessionSafe
<1>9. StorageSafe'
  BY DEF StorageSafe, SessionSafe
<1>10. OrphansSafe'
  BY DEF OrphansSafe, MessageSafe
<1> QED
  BY <1>1, <1>2, <1>3, <1>4, <1>5, <1>6, <1>7, <1>8, <1>9, <1>10
     DEF TabStepSafe

LEMMA UnlockSafe ==
    ASSUME IInv, NEW t \in Tab,
           NEW p \in Password, Unlock(t, p)
    PROVE  TabStepSafe(t)
<1> USE DEF IInv, TabSafe, Unlock, Opens, rowVars, tabVars, callVars
<1>1. TypeOK'
  BY DEF TypeOK, SessionRecord, MemorySafe, SessionSafe
<1>2. Domains' /\ KeysKept /\ RowsSafe'
  BY DEF Domains, KeysKept, RowsSafe, Registered
<1>3. \A x \in Tab \ {t} : Untouched(x)
  BY DEF Untouched, StateKept
<1>4. CallsSafe(t)'
  BY DEF CallsSafe
<1>5. OpSafe(t)'
  BY DEF OpSafe, SessionSafe
<1>6. RequestSafe(t)'
  BY DEF RequestSafe, MessageSafe
<1>7. ReplySafe(t)'
  BY DEF ReplySafe, Registered
<1>8. MemorySafe(t)'
  BY DEF MemorySafe, TypeOK, SessionSafe
<1>9. StorageSafe'
  BY DEF StorageSafe, SessionSafe
<1>10. OrphansSafe'
  BY DEF OrphansSafe, MessageSafe
<1> QED
  BY <1>1, <1>2, <1>3, <1>4, <1>5, <1>6, <1>7, <1>8, <1>9, <1>10
     DEF TabStepSafe

LEMMA StartChangePasswordSafe ==
    ASSUME IInv, NEW t \in Tab,
           NEW current \in Password, NEW p \in Password,
           NEW g \in Draw, StartChangePassword(t, current, p, g)
    PROVE  TabStepSafe(t)
<1> USE DEF IInv, TabSafe, StartChangePassword, Ask, Fresh, Verifier, Wrapped,
       rowVars, tabVars, callVars
<1>1. TypeOK'
  BY DEF TypeOK
<1>2. Domains' /\ KeysKept /\ RowsSafe'
  BY DEF Domains, KeysKept, RowsSafe, Registered
<1>3. \A x \in Tab \ {t} : Untouched(x)
  BY DEF Untouched, StateKept
<1>4. CallsSafe(t)'
  BY DEF CallsSafe, Domains, Idle
<1>5. OpSafe(t)'
  BY DEF OpSafe, SessionSafe, MemorySafe, PairSafe, SessionRecord, WrappedKey
<1>6. RequestSafe(t)'
  BY DEF RequestSafe, Domains, MessageSafe, Together, VerifierRecord,
         WrappedKey, MemorySafe, SessionSafe, SessionRecord
<1>7. ReplySafe(t)'
  BY DEF ReplySafe, CallsSafe, Idle
<1>8. MemorySafe(t)'
  BY DEF MemorySafe, SessionSafe
<1>9. StorageSafe'
  BY DEF StorageSafe, SessionSafe
<1>10. OrphansSafe'
  BY DEF OrphansSafe, MessageSafe
<1> QED
  BY <1>1, <1>2, <1>3, <1>4, <1>5, <1>6, <1>7, <1>8, <1>9, <1>10
     DEF TabStepSafe

LEMMA ChangedSafe ==
    ASSUME IInv, NEW t \in Tab, Changed(t)
    PROVE  TabStepSafe(t)
<1> USE DEF IInv, TabSafe, Changed, Got, Session, End, rowVars, tabVars,
       callVars
<1>1. TypeOK'
  BY DEF TypeOK, SessionRecord, WrappedKey, OpSafe, SessionSafe
<1>2. Domains' /\ KeysKept /\ RowsSafe'
  BY DEF Domains, KeysKept, RowsSafe, Registered
<1>3. \A x \in Tab \ {t} : Untouched(x)
  BY DEF Untouched, StateKept
<1>4. CallsSafe(t)'
  BY DEF CallsSafe, Domains
<1>5. OpSafe(t)'
  BY IdleSafe DEF Domains
<1>6. RequestSafe(t)'
  BY DEF RequestSafe, CallsSafe
<1>7. ReplySafe(t)'
  BY DEF ReplySafe
<1>8. MemorySafe(t)'
  BY DEF MemorySafe, SessionSafe
<1>9. StorageSafe'
  BY DEF StorageSafe, OpSafe, SessionSafe, SessionRecord, WrappedKey
<1>10. OrphansSafe'
  BY DEF OrphansSafe, MessageSafe
<1> QED
  BY <1>1, <1>2, <1>3, <1>4, <1>5, <1>6, <1>7, <1>8, <1>9, <1>10
     DEF TabStepSafe

LEMMA StartRecoverSafe ==
    ASSUME IInv, NEW t \in Tab,
           NEW ph \in Shown \X drawn, NEW p \in Password,
           StartRecover(t, ph, p)
    PROVE  TabStepSafe(t)
<1> USE DEF IInv, TabSafe, StartRecover, Ask, Form, rowVars, tabVars, callVars
<1>1. TypeOK'
  BY DEF TypeOK
<1>2. Domains' /\ KeysKept /\ RowsSafe'
  BY DEF Domains, KeysKept, RowsSafe, Registered
<1>3. \A x \in Tab \ {t} : Untouched(x)
  BY DEF Untouched, StateKept
<1>4. CallsSafe(t)'
  BY DEF CallsSafe, Domains, Idle
<1>5. OpSafe(t)'
  BY DEF OpSafe, SessionSafe
<1>6. RequestSafe(t)'
  BY DEF RequestSafe, Domains, MessageSafe
<1>7. ReplySafe(t)'
  BY DEF ReplySafe, CallsSafe, Idle
<1>8. MemorySafe(t)'
  BY DEF MemorySafe, SessionSafe
<1>9. StorageSafe'
  BY DEF StorageSafe, SessionSafe
<1>10. OrphansSafe'
  BY DEF OrphansSafe, MessageSafe
<1> QED
  BY <1>1, <1>2, <1>3, <1>4, <1>5, <1>6, <1>7, <1>8, <1>9, <1>10
     DEF TabStepSafe

LEMMA RecoveredSafe ==
    ASSUME IInv, NEW t \in Tab,
           NEW g \in Draw, Recovered(t, g)
    PROVE  TabStepSafe(t)
<1> USE DEF IInv, TabSafe, Recovered, Got, Fresh, Session, Verifier, Wrapped,
       rowVars, tabVars, callVars
<1>1. TypeOK'
  BY DEF TypeOK
<1>2. Domains' /\ KeysKept /\ RowsSafe'
  BY DEF Domains, KeysKept, RowsSafe, Registered
<1>3. \A x \in Tab \ {t} : Untouched(x)
  BY DEF Untouched, StateKept
<1>4. CallsSafe(t)'
  BY DEF CallsSafe, Domains
<1>5. OpSafe(t)'
  BY DEF OpSafe, SessionSafe, PairSafe, RecoveryKey, SessionRecord,
         WrappedKey, ReplySafe
<1>6. RequestSafe(t)'
  BY DEF RequestSafe, MessageSafe, Together, VerifierRecord, WrappedKey,
         CallsSafe, OpSafe, ReplySafe, PairSafe, RecoveryKey
<1>7. ReplySafe(t)'
  BY DEF ReplySafe, Domains
<1>8. MemorySafe(t)'
  BY DEF MemorySafe, SessionSafe
<1>9. StorageSafe'
  BY DEF StorageSafe, SessionSafe
<1>10. OrphansSafe'
  BY DEF OrphansSafe, MessageSafe
<1> QED
  BY <1>1, <1>2, <1>3, <1>4, <1>5, <1>6, <1>7, <1>8, <1>9, <1>10
     DEF TabStepSafe

LEMMA ResetSafe ==
    ASSUME IInv, NEW t \in Tab, Reset(t)
    PROVE  TabStepSafe(t)
<1> USE DEF IInv, TabSafe, Reset, Got, SignIn, End, rowVars, tabVars, callVars
<1>1. TypeOK'
  BY DEF TypeOK, SessionRecord, WrappedKey, OpSafe, SessionSafe
<1>2. Domains' /\ KeysKept /\ RowsSafe'
  BY DEF Domains, KeysKept, RowsSafe, Registered
<1>3. \A x \in Tab \ {t} : Untouched(x)
  BY DEF Untouched, StateKept
<1>4. CallsSafe(t)'
  BY DEF CallsSafe, Domains
<1>5. OpSafe(t)'
  BY IdleSafe DEF Domains
<1>6. RequestSafe(t)'
  BY DEF RequestSafe, CallsSafe
<1>7. ReplySafe(t)'
  BY DEF ReplySafe
<1>8. MemorySafe(t)'
  BY DEF MemorySafe, TypeOK, OpSafe, SessionSafe
<1>9. StorageSafe'
  BY DEF StorageSafe, OpSafe, SessionSafe
<1>10. OrphansSafe'
  BY DEF OrphansSafe, MessageSafe
<1> QED
  BY <1>1, <1>2, <1>3, <1>4, <1>5, <1>6, <1>7, <1>8, <1>9, <1>10
     DEF TabStepSafe

LEMMA LogoutSafe ==
    ASSUME IInv, NEW t \in Tab, Logout(t)
    PROVE  TabStepSafe(t)
<1> USE DEF IInv, TabSafe, Logout, rowVars, tabVars, callVars
<1>1. TypeOK'
  BY DEF TypeOK
<1>2. Domains' /\ KeysKept /\ RowsSafe'
  BY DEF Domains, KeysKept, RowsSafe, Registered
<1>3. \A x \in Tab \ {t} : Untouched(x)
  BY DEF Untouched, StateKept
<1>4. CallsSafe(t)'
  BY DEF CallsSafe
<1>5. OpSafe(t)'
  BY DEF OpSafe, Idle
<1>6. RequestSafe(t)'
  BY DEF RequestSafe, MessageSafe
<1>7. ReplySafe(t)'
  BY DEF ReplySafe, Registered
<1>8. MemorySafe(t)'
  BY DEF MemorySafe, TypeOK
<1>9. StorageSafe'
  BY DEF StorageSafe, SessionSafe
<1>10. OrphansSafe'
  BY DEF OrphansSafe, MessageSafe
<1> QED
  BY <1>1, <1>2, <1>3, <1>4, <1>5, <1>6, <1>7, <1>8, <1>9, <1>10
     DEF TabStepSafe

LEMMA ReloadSafe ==
    ASSUME IInv, NEW t \in Tab, Reload(t)
    PROVE  TabStepSafe(t)
<1> USE DEF IInv, TabSafe, Reload, Abandon, rowVars, tabVars, callVars
<1>1. TypeOK'
  BY DEF TypeOK
<1>2. Domains' /\ KeysKept /\ RowsSafe'
  BY DEF Domains, KeysKept, RowsSafe, Registered
<1>3. \A x \in Tab \ {t} : Untouched(x)
  BY DEF Untouched, StateKept
<1>4. CallsSafe(t)'
  BY DEF CallsSafe, Domains
<1>5. OpSafe(t)'
  BY BrowserAssumption DEF OpSafe, Domains, Idle, SessionSafe, StorageSafe
<1>6. RequestSafe(t)'
  BY DEF RequestSafe, Domains
<1>7. ReplySafe(t)'
  BY DEF ReplySafe, Domains
<1>8. MemorySafe(t)'
  BY DEF MemorySafe, TypeOK
<1>9. StorageSafe'
  BY DEF StorageSafe, SessionSafe
<1>10. OrphansSafe'
  BY DEF OrphansSafe, MessageSafe, RequestSafe
<1> QED
  BY <1>1, <1>2, <1>3, <1>4, <1>5, <1>6, <1>7, <1>8, <1>9, <1>10
     DEF TabStepSafe

LEMMA RestoredSafe ==
    ASSUME IInv, NEW t \in Tab, Restored(t)
    PROVE  TabStepSafe(t)
<1> USE DEF IInv, TabSafe, Restored, End, rowVars, tabVars, callVars
<1>1. TypeOK'
  BY DEF TypeOK, OpSafe, SessionSafe
<1>2. Domains' /\ KeysKept /\ RowsSafe'
  BY DEF Domains, KeysKept, RowsSafe, Registered
<1>3. \A x \in Tab \ {t} : Untouched(x)
  BY DEF Untouched, StateKept
<1>4. CallsSafe(t)'
  BY DEF CallsSafe
<1>5. OpSafe(t)'
  BY IdleSafe DEF Domains
<1>6. RequestSafe(t)'
  BY DEF RequestSafe, CallsSafe
<1>7. ReplySafe(t)'
  BY DEF ReplySafe, CallsSafe
<1>8. MemorySafe(t)'
  BY DEF MemorySafe, TypeOK, OpSafe, SessionSafe
<1>9. StorageSafe'
  BY DEF StorageSafe, SessionSafe
<1>10. OrphansSafe'
  BY DEF OrphansSafe, MessageSafe
<1> QED
  BY <1>1, <1>2, <1>3, <1>4, <1>5, <1>6, <1>7, <1>8, <1>9, <1>10
     DEF TabStepSafe

LEMMA RestoreFailsSafe ==
    ASSUME IInv, NEW t \in Tab, RestoreFails(t)
    PROVE  TabStepSafe(t)
<1> USE DEF IInv, TabSafe, RestoreFails, End, rowVars, tabVars, callVars
<1>1. TypeOK'
  BY DEF TypeOK
<1>2. Domains' /\ KeysKept /\ RowsSafe'
  BY DEF Domains, KeysKept, RowsSafe, Registered
<1>3. \A x \in Tab \ {t} : Untouched(x)
  BY DEF Untouched, StateKept
<1>4. CallsSafe(t)'
  BY DEF CallsSafe
<1>5. OpSafe(t)'
  BY IdleSafe DEF Domains
<1>6. RequestSafe(t)'
  BY DEF RequestSafe, CallsSafe
<1>7. ReplySafe(t)'
  BY DEF ReplySafe, CallsSafe
<1>8. MemorySafe(t)'
  BY DEF MemorySafe, SessionSafe
<1>9. StorageSafe'
  BY DEF StorageSafe, SessionSafe
<1>10. OrphansSafe'
  BY DEF OrphansSafe, MessageSafe
<1> QED
  BY <1>1, <1>2, <1>3, <1>4, <1>5, <1>6, <1>7, <1>8, <1>9, <1>10
     DEF TabStepSafe

LEMMA FailedSafe ==
    ASSUME IInv, NEW t \in Tab, Failed(t)
    PROVE  TabStepSafe(t)
<1> USE DEF IInv, TabSafe, Failed, End, rowVars, tabVars, callVars
<1>1. TypeOK'
  BY DEF TypeOK
<1>2. Domains' /\ KeysKept /\ RowsSafe'
  BY DEF Domains, KeysKept, RowsSafe, Registered
<1>3. \A x \in Tab \ {t} : Untouched(x)
  BY DEF Untouched, StateKept
<1>4. CallsSafe(t)'
  BY DEF CallsSafe, Domains
<1>5. OpSafe(t)'
  BY IdleSafe DEF Domains
<1>6. RequestSafe(t)'
  BY DEF RequestSafe, CallsSafe
<1>7. ReplySafe(t)'
  BY DEF ReplySafe, Domains
<1>8. MemorySafe(t)'
  BY DEF MemorySafe, SessionSafe
<1>9. StorageSafe'
  BY DEF StorageSafe, SessionSafe
<1>10. OrphansSafe'
  BY DEF OrphansSafe, MessageSafe
<1> QED
  BY <1>1, <1>2, <1>3, <1>4, <1>5, <1>6, <1>7, <1>8, <1>9, <1>10
     DEF TabStepSafe

LEMMA NoAnswerSafe ==
    ASSUME IInv, NEW t \in Tab, NoAnswer(t)
    PROVE  TabStepSafe(t)
<1> USE DEF IInv, TabSafe, NoAnswer, Abandon, rowVars, tabVars, callVars
<1>1. TypeOK'
  BY DEF TypeOK
<1>2. Domains' /\ KeysKept /\ RowsSafe'
  BY DEF Domains, KeysKept, RowsSafe, Registered
<1>3. \A x \in Tab \ {t} : Untouched(x)
  BY DEF Untouched, StateKept
<1>4. CallsSafe(t)'
  BY DEF CallsSafe, Domains
<1>5. OpSafe(t)'
  BY DEF OpSafe, SessionSafe
<1>6. RequestSafe(t)'
  BY DEF RequestSafe, MessageSafe
<1>7. ReplySafe(t)'
  BY DEF ReplySafe, Registered
<1>8. MemorySafe(t)'
  BY DEF MemorySafe, SessionSafe
<1>9. StorageSafe'
  BY DEF StorageSafe, SessionSafe
<1>10. OrphansSafe'
  BY DEF OrphansSafe, MessageSafe, RequestSafe
<1> QED
  BY <1>1, <1>2, <1>3, <1>4, <1>5, <1>6, <1>7, <1>8, <1>9, <1>10
     DEF TabStepSafe

-----------------------------------------------------------------------------
\* A handler keeps the rows safe, whoever waits for its answer.
LEMMA HandlerRows ==
    ASSUME IInv, NEW m, MessageSafe(m), NEW t, Handle(m, t),
           UNCHANGED <<storage, tabVars, op, storing, drawn>>
    PROVE  TypeOK' /\ KeysKept /\ RowsSafe'
<1> USE DEF IInv, rowVars, tabVars, MessageSafe
<1>1. CASE Register(m, t)
  <2>1. TypeOK'
    BY <1>1 DEF Register, TypeOK, Together, VerifierRecord, WrappedKey, Phrase
  <2>2. KeysKept
    BY <1>1 DEF Register, KeysKept, Registered, TypeOK
  <2>3. RowsSafe'
    BY <1>1, NilAssumption
       DEF Register, RowsSafe, Registered, TypeOK, Together, PairSafe, WrappedKey
  <2> QED
    BY <2>1, <2>2, <2>3
<1>2. CASE UpdatePassword(m, t)
  <2>1. TypeOK'
    BY <1>2 DEF UpdatePassword, StoreKeys, TypeOK, Together, VerifierRecord,
                WrappedKey
  <2>2. RowsSafe'
    BY <1>2, NilAssumption
       DEF UpdatePassword, StoreKeys, RowsSafe, Registered, TypeOK, Together,
           PairSafe, WrappedKey
  <2> QED
    BY <1>2, <2>1, <2>2 DEF UpdatePassword, StoreKeys, KeysKept
<1>3. CASE ResetPassword(m, t)
  <2>1. TypeOK'
    BY <1>3 DEF ResetPassword, StoreKeys, TypeOK, Together, VerifierRecord,
                WrappedKey
  <2>2. RowsSafe'
    BY <1>3, NilAssumption
       DEF ResetPassword, StoreKeys, RowsSafe, Registered, TypeOK, Together,
           PairSafe, WrappedKey
  <2> QED
    BY <1>3, <2>1, <2>2 DEF ResetPassword, StoreKeys, KeysKept
<1>4. CASE \/ GetSalts(m, t)
           \/ Login(m, t)
           \/ CheckPassword(m, t)
           \/ Recover(m, t)
  <2>1. UNCHANGED rowVars
    BY <1>4 DEF GetSalts, Login, CheckPassword, Recover
  <2> QED
    BY <2>1 DEF TypeOK, KeysKept, RowsSafe, Registered, PairSafe, Together
<1> QED
  BY <1>1, <1>2, <1>3, <1>4 DEF Handle

LEMMA HandleAwaitedSafe ==
    ASSUME IInv, NEW t \in Tab, HandleAwaited(t)
    PROVE  TabStepSafe(t)
<1> DEFINE m == request[t]
<1> USE DEF IInv, TabSafe, HandleAwaited, tabVars
<1>1. MessageSafe(m)
  BY DEF RequestSafe
<1>2. TypeOK' /\ KeysKept /\ RowsSafe'
  BY <1>1, HandlerRows
<1>3. t # Nil
  BY NilAssumption
<1>4. /\ Domains'
      /\ \A x \in Tab \ {t} : Untouched(x)
      /\ StateKept(t)
      /\ orphans' = orphans
  BY <1>3
     DEF Handle, Register, GetSalts, Login, CheckPassword, UpdatePassword,
         Recover, ResetPassword, Answer, Domains, Untouched, StateKept
<1>5. OpSafe(t)' /\ MemorySafe(t)'
  BY <1>2, <1>4, OpKept, MemoryKept
<1>6. CallsSafe(t)'
  BY <1>3
     DEF Handle, Register, GetSalts, Login, CheckPassword, UpdatePassword,
         Recover, ResetPassword, Answer, Domains, CallsSafe
<1>7. RequestSafe(t)'
  <2>1. CASE CheckPassword(m, t)
    BY <2>1, <1>1, <1>3
       DEF CheckPassword, rowVars, Domains, RequestSafe, MessageSafe, Together
  <2>2. CASE ~CheckPassword(m, t)
    BY <2>2, <1>3
       DEF Handle, Register, GetSalts, Login, UpdatePassword, Recover,
           ResetPassword, Answer, Domains, RequestSafe
  <2> QED
    BY <2>1, <2>2
<1>8. ReplySafe(t)'
  <2>1. CASE Login(m, t)
    BY <2>1, <1>3
       DEF Login, Answer, rowVars, Domains, ReplySafe, RequestSafe, OpSafe,
           RowsSafe, Registered, Together, VerifierRecord, WrappedKey
  <2>2. CASE Recover(m, t)
    BY <2>2, <1>3
       DEF Recover, Answer, rowVars, Domains, ReplySafe, RequestSafe, OpSafe,
           RowsSafe, Registered, PairSafe
  <2>3. CASE CheckPassword(m, t)
    BY <2>3 DEF CheckPassword, ReplySafe, CallsSafe
  <2>4. CASE \/ Register(m, t)
             \/ GetSalts(m, t)
             \/ UpdatePassword(m, t)
             \/ ResetPassword(m, t)
    BY <2>4, <1>3
       DEF Register, GetSalts, UpdatePassword, ResetPassword, Answer, Domains,
           ReplySafe
  <2> QED
    BY <2>1, <2>2, <2>3, <2>4 DEF Handle
<1>9. StorageSafe'
  BY <1>2, NilAssumption
     DEF StorageSafe, SessionSafe, KeysKept, Registered, SessionRecord, WrappedKey
<1>10. OrphansSafe'
  BY <1>2, <1>4, MessageKept DEF OrphansSafe
<1> QED
  BY <1>2, <1>4, <1>5, <1>6, <1>7, <1>8, <1>9, <1>10 DEF TabStepSafe

LEMMA HandleOrphanSafe ==
    ASSUME IInv, NEW m \in orphans, HandleOrphan(m)
    PROVE  /\ TypeOK' /\ Domains' /\ KeysKept /\ RowsSafe'
           /\ \A x \in Tab : Untouched(x)
           /\ StorageSafe' /\ OrphansSafe'
<1> USE DEF IInv, HandleOrphan, tabVars
<1>1. MessageSafe(m)
  BY DEF OrphansSafe
<1>2. TypeOK' /\ KeysKept /\ RowsSafe'
  BY <1>1, HandlerRows
<1>3. Domains' /\ \A x \in Tab : Untouched(x)
  BY DEF Handle, Register, GetSalts, Login, CheckPassword, UpdatePassword,
         Recover, ResetPassword, Answer, Domains, Untouched, StateKept
<1>4. StorageSafe'
  BY <1>2, NilAssumption
     DEF StorageSafe, SessionSafe, KeysKept, Registered, SessionRecord, WrappedKey
<1>5. OrphansSafe'
  <2>1. CASE CheckPassword(m, Nil)
    BY <2>1, <1>1
       DEF CheckPassword, rowVars, OrphansSafe, MessageSafe, Together
  <2>2. CASE ~CheckPassword(m, Nil)
    <3>1. orphans' \subseteq orphans
      BY <2>2 DEF Handle, Register, GetSalts, Login, UpdatePassword, Recover,
                  ResetPassword, Answer
    <3> QED
      BY <3>1, <1>2, MessageKept DEF OrphansSafe
  <2> QED
    BY <2>1, <2>2
<1> QED
  BY <1>2, <1>3, <1>4, <1>5

-----------------------------------------------------------------------------
\* The other tabs are untouched.
LEMMA TabStepInv ==
    ASSUME IInv, NEW t \in Tab, TabStepSafe(t)
    PROVE  IInv'
BY TabKept DEF IInv, TabStepSafe

LEMMA TabStepCorrect ==
    ASSUME IInv, NEW t \in Tab, TabStep(t)
    PROVE  TabStepSafe(t)
BY StartRegisterSafe, RegistrationSafe, StartLoginSafe, SendVerifierSafe,
   LoggedInSafe, ReadSessionSafe, StoreKeySafe, UnlockSafe,
   StartChangePasswordSafe, ChangedSafe, StartRecoverSafe, RecoveredSafe,
   ResetSafe, LogoutSafe, ReloadSafe, RestoredSafe, RestoreFailsSafe, FailedSafe
   DEF TabStep

LEMMA StepInv == IInv /\ [Next]_vars => IInv'
<1> SUFFICES ASSUME IInv, [Next]_vars PROVE IInv'
  OBVIOUS
<1>1. ASSUME NEW t \in Tab, TabStep(t) PROVE IInv'
  BY <1>1, TabStepCorrect, TabStepInv
<1>2. ASSUME NEW t \in Tab, HandleAwaited(t) PROVE IInv'
  BY <1>2, HandleAwaitedSafe, TabStepInv
<1>3. ASSUME NEW t \in Tab, NoAnswer(t) PROVE IInv'
  BY <1>3, NoAnswerSafe, TabStepInv
<1>4. ASSUME NEW m \in orphans, HandleOrphan(m) PROVE IInv'
  BY <1>4, HandleOrphanSafe, TabKept DEF IInv
<1>5. ASSUME NEW m \in orphans, LoseOrphan(m) PROVE IInv'
  <2>1. KeysKept /\ \A x \in Tab : Untouched(x)
    BY <1>5 DEF LoseOrphan, rowVars, tabVars, KeysKept, Untouched, StateKept
  <2>2. TypeOK' /\ Domains' /\ RowsSafe' /\ StorageSafe' /\ OrphansSafe'
    BY <1>5 DEF IInv, LoseOrphan, rowVars, tabVars, TypeOK, Domains, RowsSafe,
                Registered, Together, PairSafe, StorageSafe, SessionSafe,
                OrphansSafe, MessageSafe
  <2> QED
    BY <2>1, <2>2, TabKept DEF IInv
<1>6. CASE UNCHANGED vars
  <2>1. KeysKept /\ \A x \in Tab : Untouched(x)
    BY <1>6 DEF vars, KeysKept, Untouched, StateKept
  <2>2. TypeOK' /\ Domains' /\ RowsSafe' /\ StorageSafe' /\ OrphansSafe'
    BY <1>6 DEF IInv, vars, TypeOK, Domains, RowsSafe, Registered, Together,
                PairSafe, StorageSafe, SessionSafe, OrphansSafe, MessageSafe
  <2> QED
    BY <2>1, <2>2, TabKept DEF IInv
<1> QED
  BY <1>1, <1>2, <1>3, <1>4, <1>5, <1>6 DEF Next

LEMMA Invariance == Spec => []IInv
BY InitInv, StepInv, PTL DEF Spec

\* Every reachable state of the accounts, the browsers and the tabs is well
\* typed.
THEOREM TypeCorrect == Spec => []TypeOK
<1>1. IInv => TypeOK
  BY DEF IInv
<1> QED
  BY <1>1, Invariance, PTL

\* Whoever can log in can unwrap the account's private key: whatever changes of
\* the password, recoveries, late requests and other tabs come together.
THEOREM VerifierUnwrapsCorrect == Spec => []VerifierUnwraps
<1>1. IInv => VerifierUnwraps
  BY DEF IInv, RowsSafe, VerifierUnwraps, Opens, Together
<1> QED
  BY <1>1, Invariance, PTL

\* No tab ever holds the private key of another account than the one it shows,
\* whatever the other tabs of its browser do to localStorage.
THEOREM MemoryKeyIsOwnCorrect == Spec => []MemoryKeyIsOwn
<1>1. IInv => MemoryKeyIsOwn
  BY DEF IInv, TabSafe, MemorySafe, MemoryKeyIsOwn
<1> QED
  BY <1>1, Invariance, PTL

\* The session that a browser keeps holds its user's key, wrapped with the salt
\* that it remembers.
THEOREM StorageUnlocksCorrect == Spec => []StorageUnlocks
<1>1. IInv => StorageUnlocks
  BY DEF IInv, StorageSafe, SessionSafe, StorageUnlocks
<1> QED
  BY <1>1, Invariance, PTL

-----------------------------------------------------------------------------
(***************************************************************************)
(* The accounts implement KeyCustody.  What the invariant above leaves     *)
(* open is that no two accounts get one key pair, which takes the requests *)
(* that would still register one into account.                             *)
(***************************************************************************)
Registers(m) == m.kind = "register"
Enrolling(t) == request[t] # Nil /\ Registers(request[t])
Unused(k) == k \in drawn /\ \A u \in User : public_key[u] # k

\* A key pair belongs to one account, or to one request that may register it.
KeysApart ==
    /\ \A u \in User : Registered(u) => public_key[u] \in drawn
    /\ \A u, v \in User : Registered(u) /\ public_key[u] = public_key[v] => u = v
    /\ \A t \in Tab : Enrolling(t) => Unused(request[t].wrapped.key)
    /\ \A m \in orphans : Registers(m) => Unused(m.wrapped.key)
    /\ \A t, x \in Tab :
         /\ Enrolling(t) /\ Enrolling(x)
         /\ request[t].wrapped.key = request[x].wrapped.key
         => t = x
    /\ \A t \in Tab, m \in orphans :
         Enrolling(t) /\ Registers(m)
           => request[t].wrapped.key # m.wrapped.key
    /\ \A m, n \in orphans :
         Registers(m) /\ Registers(n) /\ m.wrapped.key = n.wrapped.key => m = n


\* A tab waits for the request that it waited for, unless it no longer
\* registers; what joins the orphans is the request of such a tab.
LEMMA RequestsKeepApart ==
    ASSUME KeysApart, UNCHANGED public_key, drawn \subseteq drawn',
           \A x \in Tab : request'[x] = request[x] \/ ~Enrolling(x)',
           \A m \in orphans' :
              \/ m \in orphans
              \/ ~Registers(m)
              \/ \E t \in Tab : m = request[t] /\ Enrolling(t) /\ ~Enrolling(t)'
    PROVE  KeysApart'
<1>0. \A x \in Tab : Enrolling(x)' => Enrolling(x) /\ request'[x] = request[x]
  BY DEF Enrolling, Registers
<1>1. \A k : Unused(k) => Unused(k)'
  BY DEF Unused
<1>2. /\ \A u \in User : Registered(u)' => public_key'[u] \in drawn'
      /\ \A u, v \in User :
           Registered(u)' /\ public_key'[u] = public_key'[v] => u = v
  BY DEF KeysApart, Registered
<1>3. \A x \in Tab : Enrolling(x)' => Unused(request[x].wrapped.key)'
  BY <1>0, <1>1 DEF KeysApart
<1>4. \A m \in orphans' : Registers(m) => Unused(m.wrapped.key)'
  BY <1>1 DEF KeysApart
<1>5. \A x, y \in Tab :
         /\ Enrolling(x)' /\ Enrolling(y)'
         /\ request'[x].wrapped.key = request'[y].wrapped.key
         => x = y
  BY <1>0 DEF KeysApart
<1>6. \A x \in Tab, m \in orphans' :
         Enrolling(x)' /\ Registers(m)
           => request'[x].wrapped.key # m.wrapped.key
  BY <1>0 DEF KeysApart
<1>7. \A m, n \in orphans' :
         Registers(m) /\ Registers(n) /\ m.wrapped.key = n.wrapped.key => m = n
  BY DEF KeysApart
<1> QED
  BY <1>2, <1>3, <1>4, <1>5, <1>6, <1>7 DEF KeysApart

LEMMA StartRegisterApart ==
    ASSUME IInv, KeysApart, NEW t \in Tab,
           NEW u \in User, NEW p \in Password, NEW g \in Draw,
           NEW shown \in Shown, StartRegister(t, u, p, g, shown)
    PROVE  KeysApart'
<1> DEFINE r == [kind |-> "register", user |-> u, verifier |-> Verifier(p, g),
                 wrapped |-> Wrapped(g, p, g)]
<1>1. /\ g \notin drawn /\ drawn' = drawn \cup {g}
      /\ request' = [request EXCEPT ![t] = r]
      /\ UNCHANGED <<public_key, orphans>>
  BY DEF StartRegister, Fresh, Ask, rowVars
<1>2. request'[t] = r /\ \A x \in Tab \ {t} : request'[x] = request[x]
  BY <1>1 DEF IInv, Domains
<1>3. r.wrapped.key = g
  BY DEF Wrapped
<1> HIDE DEF r
<1>4. \A k : Unused(k) => k # g /\ Unused(k)'
  BY <1>1 DEF Unused
<1>5. Unused(g)'
  BY <1>1, NilAssumption DEF Unused, KeysApart, Registered
<1>6. \A x \in Tab \ {t} : Enrolling(x)' => Enrolling(x)
  BY <1>2 DEF Enrolling
<1>7. /\ \A v \in User : Registered(v)' => public_key'[v] \in drawn'
      /\ \A v, w \in User :
           Registered(v)' /\ public_key'[v] = public_key'[w] => v = w
  BY <1>1 DEF KeysApart, Registered
<1>8. \A x \in Tab : Enrolling(x)' => Unused(request[x].wrapped.key)'
  BY <1>2, <1>3, <1>4, <1>5, <1>6 DEF KeysApart
<1>9. \A m \in orphans' : Registers(m) => Unused(m.wrapped.key)'
  BY <1>1, <1>4 DEF KeysApart
<1>10. \A x \in Tab \ {t} : Enrolling(x) => request[x].wrapped.key # g
  BY <1>4 DEF KeysApart
<1>11. \A x, y \in Tab :
         /\ Enrolling(x)' /\ Enrolling(y)'
         /\ request'[x].wrapped.key = request'[y].wrapped.key
         => x = y
  BY <1>2, <1>3, <1>10, <1>6 DEF KeysApart
<1>12. \A x \in Tab, m \in orphans' :
         Enrolling(x)' /\ Registers(m)
           => request'[x].wrapped.key # m.wrapped.key
  BY <1>1, <1>2, <1>3, <1>4, <1>6 DEF KeysApart
<1> QED
  BY <1>1, <1>7, <1>8, <1>9, <1>11, <1>12 DEF KeysApart, Enrolling, Registers

\* The rows that hold keys, and what t waits for, in any other step of a tab.
LEMMA TabStepKeeps ==
    ASSUME IInv, NEW t \in Tab, TabStep(t)
    PROVE  UNCHANGED <<auth_hash, public_key, wrapped_private_key>>
BY DEF TabStep, StartRegister, Registration, StartLogin, SendVerifier, LoggedIn,
       ReadSession, StoreKey, Unlock, StartChangePassword, Changed, StartRecover,
       Recovered, Reset, Logout, Reload, Restored, RestoreFails, Failed, rowVars

LEMMA TabStepApart ==
    ASSUME IInv, KeysApart, NEW t \in Tab, TabStep(t)
    PROVE  KeysApart'
<1>1. CASE \E u \in User, p \in Password, g \in Draw, shown \in Shown :
             StartRegister(t, u, p, g, shown)
  BY <1>1, StartRegisterApart
<1>2. CASE Reload(t)
  <2>1. UNCHANGED <<public_key, drawn>> /\ request' = [request EXCEPT ![t] = Nil]
    BY <1>2 DEF Reload, rowVars
  <2>2. \A m \in orphans' : m \in orphans \/ (m = request[t] /\ request[t] # Nil)
    BY <1>2 DEF Reload, Abandon
  <2> QED
    BY <2>1, <2>2, RequestsKeepApart DEF IInv, Domains, Enrolling
<1>3. CASE \/ Registration(t)
           \/ \E u \in User, p \in Password : StartLogin(t, u, p)
           \/ SendVerifier(t)
           \/ \E current, p \in Password, g \in Draw :
                StartChangePassword(t, current, p, g)
           \/ \E ph \in Shown \X drawn, p \in Password : StartRecover(t, ph, p)
           \/ \E g \in Draw : Recovered(t, g)
  <2>1. UNCHANGED <<public_key, orphans>> /\ drawn \subseteq drawn'
    BY <1>3 DEF Registration, StartLogin, SendVerifier, StartChangePassword,
                StartRecover, Recovered, Ask, Proceed, Fresh, rowVars
  <2>2. \A x \in Tab : request'[x] = request[x] \/ ~Enrolling(x)'
    BY <1>3 DEF Registration, StartLogin, SendVerifier, StartChangePassword,
                StartRecover, Recovered, Ask, Proceed, Enrolling, Registers,
                IInv, Domains
  <2> QED
    BY <2>1, <2>2, RequestsKeepApart
<1>4. CASE \/ LoggedIn(t) \/ ReadSession(t) \/ StoreKey(t)
           \/ \E p \in Password : Unlock(t, p)
           \/ Changed(t) \/ Reset(t) \/ Logout(t)
           \/ Restored(t) \/ RestoreFails(t) \/ Failed(t)
  <2>1. UNCHANGED <<public_key, drawn, request, orphans>>
    BY <1>4 DEF LoggedIn, ReadSession, StoreKey, Unlock, Changed, Reset, Logout,
                Restored, RestoreFails, Failed, End, rowVars, callVars
  <2> QED
    BY <2>1, RequestsKeepApart
<1> QED
  BY <1>1, <1>2, <1>3, <1>4 DEF TabStep

\* The key pair of an account goes into its row, and the request is gone.
LEMMA RegisterApart ==
    ASSUME IInv, KeysApart, NEW m, MessageSafe(m), NEW t, Register(m, t),
           UNCHANGED drawn, Unused(m.wrapped.key),
           \A x \in Tab : request'[x] = request[x] \/ request'[x] = Nil,
           orphans' \subseteq orphans,
           \A x \in Tab : Enrolling(x)'
                            => request'[x].wrapped.key # m.wrapped.key,
           \A n \in orphans' : Registers(n) => n.wrapped.key # m.wrapped.key
    PROVE  KeysApart'
<1>1. m.user \in User /\ m.wrapped.key \in drawn
  BY DEF MessageSafe, Register, Unused
<1>2. public_key' = [public_key EXCEPT ![m.user] = m.wrapped.key]
  BY DEF Register
<1>3. public_key \in [User -> Draw \cup {Nil}]
  BY DEF IInv, TypeOK
<1>4. \A k : Unused(k) /\ k # m.wrapped.key => Unused(k)'
  BY <1>1, <1>2, <1>3 DEF Unused
<1>5. /\ \A u \in User : Registered(u)' => public_key'[u] \in drawn'
      /\ \A u, v \in User :
           Registered(u)' /\ public_key'[u] = public_key'[v] => u = v
  BY <1>1, <1>2, <1>3 DEF KeysApart, Registered, Unused
<1>6. \A x \in Tab : Enrolling(x)' => Unused(request[x].wrapped.key)'
  BY <1>4 DEF KeysApart, Enrolling, Registers
<1>7. \A n \in orphans' : Registers(n) => Unused(n.wrapped.key)'
  BY <1>4 DEF KeysApart
<1>8. \A x, y \in Tab :
         /\ Enrolling(x)' /\ Enrolling(y)'
         /\ request'[x].wrapped.key = request'[y].wrapped.key
         => x = y
  BY DEF KeysApart, Enrolling, Registers
<1>9. \A x \in Tab, n \in orphans' :
         Enrolling(x)' /\ Registers(n)
           => request'[x].wrapped.key # n.wrapped.key
  BY DEF KeysApart, Enrolling, Registers
<1>10. \A n, o \in orphans' :
         Registers(n) /\ Registers(o) /\ n.wrapped.key = o.wrapped.key => n = o
  BY DEF KeysApart
<1> QED
  BY <1>5, <1>6, <1>7, <1>8, <1>9, <1>10 DEF KeysApart, Enrolling, Registers

LEMMA HandleAwaitedApart ==
    ASSUME IInv, KeysApart, NEW t \in Tab, HandleAwaited(t)
    PROVE  KeysApart'
<1> DEFINE m == request[t]
<1>1. MessageSafe(m) /\ t # Nil /\ m # Nil /\ UNCHANGED drawn
  BY NilAssumption DEF IInv, TabSafe, RequestSafe, HandleAwaited
<1>2. /\ UNCHANGED orphans
      /\ request'[t] = Nil \/ (CheckPassword(m, t) /\ ~Enrolling(t)')
      /\ \A x \in Tab \ {t} : request'[x] = request[x]
  BY <1>1
     DEF IInv, Domains, HandleAwaited, Handle, Register, GetSalts, Login,
         CheckPassword, UpdatePassword, Recover, ResetPassword, Answer, Enrolling,
         Registers
<1>3. CASE Register(m, t)
  <2>1. Enrolling(t)
    BY <1>1, <1>3 DEF Register, Enrolling, Registers
  <2>2. Unused(m.wrapped.key)
    BY <2>1 DEF KeysApart
  <2>3. request'[t] = Nil
    BY <1>2, <1>3 DEF Register, CheckPassword
  <2>4. \A x \in Tab : Enrolling(x)'
                         => request'[x].wrapped.key # m.wrapped.key
    BY <1>2, <2>1, <2>3 DEF KeysApart, Enrolling, Registers
  <2>5. \A n \in orphans' : Registers(n) => n.wrapped.key # m.wrapped.key
    BY <1>2, <2>1 DEF KeysApart
  <2>6. \A x \in Tab : request'[x] = request[x] \/ request'[x] = Nil
    BY <1>2, <2>3
  <2> QED
    BY <1>1, <1>2, <1>3, <2>2, <2>4, <2>5, <2>6, RegisterApart
<1>4. CASE ~Register(m, t)
  <2>1. UNCHANGED public_key
    BY <1>4 DEF HandleAwaited, Handle, GetSalts, Login, CheckPassword,
                UpdatePassword, Recover, ResetPassword, StoreKeys, rowVars
  <2>2. \A x \in Tab : request'[x] = request[x] \/ ~Enrolling(x)'
    BY <1>2 DEF Enrolling
  <2> QED
    BY <1>1, <1>2, <2>1, <2>2, RequestsKeepApart
<1> QED
  BY <1>3, <1>4

LEMMA HandleOrphanApart ==
    ASSUME IInv, KeysApart, NEW m \in orphans, HandleOrphan(m)
    PROVE  KeysApart'
<1>1. MessageSafe(m) /\ UNCHANGED drawn
  BY DEF IInv, OrphansSafe, HandleOrphan
<1>2. UNCHANGED request
  BY DEF HandleOrphan, Handle, Register, GetSalts, Login, CheckPassword,
         UpdatePassword, Recover, ResetPassword, Answer
<1>3. CASE Register(m, Nil)
  <2>1. orphans' = orphans \ {m} /\ Registers(m)
    BY <1>3 DEF Register, Answer, Registers
  <2>2. Unused(m.wrapped.key)
    BY <2>1 DEF KeysApart
  <2>3. \A x \in Tab : Enrolling(x)' => request'[x].wrapped.key # m.wrapped.key
    BY <1>2, <2>1 DEF KeysApart, Enrolling
  <2>4. \A n \in orphans' : Registers(n) => n.wrapped.key # m.wrapped.key
    BY <2>1 DEF KeysApart
  <2> QED
    BY <1>1, <1>2, <1>3, <2>1, <2>2, <2>3, <2>4, RegisterApart
<1>4. CASE ~Register(m, Nil)
  <2>1. UNCHANGED public_key
    BY <1>4 DEF HandleOrphan, Handle, GetSalts, Login, CheckPassword,
                UpdatePassword, Recover, ResetPassword, StoreKeys, rowVars
  <2>2. \A n \in orphans' : n \in orphans \/ ~Registers(n)
    BY <1>4 DEF HandleOrphan, Handle, GetSalts, Login, CheckPassword,
                UpdatePassword, Recover, ResetPassword, Answer, Registers
  <2> QED
    BY <1>1, <1>2, <2>1, <2>2, RequestsKeepApart
<1> QED
  BY <1>3, <1>4

LEMMA ApartInit == Init => KeysApart
BY DEF Init, KeysApart, Registered, Enrolling

LEMMA ApartStep == IInv /\ KeysApart /\ [Next]_vars => KeysApart'
<1> SUFFICES ASSUME IInv, KeysApart, [Next]_vars PROVE KeysApart'
  OBVIOUS
<1>1. ASSUME NEW t \in Tab, NoAnswer(t) PROVE KeysApart'
  <2>1. /\ UNCHANGED <<public_key, drawn>>
        /\ request[t] # Nil /\ request' = [request EXCEPT ![t] = Nil]
        /\ \A m \in orphans' : m \in orphans \/ m = request[t]
    BY <1>1 DEF NoAnswer, Abandon, rowVars
  <2> QED
    BY <2>1, RequestsKeepApart DEF IInv, Domains, Enrolling
<1>2. ASSUME NEW m \in orphans, LoseOrphan(m) PROVE KeysApart'
  BY <1>2, RequestsKeepApart DEF LoseOrphan, rowVars
<1>3. CASE UNCHANGED vars
  BY <1>3, RequestsKeepApart DEF vars
<1> QED
  BY <1>1, <1>2, <1>3, TabStepApart, HandleAwaitedApart, HandleOrphanApart DEF Next

LEMMA ApartInvariance == Spec => [](IInv /\ KeysApart)
<1>1. IInv /\ KeysApart /\ [Next]_vars => (IInv /\ KeysApart)'
  BY StepInv, ApartStep
<1> QED
  BY <1>1, InitInv, ApartInit, PTL DEF Spec

\* A tab takes the key of the account that it shows, or has none.
LEMMA TabCustody ==
    ASSUME IInv', NEW t \in Tab, \A x \in Tab \ {t} : StateKept(x),
           UNCHANGED <<auth_hash, public_key, wrapped_private_key>>
    PROVE  Custody!Next
<1> DEFINE h == IF status'[t] = "unlocked"
                THEN [user |-> user'[t].user, key |-> privateKey'[t]]
                ELSE Nil
<1>1. UNCHANGED <<public_key, accepted, chests>>
  BY DEF accepted, chests, Registered
<1>2. holding' = [holding EXCEPT ![t] = h]
  BY DEF holding, StateKept
<1>3. CASE status'[t] = "unlocked"
  <2> DEFINE u == user'[t].user
  <2>1. u \in User /\ privateKey'[t] = public_key'[u] /\ public_key'[u] \in Draw
    BY <1>3 DEF IInv, TabSafe, MemorySafe, SessionSafe, SessionRecord, WrappedKey
  <2>2. Custody!Take(t, u)
    BY <1>1, <1>2, <1>3, <2>1, NilAssumption DEF Custody!Take
  <2> QED
    BY <2>1, <2>2 DEF Custody!Next
<1>4. CASE status'[t] # "unlocked"
  BY <1>1, <1>2, <1>4 DEF Custody!Next, Custody!Release
<1> QED
  BY <1>3, <1>4

\* A row that is written gets a password, and a key that it opens.
LEMMA RowCustody ==
    ASSUME IInv, NEW u \in User, NEW v, NEW w, Together(v, w),
           auth_hash' = [auth_hash EXCEPT ![u] = v],
           public_key' = [public_key EXCEPT ![u] = w.key],
           wrapped_private_key' = [wrapped_private_key EXCEPT ![u] = w],
           UNCHANGED tabVars,
           \/ public_key[u] = w.key
           \/ public_key[u] = Nil /\ \A x \in User : public_key[x] # w.key
    PROVE  Custody!Next
<1>1. v.password \in Password /\ w.key \in Draw /\ w.password = v.password
  BY DEF Together, VerifierRecord, WrappedKey
<1>2. w.key # Nil
  BY <1>1, NilAssumption
<1>3. /\ public_key \in [User -> Draw \cup {Nil}]
      /\ DOMAIN auth_hash = User
      /\ DOMAIN wrapped_private_key = User
  BY DEF IInv, TypeOK
<1>4. accepted' = [accepted EXCEPT ![u] = v.password]
  BY <1>2, <1>3 DEF accepted, Registered
<1>5. chests' = [chests EXCEPT ![u] = Custody!Chest(w.key, v.password)]
  BY <1>1, <1>2, <1>3 DEF chests, Registered, Custody!Chest
<1>6. holding' = holding
  BY DEF holding, tabVars
<1>7. Custody!Fill(u, w.key, v.password)
  BY <1>4, <1>5, <1>6 DEF Custody!Fill
<1>8. CASE public_key[u] = w.key
  <2>1. public_key' = public_key
    BY <1>3, <1>8
  <2> QED
    BY <1>1, <1>2, <1>7, <1>8, <2>1 DEF Custody!Next, Custody!Rewrap
<1>9. CASE public_key[u] = Nil /\ \A x \in User : public_key[x] # w.key
  BY <1>1, <1>7, <1>9 DEF Custody!Next, Custody!Enrol
<1> QED
  BY <1>8, <1>9

LEMMA HandlerCustody ==
    ASSUME IInv, NEW m, MessageSafe(m), NEW t, Handle(m, t), UNCHANGED tabVars,
           Registers(m) => Unused(m.wrapped.key)
    PROVE  [Custody!Next]_(Custody!vars)
<1>1. CASE Register(m, t)
  <2>1. /\ m.user \in User /\ Together(m.verifier, m.wrapped)
        /\ public_key[m.user] = Nil
        /\ \A x \in User : public_key[x] # m.wrapped.key
    BY <1>1 DEF Register, MessageSafe, Registers, Registered, Unused
  <2> QED
    BY <1>1, <2>1, RowCustody DEF Register
<1>2. CASE UpdatePassword(m, t) \/ ResetPassword(m, t)
  <2>1. /\ m.user \in User /\ Together(m.verifier, m.wrapped)
        /\ public_key[m.user] = m.wrapped.key
        /\ StoreKeys(m)
    BY <1>2 DEF UpdatePassword, ResetPassword, MessageSafe
  <2>2. public_key' = [public_key EXCEPT ![m.user] = m.wrapped.key]
    BY <2>1 DEF StoreKeys, IInv, TypeOK
  <2> QED
    BY <2>1, <2>2, RowCustody DEF StoreKeys
<1>3. CASE \/ GetSalts(m, t)
           \/ Login(m, t)
           \/ CheckPassword(m, t)
           \/ Recover(m, t)
  <2>1. UNCHANGED rowVars
    BY <1>3 DEF GetSalts, Login, CheckPassword, Recover
  <2> QED
    BY <2>1 DEF Custody!vars, rowVars, tabVars, accepted, chests, holding, Registered
<1> QED
  BY <1>1, <1>2, <1>3 DEF Handle

LEMMA CustodyInit == Init => Custody!Init
BY DEF Init, Custody!Init, accepted, chests, holding, Registered

LEMMA CustodyStep ==
    IInv /\ KeysApart /\ [Next]_vars => [Custody!Next]_(Custody!vars)
<1> SUFFICES ASSUME IInv, KeysApart, [Next]_vars
             PROVE  [Custody!Next]_(Custody!vars)
  OBVIOUS
<1>1. IInv'
  BY StepInv
<1>2. ASSUME NEW t \in Tab, TabStep(t) \/ NoAnswer(t)
      PROVE  Custody!Next
  <2>1. UNCHANGED <<auth_hash, public_key, wrapped_private_key>>
    BY <1>2, TabStepKeeps DEF NoAnswer, rowVars
  <2>2. \A x \in Tab \ {t} : StateKept(x)
    <3>1. TabStepSafe(t)
      BY <1>2, TabStepCorrect, NoAnswerSafe
    <3> QED
      BY <3>1 DEF TabStepSafe, Untouched
  <2> QED
    BY <1>1, <2>1, <2>2, TabCustody
<1>3. ASSUME NEW t \in Tab, HandleAwaited(t)
      PROVE  [Custody!Next]_(Custody!vars)
  <2>1. request[t] # Nil /\ Handle(request[t], t) /\ UNCHANGED tabVars
    BY <1>3 DEF HandleAwaited
  <2>2. MessageSafe(request[t])
    BY <2>1 DEF IInv, TabSafe, RequestSafe
  <2>3. Registers(request[t]) => Unused(request[t].wrapped.key)
    BY <2>1 DEF KeysApart, Enrolling
  <2> QED
    BY <2>1, <2>2, <2>3, HandlerCustody
<1>4. ASSUME NEW m \in orphans, HandleOrphan(m)
      PROVE  [Custody!Next]_(Custody!vars)
  <2>1. Handle(m, Nil) /\ UNCHANGED tabVars
    BY <1>4 DEF HandleOrphan
  <2>2. MessageSafe(m) /\ (Registers(m) => Unused(m.wrapped.key))
    BY DEF IInv, OrphansSafe, KeysApart
  <2> QED
    BY <2>1, <2>2, HandlerCustody
<1>5. ASSUME NEW m \in orphans, LoseOrphan(m)
      PROVE  [Custody!Next]_(Custody!vars)
  BY <1>5 DEF LoseOrphan, Custody!vars, rowVars, tabVars, accepted, chests,
              holding, Registered
<1>6. CASE UNCHANGED vars
  BY <1>6 DEF vars, Custody!vars, accepted, chests, holding, Registered
<1> QED
  BY <1>2, <1>3, <1>4, <1>5, <1>6 DEF Next

\* The accounts implement KeyCustody, for any number of accounts, tabs and late
\* requests: a key pair is given once and to one account, password and wrapped
\* key change together, and a tab takes the key of the account that it shows.
THEOREM ImplementsCustodyCorrect == Spec => ImplementsCustody
<1>1. Spec => Custody!Init
  BY CustodyInit DEF Spec
<1> QED
  BY <1>1, ApartInvariance, CustodyStep, PTL DEF Spec, ImplementsCustody, Custody!Spec

\* What KeyCustody says of a state, with what its steps need.
CustodyInv ==
    /\ DOMAIN public_key = User /\ DOMAIN accepted = User
    /\ DOMAIN chests = User /\ DOMAIN holding = Tab
    /\ \A t \in Tab : holding[t] # Nil => /\ holding[t].user \in User
                                          /\ public_key[holding[t].user] # Nil
    /\ Custody!Kept

LEMMA CustodyInvStep ==
    CustodyInv /\ [Custody!Next]_(Custody!vars) => CustodyInv'
<1> SUFFICES ASSUME CustodyInv, [Custody!Next]_(Custody!vars) PROVE CustodyInv'
  OBVIOUS
<1> USE DEF CustodyInv, Custody!Kept
<1>1. ASSUME NEW u \in User, NEW k \in Draw, NEW p \in Password,
             Custody!Enrol(u, k, p)
      PROVE  CustodyInv'
  <2> USE <1>1 DEF Custody!Enrol, Custody!Fill
  <2>1. /\ \A x \in User : public_key'[x] # Nil =>
             /\ chests'[x] = Custody!Chest(public_key'[x], accepted'[x])
             /\ \A v \in User : public_key'[v] = public_key'[x] => v = x
    OBVIOUS
  <2>2. \A t \in Tab : holding'[t] # Nil =>
           /\ holding'[t].user \in User /\ public_key'[holding'[t].user] # Nil
           /\ holding'[t].key = public_key'[holding'[t].user]
    OBVIOUS
  <2> QED
    BY <2>1, <2>2 DEF Custody!Chest
<1>2. ASSUME NEW u \in User, NEW p \in Password, Custody!Rewrap(u, p)
      PROVE  CustodyInv'
  BY <1>2 DEF Custody!Rewrap, Custody!Fill, Custody!Chest
<1>3. ASSUME NEW t \in Tab, NEW u \in User, Custody!Take(t, u)
      PROVE  CustodyInv'
  BY <1>3 DEF Custody!Take, Custody!Chest
<1>4. ASSUME NEW t \in Tab, Custody!Release(t)
      PROVE  CustodyInv'
  BY <1>4 DEF Custody!Release, Custody!Chest
<1>5. CASE UNCHANGED Custody!vars
  BY <1>5 DEF Custody!vars, Custody!Chest
<1> QED
  BY <1>1, <1>2, <1>3, <1>4, <1>5 DEF Custody!Next

\* And so, for any number of accounts, browsers, tabs and late requests: the
\* password that a row accepts unwraps the row's private key, which is the one of
\* the account's public key; no two accounts have one key pair; and an unlocked
\* tab holds the private key of the account it shows.
THEOREM CustodyKept == Spec => []Custody!Kept
<1>1. Custody!Init => CustodyInv
  BY DEF Custody!Init, CustodyInv, Custody!Kept
<1>2. CustodyInv => Custody!Kept
  BY DEF CustodyInv
<1>3. Custody!Spec => []Custody!Kept
  BY <1>1, <1>2, CustodyInvStep, PTL DEF Custody!Spec
<1> QED
  BY <1>3, ImplementsCustodyCorrect DEF ImplementsCustody

=============================================================================
