-------------------------- MODULE Authorizer_proofs --------------------------
(***************************************************************************)
(* The Authorizer decides on current grants and loads nothing twice, for   *)
(* any number of goroutines, roles and permissions.                        *)
(***************************************************************************)
EXTENDS Authorizer, TLAPS

(* Between Lock and Unlock a goroutine is the one writer of the mutex. *)
OneWriter ==
    \A g \in Proc : pc[g] \in {"locked", "load", "store"} => mu.writer = g

(* What a goroutine is about, by the statement it is at. *)
CallAt(g) ==
    /\ pc[g] # "idle" => call[g] # NoCall
    /\ pc[g] \in {"rlock", "read", "load", "store"} => Requires(g)
    /\ answer[g] # "none" => pc[g] = "done"
    /\ answer[g] \in {"next", "forbidden"} => Requires(g)

(* The cache, and the set about to go into it, are no older than the last  *)
(* Invalidate; a request's window goes back to that at least.              *)
Current ==
    /\ \A r \in Role : granted[r] \in since[r]
    /\ \A r \in Role : cache[r] # NoEntry => cache[r] \in since[r]
    /\ \A g \in Proc : pc[g] = "store" =>
          set[g] # NoEntry /\ set[g] \in since[call[g].role]
    /\ \A g \in Proc : Requires(g) => since[call[g].role] \subseteq window[g]

IInv ==
    /\ TypeOK
    /\ OneWriter
    /\ \A g \in Proc : CallAt(g)
    /\ Current
    /\ NoUselessLoad
    /\ DecidedOnCurrentGrants

-----------------------------------------------------------------------------
LEMMA CallRole ==
    ASSUME NEW c \in Calls \cup {NoCall}
    PROVE  /\ c # NoCall /\ c.method = "RequirePermission"
                 => c.role \in Role /\ c.perm \in Perm
           /\ c # NoCall /\ c.method # "RequirePermission"
                 => Forgets(c) \subseteq Role
BY DEF Calls, Forgets

LEMMA MutexType ==
    ASSUME NEW rw \in RWMutexes, NEW g \in Proc
    PROVE  /\ RLock(rw, g) \in RWMutexes /\ RLock(rw, g).writer = rw.writer
           /\ RUnlock(rw, g) \in RWMutexes /\ RUnlock(rw, g).writer = rw.writer
           /\ Lock(rw, g) \in RWMutexes /\ Lock(rw, g).writer = g
           /\ Unlock(rw) \in RWMutexes /\ Unlock(rw).writer = Nobody
BY DEF RWMutexes, RLock, RUnlock, Lock, Unlock

LEMMA Initially == Init => IInv
BY AuthorizerAssumption
   DEF Init, IInv, TypeOK, OneWriter, CallAt, Current, NoUselessLoad,
       DecidedOnCurrentGrants, Requires, Unlocked, RWMutexes, Sets

-----------------------------------------------------------------------------
(* One step, one lemma. *)
LEMMA CallKept ==
    ASSUME IInv, NEW g \in Proc, Call(g)
    PROVE  IInv'
<1>1. PICK c \in Calls :
        /\ call' = [call EXCEPT ![g] = c]
        /\ IF c.method = "RequirePermission"
           THEN /\ Goto(g, "rlock")
                /\ window' = [window EXCEPT ![g] = since[c.role]]
           ELSE Goto(g, "lock") /\ UNCHANGED window
  BY DEF Call
<1>2. c # NoCall /\ c \in Calls \cup {NoCall}
  BY NoCallAssumption
<1>3. c.method = "RequirePermission" => c.role \in Role
  BY <1>2, CallRole
<1> USE DEF IInv, TypeOK, Goto, Call
<1>4. TypeOK'
  BY <1>1, <1>3
<1>5. OneWriter'
  BY <1>1 DEF OneWriter
<1>6. \A q \in Proc : CallAt(q)'
  BY <1>1, <1>2 DEF CallAt, Requires
<1>7. Current'
  BY <1>1, <1>3 DEF Current, CallAt, Requires
<1>8. NoUselessLoad' /\ DecidedOnCurrentGrants'
  BY <1>1 DEF NoUselessLoad, DecidedOnCurrentGrants, CallAt
<1>9. QED
  BY <1>4, <1>5, <1>6, <1>7, <1>8

LEMMA LockingKept ==
    ASSUME IInv, NEW g \in Proc, RLockStep(g) \/ LockStep(g)
    PROVE  IInv'
<1>0. CASE RLockStep(g)
  <2>1. mu' \in RWMutexes /\ mu'.writer = mu.writer
    BY <1>0, MutexType DEF RLockStep, IInv, TypeOK
  <2>2. QED
    BY <1>0, <2>1
       DEF RLockStep, Goto, IInv, TypeOK, OneWriter, CallAt, Current,
           NoUselessLoad, DecidedOnCurrentGrants, Requires
<1> SUFFICES ASSUME LockStep(g) PROVE IInv'
  BY <1>0
<1> USE DEF IInv, TypeOK, Goto, LockStep
<1>1. mu' \in RWMutexes /\ mu'.writer = g
  BY MutexType
<1>2. TypeOK' /\ OneWriter'
  BY <1>1, AuthorizerAssumption DEF OneWriter, MayAnnounce
<1>3. \A q \in Proc : CallAt(q)'
  BY DEF CallAt, Requires
<1>4. Current' /\ NoUselessLoad' /\ DecidedOnCurrentGrants'
  BY DEF Current, NoUselessLoad, DecidedOnCurrentGrants, Requires
<1>5. QED
  BY <1>2, <1>3, <1>4

LEMMA ReadKept ==
    ASSUME IInv, NEW g \in Proc, ReadCache(g)
    PROVE  IInv'
<1> USE DEF IInv, TypeOK, Goto, ReadCache
<1>0. Requires(g) /\ call[g].role \in Role
  BY CallRole DEF CallAt, Requires
<1>1. TypeOK'
  BY MutexType DEF Verdict
<1>2. OneWriter'
  BY MutexType DEF OneWriter
<1>3. \A q \in Proc : CallAt(q)'
  BY <1>0 DEF CallAt, Requires, Verdict
<1>4. Current' /\ NoUselessLoad'
  BY DEF Current, NoUselessLoad, Requires
<1>5. DecidedOnCurrentGrants'
  BY <1>0 DEF DecidedOnCurrentGrants, Current, Verdict
<1>6. QED
  BY <1>1, <1>2, <1>3, <1>4, <1>5

LEMMA CheckKept ==
    ASSUME IInv, NEW g \in Proc, CheckAgain(g)
    PROVE  IInv'
<1> USE DEF IInv, TypeOK, Goto, CheckAgain
<1>0. Requires(g) /\ call[g].role \in Role
  BY CallRole DEF Requires
<1>1. TypeOK'
  BY MutexType DEF Verdict
<1>2. OneWriter'
  BY MutexType, AuthorizerAssumption DEF OneWriter
<1>3. \A q \in Proc : CallAt(q)'
  BY <1>0 DEF CallAt, Requires, Verdict
<1>4. Current' /\ NoUselessLoad'
  BY DEF Current, NoUselessLoad, Requires
<1>5. DecidedOnCurrentGrants'
  BY <1>0 DEF DecidedOnCurrentGrants, Current, Verdict
<1>6. QED
  BY <1>1, <1>2, <1>3, <1>4, <1>5

LEMMA LoadKept ==
    ASSUME IInv, NEW g \in Proc, Load(g)
    PROVE  IInv'
<1> USE DEF IInv, TypeOK, Goto, Load
<1>0. Requires(g) /\ call[g].role \in Role
  BY CallRole DEF CallAt, Requires
<1>1. TypeOK'
  BY <1>0
<1>2. OneWriter'
  BY DEF OneWriter
<1>3. \A q \in Proc : CallAt(q)'
  BY <1>0 DEF CallAt, Requires
<1>4. Current'
  BY <1>0, AuthorizerAssumption DEF Current, Requires
<1>5. NoUselessLoad' /\ DecidedOnCurrentGrants'
  BY DEF NoUselessLoad, DecidedOnCurrentGrants
<1>6. QED
  BY <1>1, <1>2, <1>3, <1>4, <1>5

LEMMA LoadFailsKept ==
    ASSUME IInv, NEW g \in Proc, LoadFails(g)
    PROVE  IInv'
<1> USE DEF IInv, TypeOK, Goto, LoadFails
<1>1. TypeOK'
  BY MutexType
<1>2. OneWriter'
  BY MutexType, AuthorizerAssumption DEF OneWriter
<1>3. \A q \in Proc : CallAt(q)'
  BY DEF CallAt, Requires
<1>4. Current' /\ NoUselessLoad' /\ DecidedOnCurrentGrants'
  BY DEF Current, NoUselessLoad, DecidedOnCurrentGrants, Requires
<1>5. QED
  BY <1>1, <1>2, <1>3, <1>4

LEMMA StoreKept ==
    ASSUME IInv, NEW g \in Proc, Store(g)
    PROVE  IInv'
<1> USE DEF IInv, TypeOK, Goto, Store
<1>0. /\ Requires(g) /\ call[g].role \in Role
      /\ set[g] # NoEntry /\ set[g] \in since[call[g].role]
      /\ \A q \in Proc \ {g} : pc[q] \notin {"locked", "load", "store"}
  BY CallRole DEF CallAt, Current, OneWriter, Requires
<1>1. TypeOK'
  BY <1>0, MutexType DEF Verdict
<1>2. OneWriter'
  BY <1>0 DEF OneWriter
<1>3. \A q \in Proc : CallAt(q)'
  BY <1>0 DEF CallAt, Requires, Verdict
<1>4. Current'
  BY <1>0 DEF Current, Requires
<1>5. NoUselessLoad'
  BY <1>0 DEF NoUselessLoad
<1>6. DecidedOnCurrentGrants'
  BY <1>0 DEF DecidedOnCurrentGrants, Current, Verdict
<1>7. QED
  BY <1>1, <1>2, <1>3, <1>4, <1>5, <1>6

LEMMA ForgetKept ==
    ASSUME IInv, NEW g \in Proc, Forget(g)
    PROVE  IInv'
<1> USE DEF IInv, TypeOK, Goto, Forget
<1>0. /\ \A q \in Proc \ {g} : pc[q] \notin {"locked", "load", "store"}
      /\ ~Requires(g)
  BY DEF OneWriter
<1>1. TypeOK'
  BY MutexType DEF Sets
<1>2. OneWriter'
  BY <1>0 DEF OneWriter
<1>3. \A q \in Proc : CallAt(q)'
  BY DEF CallAt, Requires
<1>4. \A r \in Role : since'[r] \subseteq since[r] /\ granted[r] \in since'[r]
  BY DEF Current
<1>5. Current'
  <2>1. \A r \in Role : cache'[r] # NoEntry => cache'[r] \in since'[r]
    BY DEF Current
  <2>2. \A q \in Proc : Requires(q)' =>
            Requires(q) /\ call[q].role \in Role /\ call'[q] = call[q]
    BY CallRole DEF Requires
  <2>3. \A q \in Proc : Requires(q)' => since'[call'[q].role] \subseteq window'[q]
    BY <1>4, <2>2 DEF Current
  <2>4. \A q \in Proc : pc'[q] # "store"
    BY <1>0
  <2>5. QED
    BY <1>4, <2>1, <2>3, <2>4 DEF Current
<1>6. NoUselessLoad' /\ DecidedOnCurrentGrants'
  BY <1>0 DEF NoUselessLoad, DecidedOnCurrentGrants
<1>7. QED
  BY <1>1, <1>2, <1>3, <1>5, <1>6

LEMMA ReturnKept ==
    ASSUME IInv, NEW g \in Proc, Return(g)
    PROVE  IInv'
<1> USE DEF IInv, TypeOK, Goto, Return
<1>1. TypeOK' /\ OneWriter'
  BY DEF OneWriter
<1>2. \A q \in Proc : CallAt(q)'
  BY DEF CallAt, Requires
<1>3. Current' /\ NoUselessLoad' /\ DecidedOnCurrentGrants'
  BY DEF Current, NoUselessLoad, DecidedOnCurrentGrants, Requires
<1>4. QED
  BY <1>1, <1>2, <1>3

LEMMA RegrantKept ==
    ASSUME IInv, NEW r \in Role, Regrant(r)
    PROVE  IInv'
<1>1. PICK s \in Sets :
        /\ granted' = [granted EXCEPT ![r] = s]
        /\ since' = [since EXCEPT ![r] = @ \cup {s}]
        /\ window' = [g \in Proc |->
                        IF Requires(g) /\ call[g].role = r THEN window[g] \cup {s}
                                                           ELSE window[g]]
  BY DEF Regrant
<1> USE DEF IInv, TypeOK, Regrant
<1>2. TypeOK'
  BY <1>1
<1>3. OneWriter' /\ (\A g \in Proc : CallAt(g)') /\ NoUselessLoad'
  BY DEF OneWriter, CallAt, Requires, NoUselessLoad
<1>4. \A g \in Proc : Requires(g) => call[g].role \in Role
  BY CallRole DEF Requires
<1>5. Current'
  BY <1>1, <1>4 DEF Current, Requires, CallAt
<1>6. DecidedOnCurrentGrants'
  BY <1>1 DEF DecidedOnCurrentGrants
<1>7. QED
  BY <1>2, <1>3, <1>5, <1>6

LEMMA RestartKept ==
    ASSUME IInv, Restart
    PROVE  IInv'
BY AuthorizerAssumption
   DEF Restart, IInv, TypeOK, OneWriter, CallAt, Current, NoUselessLoad,
       DecidedOnCurrentGrants, Requires, Unlocked, RWMutexes, Sets

LEMMA Inductive == IInv /\ [Next]_vars => IInv'
<1> SUFFICES ASSUME IInv, [Next]_vars PROVE IInv'
  OBVIOUS
<1>1. CASE UNCHANGED vars
  BY <1>1 DEF vars, IInv, TypeOK, OneWriter, CallAt, Current, NoUselessLoad,
              DecidedOnCurrentGrants, Requires
<1>2. ASSUME NEW g \in Proc, Call(g) \/ Step(g)
      PROVE  IInv'
  BY <1>2, CallKept, LockingKept, ReadKept, CheckKept, LoadKept, LoadFailsKept,
     StoreKept, ForgetKept, ReturnKept DEF Step
<1>3. ASSUME NEW r \in Role, Regrant(r)
      PROVE  IInv'
  BY <1>3, RegrantKept
<1>4. QED
  BY <1>1, <1>2, <1>3, RestartKept DEF Next

THEOREM Invariance == Spec => []IInv
BY Initially, Inductive, PTL DEF Spec

(* The cache, the mutex and every goroutine keep their types. *)
THEOREM TypeCorrect == Spec => []TypeOK
BY Invariance, PTL DEF IInv

(* RequirePermission never decides on a set from before the last           *)
(* Invalidate or Clear that was over when the request came, or from before *)
(* the process started.                                                    *)
THEOREM DecisionsAreCurrent == Spec => []DecidedOnCurrentGrants
BY Invariance, PTL DEF IInv

(* permsFor never asks the database for a set that the cache holds.        *)
THEOREM NothingLoadedTwice == Spec => []NoUselessLoad
BY Invariance, PTL DEF IInv
=============================================================================
