----------------------------- MODULE Authorizer -----------------------------
(***************************************************************************)
(* internal/middleware/authorizer.go: the role -> permissions cache behind *)
(* RequirePermission, filled on demand under a RWMutex and emptied by      *)
(* Invalidate and Clear, while the role_permissions table changes under it *)
(* (another server's Seed, or somebody at the database).                   *)
(***************************************************************************)
EXTENDS RWMutex

CONSTANTS
    Role, Perm,
    NoEntry,    \* the cache has no set for the role
    NoCall      \* the goroutine serves nothing

Sets == SUBSET Perm

ASSUME AuthorizerAssumption ==
    Nobody \notin Proc /\ \A s \in Sets : s # NoEntry

Calls ==
    [method : {"RequirePermission"}, role : Role, perm : Perm]
        \cup [method : {"Invalidate"}, role : Role]
        \cup [method : {"Clear"}]

ASSUME NoCallAssumption == NoCall \notin Calls

VARIABLES
    granted,    \* granted[r]: the permissions of role r in the database
    cache,      \* a.cache
    mu,         \* a.mu
    pc,         \* pc[g]: what goroutine g does next
    call,       \* call[g]: the method g runs, with its arguments
    set,        \* set[g]: the set g has loaded, or NoEntry
    answer,     \* answer[g]: what RequirePermission decided
    since,      \* history: since[r], all that granted[r] has been since the
                \* cache was last told to forget r, or since the start
    window      \* history: window[g], since[r] when g's call for role r
                \* came, and all that granted[r] has been from then on

vars == <<granted, cache, mu, pc, call, set, answer, since, window>>

TypeOK ==
    /\ granted \in [Role -> Sets]
    /\ cache \in [Role -> {NoEntry} \cup Sets]
    /\ mu \in RWMutexes
    /\ pc \in [Proc -> {"idle", "rlock", "read", "lock", "locked", "load",
                        "store", "done"}]
    /\ call \in [Proc -> Calls \cup {NoCall}]
    /\ set \in [Proc -> {NoEntry} \cup Sets]
    /\ answer \in [Proc -> {"none", "next", "forbidden", "internal"}]
    /\ since \in [Role -> SUBSET Sets]
    /\ window \in [Proc -> SUBSET Sets]

(* The server has just started: main made the Authorizer. *)
Init ==
    /\ granted \in [Role -> Sets]
    /\ cache = [r \in Role |-> NoEntry]
    /\ mu = Unlocked
    /\ pc = [g \in Proc |-> "idle"]
    /\ call = [g \in Proc |-> NoCall]
    /\ set = [g \in Proc |-> NoEntry]
    /\ answer = [g \in Proc |-> "none"]
    /\ since = [r \in Role |-> {granted[r]}]
    /\ window = [g \in Proc |-> {}]

-----------------------------------------------------------------------------
Requires(g) == call[g] # NoCall /\ call[g].method = "RequirePermission"

Goto(g, s) == pc' = [pc EXCEPT ![g] = s]

(* RequirePermission's verdict, once permsFor has returned the set s. *)
Verdict(g, s) ==
    answer' = [answer EXCEPT ![g] = IF call[g].perm \in s THEN "next"
                                                          ELSE "forbidden"]

(* A request reaches the middleware, or somebody calls Invalidate or Clear. *)
Call(g) ==
    /\ pc[g] = "idle"
    /\ \E c \in Calls :
        /\ call' = [call EXCEPT ![g] = c]
        /\ IF c.method = "RequirePermission"
           THEN /\ Goto(g, "rlock")
                /\ window' = [window EXCEPT ![g] = since[c.role]]
           ELSE Goto(g, "lock") /\ UNCHANGED window
    /\ UNCHANGED <<granted, cache, mu, set, answer, since>>

RLockStep(g) ==
    /\ pc[g] = "rlock"
    /\ mu' = RLock(mu, g)
    /\ Goto(g, "read")
    /\ UNCHANGED <<granted, cache, call, set, answer, since, window>>

(* Mutant: a miss goes on to the load without the write lock. *)
ReadThenLoad(g) ==
    /\ pc[g] = "read" /\ MayRead(mu, g)
    /\ LET entry == cache[call[g].role] IN
       IF entry # NoEntry THEN Verdict(g, entry) /\ Goto(g, "done")
                          ELSE Goto(g, "load") /\ UNCHANGED answer
    /\ mu' = RUnlock(mu, g)
    /\ UNCHANGED <<granted, cache, call, set, since, window>>

(* The fast path: look, and unlock either way. *)
ReadCache(g) ==
    /\ pc[g] = "read" /\ MayRead(mu, g)
    /\ LET entry == cache[call[g].role] IN
       IF entry # NoEntry THEN Verdict(g, entry) /\ Goto(g, "done")
                          ELSE Goto(g, "lock") /\ UNCHANGED answer
    /\ mu' = RUnlock(mu, g)
    /\ UNCHANGED <<granted, cache, call, set, since, window>>

LockStep(g) ==
    /\ pc[g] = "lock" /\ MayAnnounce(mu)
    /\ mu' = Lock(mu, g)
    /\ Goto(g, "locked")
    /\ UNCHANGED <<granted, cache, call, set, answer, since, window>>

(* Mutant: no second look. *)
LoadAtOnce(g) ==
    /\ pc[g] = "locked" /\ MayWrite(mu, g) /\ Requires(g)
    /\ Goto(g, "load")
    /\ UNCHANGED <<granted, cache, mu, call, set, answer, since, window>>

(* The slow path looks again: another goroutine may have filled the entry. *)
CheckAgain(g) ==
    /\ pc[g] = "locked" /\ MayWrite(mu, g) /\ Requires(g)
    /\ LET entry == cache[call[g].role] IN
       IF entry # NoEntry
       THEN Verdict(g, entry) /\ Goto(g, "done") /\ mu' = Unlock(mu)
       ELSE Goto(g, "load") /\ UNCHANGED <<answer, mu>>
    /\ UNCHANGED <<granted, cache, call, set, since, window>>

(* Mutant: the set is filled with rows in place of their names. *)
LoadRows(g) ==
    /\ pc[g] = "load"
    /\ set' = [set EXCEPT ![g] = {<<p>> : p \in granted[call[g].role]}]
    /\ Goto(g, "store")
    /\ UNCHANGED <<granted, cache, mu, call, answer, since, window>>

(* loadFromDB, still under the lock: the role's join rows are one query. *)
Load(g) ==
    /\ pc[g] = "load"
    /\ set' = [set EXCEPT ![g] = granted[call[g].role]]
    /\ Goto(g, "store")
    /\ UNCHANGED <<granted, cache, mu, call, answer, since, window>>

(* Mutant: no defer, and the early return of an error keeps the lock. *)
LoadFailsLocked(g) ==
    /\ pc[g] = "load"
    /\ answer' = [answer EXCEPT ![g] = "internal"]
    /\ Goto(g, "done")
    /\ UNCHANGED <<granted, cache, mu, call, set, since, window>>

LoadFails(g) ==
    /\ pc[g] = "load"
    /\ answer' = [answer EXCEPT ![g] = "internal"]
    /\ Goto(g, "done")
    /\ mu' = Unlock(mu)
    /\ UNCHANGED <<granted, cache, call, set, since, window>>

Store(g) ==
    /\ pc[g] = "store"
    /\ cache' = [cache EXCEPT ![call[g].role] = set[g]]
    /\ set' = [set EXCEPT ![g] = NoEntry]
    /\ Verdict(g, set[g])
    /\ Goto(g, "done")
    /\ mu' = Unlock(mu)
    /\ UNCHANGED <<granted, call, since, window>>

(* The roles a call of Invalidate or Clear makes the cache forget. *)
Forgets(c) == IF c.method = "Clear" THEN Role ELSE {c.role}

Forget(g) ==
    /\ pc[g] = "locked" /\ MayWrite(mu, g) /\ ~Requires(g)
    /\ cache' = [r \in Role |-> IF r \in Forgets(call[g]) THEN NoEntry ELSE cache[r]]
    /\ since' = [r \in Role |-> IF r \in Forgets(call[g]) THEN {granted[r]}
                                                          ELSE since[r]]
    /\ Goto(g, "done")
    /\ mu' = Unlock(mu)
    /\ UNCHANGED <<granted, call, set, answer, window>>

Return(g) ==
    /\ pc[g] = "done"
    /\ Goto(g, "idle")
    /\ call' = [call EXCEPT ![g] = NoCall]
    /\ answer' = [answer EXCEPT ![g] = "none"]
    /\ window' = [window EXCEPT ![g] = {}]
    /\ UNCHANGED <<granted, cache, mu, set, since>>

(* role_permissions changes, by a hand that is not this process's. *)
Regrant(r) ==
    /\ \E s \in Sets :
        /\ granted' = [granted EXCEPT ![r] = s]
        /\ since' = [since EXCEPT ![r] = @ \cup {s}]
        /\ window' = [g \in Proc |->
                        IF Requires(g) /\ call[g].role = r THEN window[g] \cup {s}
                                                           ELSE window[g]]
    /\ UNCHANGED <<cache, mu, pc, call, set, answer>>

(* The process ends, at any statement, and another one starts: the         *)
(* permissions it finds are all its cache can ever have known.             *)
Restart ==
    /\ cache' = [r \in Role |-> NoEntry]
    /\ mu' = Unlocked
    /\ pc' = [g \in Proc |-> "idle"]
    /\ call' = [g \in Proc |-> NoCall]
    /\ set' = [g \in Proc |-> NoEntry]
    /\ answer' = [g \in Proc |-> "none"]
    /\ since' = [r \in Role |-> {granted[r]}]
    /\ window' = [g \in Proc |-> {}]
    /\ UNCHANGED granted

-----------------------------------------------------------------------------
Step(g) ==
    \/ RLockStep(g) \/ ReadCache(g) \/ LockStep(g) \/ CheckAgain(g)
    \/ Load(g) \/ LoadFails(g) \/ Store(g) \/ Forget(g) \/ Return(g)

Next ==
    \/ \E g \in Proc : Call(g) \/ Step(g)
    \/ \E r \in Role : Regrant(r)
    \/ Restart

Spec == Init /\ [][Next]_vars

(***************************************************************************)
(* A goroutine that can run does run, MySQL answers a query or the driver  *)
(* reports an error, and a sync.Mutex that is free again and again does    *)
(* not pass one goroutine over for ever.                                   *)
(***************************************************************************)
Fairness == \A g \in Proc : WF_vars(Step(g)) /\ SF_vars(LockStep(g))

FairSpec == Spec /\ Fairness

-----------------------------------------------------------------------------
(* A decision rests on permissions that the role had at some time since    *)
(* the last Invalidate that was over when the request came, or since the   *)
(* process started.  In particular no request that comes after             *)
(* Invalidate(role) or Clear is decided on a set that was revoked before   *)
(* it: no load in progress may put an old set back into the cache.         *)
DecidedOnCurrentGrants ==
    \A g \in Proc :
        /\ answer[g] = "next" => \E s \in window[g] : call[g].perm \in s
        /\ answer[g] = "forbidden" => \E s \in window[g] : call[g].perm \notin s

(* Only an empty entry is ever loaded: of the goroutines that miss the     *)
(* same role together, the first asks the database and the others find     *)
(* its answer when they look again under the lock.                         *)
NoUselessLoad ==
    \A g \in Proc :
        pc[g] \in {"load", "store"} => cache[call[g].role] = NoEntry

(* Every call returns: no path leaves the mutex locked, no goroutine waits *)
(* for ever behind readers or loads.                                       *)
EveryCallReturns == \A g \in Proc : pc[g] # "idle" ~> pc[g] = "idle"
=============================================================================
