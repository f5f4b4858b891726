---------------------------- MODULE Access_proofs ----------------------------
(***************************************************************************)
(* A protected route behaves as Accounts and as the Authorizer at once, so *)
(* that what is proved of either holds of it; together they give that a    *)
(* handler runs rightfully.                                                *)
(***************************************************************************)
EXTENDS Access, Accounts_proofs

AzProofs == INSTANCE Authorizer_proofs
              WITH Proc <- Req, pc <- azpc, answer <- verdict, window <- grants

-----------------------------------------------------------------------------
(* Every step is one of Accounts or changes nothing there. *)
LEMMA AccountsStep == AccessNext => [Next]_vars
BY DEF AccessNext, RequestStep, ToAuth, Require, Decide, Finished, Environment,
       RestartAll, Next

(* Every protected route implements Accounts. *)
THEOREM ImplementsAccounts == AccessSpec => Spec
<1>1. AccessInit => Init
  BY DEF AccessInit
<1>2. [AccessNext]_allVars => [Next]_vars
  BY AccountsStep DEF allVars, vars
<1>3. QED
  BY <1>1, <1>2, PTL DEF AccessSpec, Spec

(* Every step is one of the Authorizer or changes nothing there. *)
LEMMA AuthorizerStep == AccessNext => [Az!Next]_azvars
BY DEF AccessNext, RequestStep, ToAuth, Require, Decide, Finished, Environment,
       RestartAll, Az!Next, Az!Step, azvars

(* Every protected route implements the Authorizer. *)
THEOREM ImplementsAuthorizer == AccessSpec => Az!Spec
<1>1. AccessInit => Az!Init
  BY DEF AccessInit
<1>2. [AccessNext]_allVars => [Az!Next]_azvars
  BY AuthorizerStep DEF allVars, azvars
<1>3. QED
  BY <1>1, <1>2, PTL DEF AccessSpec, Az!Spec, Az!vars, azvars

(* The two instances of the Authorizer are the same. *)
LEMMA SameStep ==
    ASSUME NEW g \in Req
    PROVE  /\ Az!Call(g) => AzProofs!Call(g)
           /\ Az!Step(g) => AzProofs!Step(g)
<1>1. Az!Call(g) => AzProofs!Call(g)
  BY DEF Az!Call, AzProofs!Call, Az!Calls, AzProofs!Calls, Az!Goto,
       AzProofs!Goto
<1>2. Az!RLockStep(g) => AzProofs!RLockStep(g)
  BY DEF Az!RLockStep, AzProofs!RLockStep, Az!RLock, AzProofs!RLock,
       Az!Goto, AzProofs!Goto
<1>3. Az!ReadCache(g) => AzProofs!ReadCache(g)
  BY DEF Az!ReadCache, AzProofs!ReadCache, Az!MayRead, AzProofs!MayRead,
       Az!RUnlock, AzProofs!RUnlock, Az!Verdict, AzProofs!Verdict,
       Az!Goto, AzProofs!Goto
<1>4. Az!LockStep(g) => AzProofs!LockStep(g)
  BY DEF Az!LockStep, AzProofs!LockStep, Az!MayAnnounce,
       AzProofs!MayAnnounce, Az!Lock, AzProofs!Lock, Az!Goto,
       AzProofs!Goto
<1>5. Az!CheckAgain(g) => AzProofs!CheckAgain(g)
  BY DEF Az!CheckAgain, AzProofs!CheckAgain, Az!MayWrite,
       AzProofs!MayWrite, Az!Requires, AzProofs!Requires, Az!Unlock,
       AzProofs!Unlock, Az!Verdict, AzProofs!Verdict, Az!Goto,
       AzProofs!Goto
<1>6. Az!Load(g) => AzProofs!Load(g)
  BY DEF Az!Load, AzProofs!Load, Az!Goto, AzProofs!Goto
<1>7. Az!LoadFails(g) => AzProofs!LoadFails(g)
  BY DEF Az!LoadFails, AzProofs!LoadFails, Az!Unlock, AzProofs!Unlock,
       Az!Goto, AzProofs!Goto
<1>8. Az!Store(g) => AzProofs!Store(g)
  BY DEF Az!Store, AzProofs!Store, Az!Unlock, AzProofs!Unlock,
       Az!Verdict, AzProofs!Verdict, Az!Goto, AzProofs!Goto
<1>9. Az!Forget(g) => AzProofs!Forget(g)
  BY DEF Az!Forget, AzProofs!Forget, Az!Forgets, AzProofs!Forgets,
       Az!MayWrite, AzProofs!MayWrite, Az!Requires, AzProofs!Requires,
       Az!Unlock, AzProofs!Unlock, Az!Goto, AzProofs!Goto
<1>10. Az!Return(g) => AzProofs!Return(g)
  BY DEF Az!Return, AzProofs!Return, Az!Goto, AzProofs!Goto
<1>11. QED
  BY <1>1, <1>2, <1>3, <1>4, <1>5, <1>6, <1>7, <1>8, <1>9, <1>10
     DEF Az!Step, AzProofs!Step

LEMMA SameSpec == Az!Spec => AzProofs!Spec
<1>1. Az!Init => AzProofs!Init
  BY DEF Az!Init, AzProofs!Init, Az!Sets, AzProofs!Sets, Az!Unlocked,
       AzProofs!Unlocked
<1>2. [Az!Next]_azvars => [AzProofs!Next]_azvars
  <2>1. ASSUME NEW r \in Role PROVE Az!Regrant(r) => AzProofs!Regrant(r)
    BY DEF Az!Regrant, AzProofs!Regrant, Az!Requires, AzProofs!Requires,
       Az!Sets, AzProofs!Sets
  <2>2. Az!Restart => AzProofs!Restart
    BY DEF Az!Restart, AzProofs!Restart, Az!Unlocked, AzProofs!Unlocked
  <2>3. QED
    BY <2>1, <2>2, SameStep DEF Az!Next, AzProofs!Next
<1>3. QED
  BY <1>1, <1>2, PTL DEF Az!Spec, AzProofs!Spec, Az!vars, AzProofs!vars, azvars

(* What Authorizer_proofs proves of the Authorizer. *)
LEMMA AuthorizerKeeps ==
    AccessSpec => []Az!TypeOK /\ []Az!DecidedOnCurrentGrants
<1>1. Nobody \notin Req /\ \A s \in AzProofs!Sets : s # NoEntry
  BY AccessAssumption DEF AzProofs!Sets
<1>2. NoCall \notin AzProofs!Calls
  BY AccessAssumption DEF AzProofs!Calls, Az!Calls
<1>3. AzProofs!Spec => []AzProofs!DecidedOnCurrentGrants
  BY <1>1, <1>2, AzProofs!DecisionsAreCurrent
<1>4. AzProofs!Spec => []AzProofs!TypeOK
  BY <1>1, <1>2, AzProofs!TypeCorrect
<1>5. AzProofs!DecidedOnCurrentGrants => Az!DecidedOnCurrentGrants
  BY DEF AzProofs!DecidedOnCurrentGrants, Az!DecidedOnCurrentGrants
<1>6. AzProofs!TypeOK => Az!TypeOK
  BY DEF AzProofs!TypeOK, Az!TypeOK, AzProofs!Sets, Az!Sets, AzProofs!Calls,
         Az!Calls, AzProofs!RWMutexes, Az!RWMutexes
<1>7. QED
  BY <1>3, <1>4, <1>5, <1>6, SameSpec, ImplementsAuthorizer, PTL

-----------------------------------------------------------------------------
(* Who is in the Authorizer has passed Auth, which has put the role there. *)
Coupled ==
    \A r \in Req : azpc[r] # "idle" =>
        pc[r] = "next" /\ call[r].role = ctx[r].role

Types == TypeOK /\ Az!TypeOK

LEMMA DecideCoupled ==
    ASSUME Types, Coupled, NEW r \in Req, Decide(r)
    PROVE  Coupled'
<1>1. UNCHANGED <<pc, ctx>> /\ Az!Step(r) /\ azpc[r] # "done"
  BY DEF Decide, vars
<1>2. azpc[r] # "idle" /\ call' = call
  BY <1>1 DEF Az!Step, Az!RLockStep, Az!ReadCache, Az!LockStep, Az!CheckAgain,
              Az!Load, Az!LoadFails, Az!Store, Az!Forget, Az!Return
<1>3. ASSUME NEW q \in Req \ {r} PROVE azpc'[q] = azpc[q]
  <2> USE DEF Types, Az!TypeOK, Az!Goto
  <2>1. CASE Az!RLockStep(r) \/ Az!ReadCache(r) \/ Az!LockStep(r)
    BY <2>1 DEF Az!RLockStep, Az!ReadCache, Az!LockStep
  <2>2. CASE Az!CheckAgain(r) \/ Az!Load(r) \/ Az!LoadFails(r)
    BY <2>2 DEF Az!CheckAgain, Az!Load, Az!LoadFails
  <2>3. CASE Az!Store(r) \/ Az!Forget(r) \/ Az!Return(r)
    BY <2>3 DEF Az!Store, Az!Forget, Az!Return
  <2>4. QED
    BY <1>1, <2>1, <2>2, <2>3 DEF Az!Step
<1>4. QED
  BY <1>1, <1>2, <1>3 DEF Coupled

LEMMA CoupledKept ==
    ASSUME Types, Coupled, [AccessNext]_allVars
    PROVE  Coupled'
<1>1. CASE UNCHANGED allVars
  BY <1>1 DEF allVars, azvars, vars, Coupled
<1>2. ASSUME NEW r \in Req, ToAuth(r) PROVE Coupled'
  <2>1. azpc' = azpc /\ call' = call
    BY <1>2 DEF ToAuth, azvars
  <2>2. pc[r] \in {"idle", "insert", "find", "compare", "cookie", "logout",
                   "parse", "lookup", "answered"}
    BY <1>2 DEF ToAuth, Receive, Reject, Register, FindUser, CompareAndGenerate,
                SetCookie, Logout, ParseToken, LookupUser, DbError, Deliver
  <2>3. ASSUME NEW q \in Req \ {r} PROVE pc'[q] = pc[q] /\ ctx'[q] = ctx[q]
    <3> USE DEF Types, TypeOK, Goto, Finish
    <3>1. CASE Receive(r) \/ Reject(r) \/ FindUser(r)
      BY <3>1 DEF Receive, Reject, FindUser
    <3>2. CASE Register(r)
      BY <3>2 DEF Register, InsertUser
    <3>3. CASE CompareAndGenerate(r)
      BY <3>3 DEF CompareAndGenerate, Generate
    <3>4. CASE SetCookie(r) \/ Logout(r)
      BY <3>4 DEF SetCookie, Logout, AnswerCookie
    <3>5. CASE ParseToken(r) \/ LookupUser(r)
      BY <3>5 DEF ParseToken, LookupUser, Admit
    <3>6. CASE DbError(r) \/ Deliver(r)
      BY <3>6 DEF DbError, Deliver
    <3>7. QED
      BY <1>2, <3>1, <3>2, <3>3, <3>4, <3>5, <3>6 DEF ToAuth
  <2>4. QED
    BY <2>1, <2>2, <2>3 DEF Coupled
<1>3. ASSUME NEW r \in Req, Require(r) PROVE Coupled'
  <2>1. /\ pc[r] = "next" /\ UNCHANGED <<pc, ctx>>
        /\ call'[r].role = ctx[r].role
        /\ \A q \in Req \ {r} : azpc'[q] = azpc[q] /\ call'[q] = call[q]
    BY <1>3 DEF Require, Requiring, vars, Az!Call, Az!Goto, Types, Az!TypeOK
  <2>2. QED
    BY <2>1 DEF Coupled
<1>4. ASSUME NEW r \in Req, Finished(r) PROVE Coupled'
  <2>1. /\ azpc'[r] = "idle"
        /\ \A q \in Req \ {r} :
              /\ azpc'[q] = azpc[q] /\ call'[q] = call[q]
              /\ pc'[q] = pc[q] /\ ctx'[q] = ctx[q]
    BY <1>4 DEF Finished, Az!Return, Az!Goto, Serve, Finish, Goto, Types,
                TypeOK, Az!TypeOK
  <2>2. QED
    BY <2>1 DEF Coupled
<1>5. CASE Environment
  <2>1. UNCHANGED <<pc, ctx, azpc, call>>
    BY <1>5 DEF Environment, ChangeUser, Tick, Az!Regrant, vars, azvars
  <2>2. QED
    BY <2>1 DEF Coupled
<1>6. CASE RestartAll
  BY <1>6 DEF RestartAll, Az!Restart, Coupled
<1>7. QED
  BY <1>1, <1>2, <1>3, <1>4, <1>5, <1>6, DecideCoupled DEF AccessNext, RequestStep

(* A handler runs only for a user whose role, while the request was under  *)
(* way, was the one that let it in, and which had the route's permission   *)
(* since the server started: Auth and RequirePermission, proved apart,     *)
(* meet in the role that the one leaves in Locals for the other.           *)
THEOREM HandlersRunRightfully == AccessSpec => []HandlerRunsRightfully
<1>1. AccessSpec => []TypeOK /\ []AdmittedIsCurrent
  BY ImplementsAccounts, TypeCorrect, AdmissionIsCurrent, PTL
<1>2. AccessSpec => []Types
  BY <1>1, AuthorizerKeeps, PTL DEF Types
<1>3. AccessInit => Coupled
  BY DEF AccessInit, Az!Init, Coupled
<1>4. AccessSpec => []Coupled
  BY <1>2, <1>3, CoupledKept, PTL DEF AccessSpec
<1>5. Coupled /\ AdmittedIsCurrent /\ Az!DecidedOnCurrentGrants
        => HandlerRunsRightfully
  BY DEF Coupled, AdmittedIsCurrent, Az!DecidedOnCurrentGrants,
         HandlerRunsRightfully, HandlerRuns
<1>6. QED
  BY <1>1, <1>4, <1>5, AuthorizerKeeps, PTL
=============================================================================
