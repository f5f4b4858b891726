------------------------------- MODULE Access -------------------------------
(***************************************************************************)
(* A protected route from the cookie to its handler: Auth, as in Accounts, *)
(* puts the user's id and role into the request's Locals; RequirePermission*)
(* of the Authorizer, as in Authorizer, takes the role from there and lets *)
(* the handler run or answers 403 or 500 (internal/router/router.go).      *)
(*                                                                         *)
(* Meanwhile users are deleted or change roles, roles are granted and      *)
(* denied permissions, and the process may end and start again.  Nothing   *)
(* in the program calls Invalidate or Clear.                               *)
(***************************************************************************)
EXTENDS Accounts

CONSTANTS
    Perm, Nobody, NoEntry, NoCall,
    Route,      \* the protected routes
    Needs       \* Needs[x]: the permission that route x declares

VARIABLES granted, cache, mu, azpc, call, set, verdict, since, grants

azvars == <<granted, cache, mu, azpc, call, set, verdict, since, grants>>
allVars == <<vars, azvars>>

(* The goroutines that come to the Authorizer are those of the requests. *)
Az == INSTANCE Authorizer
        WITH Proc <- Req, pc <- azpc, answer <- verdict, window <- grants

ASSUME AccessAssumption ==
    /\ Needs \in [Route -> Perm]
    /\ Nobody \notin Req /\ NoCall \notin Az!Calls
    /\ \A s \in SUBSET Perm : s # NoEntry

AccessInit == Init /\ Az!Init

-----------------------------------------------------------------------------
(* Accounts, up to c.Next() of Auth. *)
ToAuth(r) ==
    /\ \/ Receive(r) \/ Reject(r) \/ Register(r) \/ FindUser(r)
       \/ CompareAndGenerate(r) \/ SetCookie(r) \/ Logout(r) \/ ParseToken(r)
       \/ LookupUser(r) \/ DbError(r) \/ Deliver(r)
    /\ UNCHANGED azvars

(* RequirePermission is called for a role and a permission. *)
Requiring(role, perm) ==
    [method |-> "RequirePermission", role |-> role, perm |-> perm]

(* Mutant: the role of the token. *)
RequireOfToken(r) ==
    /\ pc[r] = "next" /\ Az!Call(r)
    /\ \E x \in Route : call'[r] = Requiring(ctx[r].token.role, Needs[x])
    /\ UNCHANGED vars

(* The route is the request's from the start, but matters only here. *)
Require(r) ==
    /\ pc[r] = "next" /\ Az!Call(r)
    /\ \E x \in Route : call'[r] = Requiring(ctx[r].role, Needs[x])
    /\ UNCHANGED vars

Decide(r) == azpc[r] # "done" /\ Az!Step(r) /\ UNCHANGED vars

(* The handler ends, or RequirePermission has refused: 403 or 500. *)
Finished(r) == azpc[r] = "done" /\ Az!Return(r) /\ Serve(r)

RequestStep(r) == ToAuth(r) \/ Require(r) \/ Decide(r) \/ Finished(r)

Environment ==
    \/ ((\E u \in UserId : ChangeUser(u)) \/ Tick) /\ UNCHANGED azvars
    \/ (\E role \in Role : Az!Regrant(role)) /\ UNCHANGED vars

RestartAll == Restart /\ Az!Restart

AccessNext == (\E r \in Req : RequestStep(r)) \/ Environment \/ RestartAll

AccessSpec == AccessInit /\ [][AccessNext]_allVars

(***************************************************************************)
(* What a request has begun is carried on: goroutines run, queries end,    *)
(* and a mutex that is free again and again is got.  No request need come. *)
(***************************************************************************)
Serving(r) == pc[r] # "idle" /\ RequestStep(r)

Fairness ==
    \A r \in Req : /\ WF_allVars(Serving(r))
                   /\ SF_allVars(Az!LockStep(r) /\ UNCHANGED vars)

FairAccessSpec == AccessSpec /\ Fairness

-----------------------------------------------------------------------------
HandlerRuns(r) == azpc[r] = "done" /\ verdict[r] = "next"

(* A handler runs only for a user who had, at some time since the request  *)
(* came, the role by which it was let in, a role that had the route's      *)
(* permission at some time since the server started: a token, however old, *)
(* and a role that the user lost before the request open nothing.          *)
HandlerRunsRightfully ==
    \A r \in Req : HandlerRuns(r) =>
        /\ <<ctx[r].user, call[r].role>> \in window[r]
        /\ \E s \in grants[r] : call[r].perm \in s

(* A request is answered, whatever waits on the Authorizer's mutex and     *)
(* whatever fails on the way.                                              *)
EveryRequestEnds == \A r \in Req : pc[r] # "idle" ~> pc[r] = "idle"
=============================================================================
