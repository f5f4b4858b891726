-------------------------- MODULE RequestContract --------------------------
(***************************************************************************)
(* What the API promises of any request that writes, whatever else is in   *)
(* flight: it takes effect at most once and in one atomic step; an answer  *)
(* that refuses it comes only if it had no effect; and a success comes     *)
(* only after its effect is durable.  A failure of the server may come at  *)
(* any time: after a 500 without a reason in the data the client knows     *)
(* nothing.                                                                *)
(***************************************************************************)
CONSTANT Req

VARIABLES
    store,      \* everything that is durable
    phase,      \* phase[r]: idle, running, succeeded, refused or failed
    applied     \* applied[r]: r's effect is durable

vars == <<store, phase, applied>>

Init ==
    /\ phase = [r \in Req |-> "idle"]
    /\ applied = [r \in Req |-> FALSE]

Begin(r) ==
    /\ phase[r] = "idle"
    /\ phase' = [phase EXCEPT ![r] = "running"]
    /\ UNCHANGED <<store, applied>>

(* The only step that touches the store; the answer may be part of it. *)
Change(r) ==
    /\ phase[r] = "running" /\ ~applied[r]
    /\ applied' = [applied EXCEPT ![r] = TRUE]
    /\ \E p \in {"running", "succeeded", "failed"} :
          phase' = [phase EXCEPT ![r] = p]

Succeed(r) ==
    /\ phase[r] = "running" /\ applied[r]
    /\ phase' = [phase EXCEPT ![r] = "succeeded"]
    /\ UNCHANGED <<store, applied>>

Refuse(r) ==
    /\ phase[r] \in {"idle", "running"} /\ ~applied[r]
    /\ phase' = [phase EXCEPT ![r] = "refused"]
    /\ UNCHANGED <<store, applied>>

Fail(r) ==
    /\ phase[r] = "running"
    /\ phase' = [phase EXCEPT ![r] = "failed"]
    /\ UNCHANGED <<store, applied>>

End(r) ==
    /\ phase[r] \in {"succeeded", "refused", "failed"}
    /\ phase' = [phase EXCEPT ![r] = "idle"]
    /\ applied' = [applied EXCEPT ![r] = FALSE]
    /\ UNCHANGED store

(* The process dies: what is durable stays. *)
Die ==
    /\ phase' = [r \in Req |-> "idle"]
    /\ applied' = [r \in Req |-> FALSE]
    /\ UNCHANGED store

Next ==
    \/ \E r \in Req : Begin(r) \/ Change(r) \/ Succeed(r) \/ Refuse(r)
                      \/ Fail(r) \/ End(r)
    \/ Die

Spec == Init /\ [][Next]_vars
=============================================================================
