------------------------------ MODULE MCAccess ------------------------------
(* Routes and a bound for the run of Access. *)
EXTENDS Access

OneRoute == [x \in Route |-> CHOOSE p \in Perm : TRUE]

(* Logins and their races are the run of Accounts': here a user registers  *)
(* and logs in first, and then asks for protected routes.                  *)
Protected(r) == ctx[r].ask.kind = "protected"
LoggedIn == registered # {} /\ \A b \in Browser : jar[b] # None

InOrder ==
    LET active == {r \in Req : pc[r] # "idle"} IN
    \/ LoggedIn /\ \A r \in active : Protected(r)
    \/ ~LoggedIn /\ \A q, r \in active : q = r /\ ~Protected(r)

(* The role that users begin with never has the permission, and a user     *)
(* changes once: it is deleted or gets the other role.                     *)
FewChanges ==
    /\ since[DefaultRole] = {{}}
    /\ \A u \in UserId : users[u] # None =>
          ~users[u].deleted \/ users[u].role = DefaultRole
=============================================================================
