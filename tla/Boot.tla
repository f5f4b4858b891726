-------------------------------- MODULE Boot --------------------------------
(***************************************************************************)
(* What a server does before it listens: Seed (internal/database) and the  *)
(* default role of NewAuthHandler (internal/handler/auth.go), in the order *)
(* of main.  Servers share one database, may boot at the same time, and    *)
(* may die at any point and boot again; between boots somebody may add a   *)
(* permission to a role by hand.                                           *)
(*                                                                         *)
(* permissions and roles have no unique index.  Neither table ever loses a *)
(* row, so a table is the sequence of its rows and a row's key its place.  *)
(***************************************************************************)
EXTENDS Sequences, Naturals, FiniteSets

CONSTANTS
    Server,
    AllPermissions,     \* auth.AllPermissions, a sequence of names
    UserPermissions,    \* auth.UserPermissions, a set of them
    DefaultRoleTitle,   \* cfg.DefaultRoleTitle
    Together,           \* may servers boot together on an empty database?
    MaxByHand           \* bound: grants that somebody added by hand

Perms == {AllPermissions[i] : i \in 1 .. Len(AllPermissions)}
Titles == <<"admin", "user">>

ASSUME SeedAssumption ==
    /\ AllPermissions \in Seq(Perms) /\ AllPermissions # <<>>
    /\ UserPermissions \subseteq Perms
    /\ \A i, j \in 1 .. Len(AllPermissions) :
          AllPermissions[i] = AllPermissions[j] => i = j
    /\ Together \in BOOLEAN /\ MaxByHand \in Nat

VARIABLES
    permissions,    \* the table: permissions[id] is a name
    roles,          \* the table: roles[id] is a title
    grants,         \* role_permissions: pairs <<role id, permission id>>
    pc,             \* pc[s]: the statement server s sends next
    todo,           \* todo[s]: the names, then the titles, still to seed; then
                    \* the title whose grants are being synchronised
    perm,           \* perm[s]: seedPermissions' map, name -> id so far
    role,           \* role[s]: seedRoles' map, title -> id so far
    sync,           \* sync[s]: titles whose grants are still to synchronise
    default,        \* default[s]: AuthHandler.defaultRoleID, or 0
    byHand          \* history: the grants added by hand and not pruned since

tables == <<permissions, roles, grants>>
locals == <<todo, perm, role, sync, default>>
vars == <<tables, pc, locals, byHand>>

Ids(table) == 1 .. Len(table)
With(table, name) == {i \in Ids(table) : table[i] = name}
None == <<>>    \* an empty map

TypeOK ==
    /\ permissions \in Seq(Perms)
    /\ roles \in Seq({"admin", "user"})
    /\ grants \subseteq Ids(roles) \X Ids(permissions)
    /\ pc \in [Server -> {"down", "findPerm", "addPerm", "findRole", "addRole",
                          "append", "prune", "default", "serving"}]
    /\ \A s \in Server :
        /\ DOMAIN perm[s] \subseteq Perms
        /\ \A p \in DOMAIN perm[s] : perm[s][p] \in With(permissions, p)
        /\ \A t \in DOMAIN role[s] : role[s][t] \in With(roles, t)
        /\ default[s] \in {0} \cup Ids(roles)
    /\ sync \in [Server -> SUBSET {"admin", "user"}]
    /\ byHand \subseteq Ids(roles) \X Ids(permissions)

Init ==
    /\ permissions = <<>> /\ roles = <<>> /\ grants = {}
    /\ pc = [s \in Server |-> "down"]
    /\ todo = [s \in Server |-> <<>>]
    /\ perm = [s \in Server |-> None]
    /\ role = [s \in Server |-> None]
    /\ sync = [s \in Server |-> {}]
    /\ default = [s \in Server |-> 0]
    /\ byHand = {}

-----------------------------------------------------------------------------
Goto(s, step) == pc' = [pc EXCEPT ![s] = step]

(* First: the row with the lowest key. *)
FirstOf(ids) == CHOOSE i \in ids : \A j \in ids : i <= j

Mapped(map, name, id) ==
    [x \in DOMAIN map \cup {name} |-> IF x = name THEN id ELSE map[x]]

(* Nothing is left for FirstOrCreate to create. *)
Populated ==
    /\ \A p \in Perms : With(permissions, p) # {}
    /\ \A i \in Ids(Titles) : With(roles, Titles[i]) # {}

(* main reaches Seed: the tables exist (Migrate). *)
Start(s) ==
    /\ pc[s] = "down"
    /\ Together \/ Populated \/ \A q \in Server : pc[q] = "down"
    /\ Goto(s, "findPerm")
    /\ todo' = [todo EXCEPT ![s] = AllPermissions]
    /\ UNCHANGED <<tables, perm, role, sync, default, byHand>>

(***************************************************************************)
(* FirstOrCreate is a SELECT and, when it finds no row, an INSERT.         *)
(***************************************************************************)
GotPerm(s, id) ==
    /\ perm' = [perm EXCEPT ![s] = Mapped(@, Head(todo[s]), id)]
    /\ IF Len(todo[s]) > 1
       THEN Goto(s, "findPerm") /\ todo' = [todo EXCEPT ![s] = Tail(@)]
       ELSE Goto(s, "findRole") /\ todo' = [todo EXCEPT ![s] = Titles]

FindPerm(s) ==
    /\ pc[s] = "findPerm"
    /\ LET found == With(permissions, Head(todo[s])) IN
       IF found # {} THEN GotPerm(s, FirstOf(found))
                     ELSE Goto(s, "addPerm") /\ UNCHANGED <<perm, todo>>
    /\ UNCHANGED <<tables, role, sync, default, byHand>>

AddPerm(s) ==
    /\ pc[s] = "addPerm"
    /\ permissions' = Append(permissions, Head(todo[s]))
    /\ GotPerm(s, Len(permissions'))
    /\ UNCHANGED <<roles, grants, role, sync, default, byHand>>

GotRole(s, id) ==
    /\ role' = [role EXCEPT ![s] = Mapped(@, Head(todo[s]), id)]
    /\ todo' = [todo EXCEPT ![s] = Tail(@)]
    /\ IF Len(todo[s]) > 1
       THEN Goto(s, "findRole") /\ UNCHANGED sync
       ELSE Goto(s, "append") /\ sync' = [sync EXCEPT ![s] = {"admin", "user"}]

(* Mutant: Create without looking first. *)
FindNoRole(s) ==
    /\ pc[s] = "findRole"
    /\ Goto(s, "addRole")
    /\ UNCHANGED <<tables, locals, byHand>>

FindRole(s) ==
    /\ pc[s] = "findRole"
    /\ LET found == With(roles, Head(todo[s])) IN
       IF found # {} THEN GotRole(s, FirstOf(found))
                     ELSE Goto(s, "addRole") /\ UNCHANGED <<role, todo, sync>>
    /\ UNCHANGED <<tables, perm, default, byHand>>

AddRole(s) ==
    /\ pc[s] = "addRole"
    /\ roles' = Append(roles, Head(todo[s]))
    /\ GotRole(s, Len(roles'))
    /\ UNCHANGED <<permissions, grants, perm, default, byHand>>

-----------------------------------------------------------------------------
(***************************************************************************)
(* syncRolePermissions: for each title, in the random order of a Go map,   *)
(* Association.Replace, which is two transactions: the join rows of the    *)
(* set are inserted, then the other join rows of the role are deleted.     *)
(***************************************************************************)
Wanted(t) == IF t = "admin" THEN Perms ELSE UserPermissions

WantedIds(s, t) == {perm[s][p] : p \in Wanted(t)}

(* Mutant: Clear before Append. *)
ClearGrants(s) ==
    /\ pc[s] = "append"
    /\ \E t \in sync[s] :
        /\ grants' = {g \in grants : g[1] # role[s][t]}
        /\ todo' = [todo EXCEPT ![s] = <<t>>]
    /\ Goto(s, "prune")
    /\ UNCHANGED <<permissions, roles, perm, role, sync, default, byHand>>

AppendGrants(s) ==
    /\ pc[s] = "append"
    /\ \E t \in sync[s] :
        /\ grants' = grants \cup ({role[s][t]} \X WantedIds(s, t))
        /\ todo' = [todo EXCEPT ![s] = <<t>>]
    /\ Goto(s, "prune")
    /\ UNCHANGED <<permissions, roles, perm, role, sync, default, byHand>>

(* Mutant: Append where Replace should be, so that nothing is deleted. *)
PruneNothing(s) ==
    /\ pc[s] = "prune"
    /\ sync' = [sync EXCEPT ![s] = @ \ {Head(todo[s])}]
    /\ Goto(s, IF sync[s] = {Head(todo[s])} THEN "default" ELSE "append")
    /\ todo' = [todo EXCEPT ![s] = <<>>]
    /\ byHand' = {g \in byHand : g[1] # role[s][Head(todo[s])]}
    /\ UNCHANGED <<tables, perm, role, default>>

PruneGrants(s) ==
    /\ pc[s] = "prune"
    /\ LET t == Head(todo[s])
           kept == {g \in grants : g[1] = role[s][t] => g[2] \in WantedIds(s, t)}
       IN
        /\ grants' = kept
        /\ byHand' = byHand \cap kept
        /\ sync' = [sync EXCEPT ![s] = @ \ {t}]
        /\ Goto(s, IF sync[s] = {t} THEN "default" ELSE "append")
    /\ todo' = [todo EXCEPT ![s] = <<>>]
    /\ UNCHANGED <<permissions, roles, perm, role, default>>

(* Mutant: a hardcoded RoleID for new users, whatever roles there are. *)
HardcodedRole(s) ==
    /\ pc[s] = "default"
    /\ default' = [default EXCEPT ![s] = 3]
    /\ Goto(s, "serving")
    /\ perm' = [perm EXCEPT ![s] = None]
    /\ role' = [role EXCEPT ![s] = None]
    /\ UNCHANGED <<tables, todo, sync, byHand>>

(* Mutant: First without the condition on the title. *)
FindAnyRole(s) ==
    /\ pc[s] = "default"
    /\ default' = [default EXCEPT ![s] = FirstOf(Ids(roles))]
    /\ Goto(s, "serving")
    /\ perm' = [perm EXCEPT ![s] = None]
    /\ role' = [role EXCEPT ![s] = None]
    /\ UNCHANGED <<tables, todo, sync, byHand>>

(* NewAuthHandler: no such role is fatal, and the process ends. *)
FindDefaultRole(s) ==
    /\ pc[s] = "default"
    /\ LET found == With(roles, DefaultRoleTitle) IN
       IF found # {}
       THEN /\ default' = [default EXCEPT ![s] = FirstOf(found)]
            /\ Goto(s, "serving")
       ELSE Goto(s, "down") /\ UNCHANGED default
    /\ perm' = [perm EXCEPT ![s] = None]        \* Seed has returned
    /\ role' = [role EXCEPT ![s] = None]
    /\ UNCHANGED <<tables, todo, sync, byHand>>

(* log.Fatalf on a failed statement, a kill, or the end of a deployment. *)
Die(s) ==
    /\ pc[s] # "down"
    /\ Goto(s, "down")
    /\ todo' = [todo EXCEPT ![s] = <<>>]
    /\ perm' = [perm EXCEPT ![s] = None]
    /\ role' = [role EXCEPT ![s] = None]
    /\ sync' = [sync EXCEPT ![s] = {}]
    /\ default' = [default EXCEPT ![s] = 0]
    /\ UNCHANGED <<tables, byHand>>

(* Somebody adds a permission to a role in the database. *)
GrantByHand ==
    /\ Cardinality(byHand) < MaxByHand
    /\ \E g \in (Ids(roles) \X Ids(permissions)) \ grants :
        grants' = grants \cup {g} /\ byHand' = byHand \cup {g}
    /\ UNCHANGED <<permissions, roles, pc, locals>>

Step(s) ==
    \/ Start(s) \/ FindPerm(s) \/ AddPerm(s) \/ FindRole(s) \/ AddRole(s)
    \/ AppendGrants(s) \/ PruneGrants(s) \/ FindDefaultRole(s)

Next == (\E s \in Server : Step(s) \/ Die(s)) \/ GrantByHand

Spec == Init /\ [][Next]_vars

-----------------------------------------------------------------------------
(* "Idempotent: run again, it creates no duplicate rows", says Seed, also  *)
(* when the run before it died half way.  Nothing in the schema backs it:  *)
(* title and permission have no unique index.                              *)
NoDuplicates ==
    \A table \in {permissions, roles} :
        \A i, j \in Ids(table) : table[i] = table[j] => i = j

(* The names of the permissions that the pairs in gs give to a role. *)
NamesOf(gs, r) == {permissions[g[2]] : g \in {h \in gs : h[1] = r}}

(* The role r holds what the code lists for t, and nothing else but what   *)
(* was granted by hand since the last boot.                                *)
HoldsAsCoded(r, t) ==
    /\ Wanted(t) \subseteq NamesOf(grants, r)
    /\ NamesOf(grants \ byHand, r) \subseteq Wanted(t)

(* A server that serves, and already the one that looks for its default    *)
(* role, finds under "admin" and "user" exactly what the code lists.       *)
ServesAsCoded ==
    \A s \in Server : pc[s] \in {"default", "serving"} =>
        \A i \in Ids(Titles) :
            HoldsAsCoded(FirstOf(With(roles, Titles[i])), Titles[i])

(* The key that NewAuthHandler read once at the boot, and that Register    *)
(* puts into every new user as long as the server runs, is to this day one *)
(* of the default role: whoever registers may do what the code lists for   *)
(* it, and no more, whatever other servers boot, sync or die meanwhile.    *)
NewUsersAsCoded ==
    \A s \in Server : pc[s] = "serving" =>
        /\ default[s] \in With(roles, DefaultRoleTitle)
        /\ HoldsAsCoded(default[s], DefaultRoleTitle)

(* A boot beside running servers never takes away, not even for a moment,  *)
(* a permission that the code gives the role: another server's Authorizer  *)
(* that loads the role in that moment would refuse its users from then on. *)
NeverRevokes ==
    [][\A r \in Ids(roles) :
          NamesOf(grants, r) \cap Wanted(roles[r]) \subseteq NamesOf(grants, r)']_vars
=============================================================================
