----------------------------- MODULE Boot_proofs -----------------------------
(***************************************************************************)
(* Type correctness of the boot for any number of servers, permissions and *)
(* grants by hand; and, when no two servers boot together on an empty      *)
(* database, that no row is doubled, that a serving server finds what the  *)
(* code lists and that no boot revokes it meanwhile.                       *)
(***************************************************************************)
EXTENDS Boot, SequenceTheorems, WellFoundedInduction, TLAPS

RoleNames == {"admin", "user"}
Elems(seq) == {seq[i] : i \in 1 .. Len(seq)}

-----------------------------------------------------------------------------
(***************************************************************************)
(* Lemmas about tables, maps and the queue of names.                       *)
(***************************************************************************)

(* FirstOf finds the lowest key, if there is any. *)
LEMMA LeastNumber ==
    ASSUME NEW S \in SUBSET Nat, S # {}
    PROVE  \E m \in S : \A k \in S : m <= k
<1>1. \E R : /\ IsWellFoundedOn(R, Nat)
             /\ \A x, y \in Nat : <<x, y>> \in R <=> x < y
  BY NatLessThanWellFounded DEF OpToRel
<1>2. PICK R : /\ IsWellFoundedOn(R, Nat)
               /\ \A x, y \in Nat : <<x, y>> \in R <=> x < y
  BY <1>1
<1>3. S \subseteq Nat /\ IsWellFoundedOn(R, Nat)
  BY <1>2
<1>4. \E m \in S : \A k \in S : ~(<<k, m>> \in R)
  BY <1>3, WFMin
<1>5. PICK m \in S : \A k \in S : ~(<<k, m>> \in R)
  BY <1>4
<1>6. ASSUME NEW k \in S PROVE m <= k
  <2>1. m \in Nat /\ k \in Nat
    OBVIOUS
  <2>2. ~(k < m)
    BY <1>2, <1>5, <2>1, Zenon
  <2>3. QED
    BY <2>1, <2>2
<1>7. QED
  BY <1>6

LEMMA FirstOfIn ==
    ASSUME NEW ids \in SUBSET Nat, ids # {}
    PROVE  FirstOf(ids) \in ids
BY LeastNumber, Zenon DEF FirstOf

LEMMA TableKeys ==
    ASSUME NEW S, NEW table \in Seq(S)
    PROVE  /\ Len(table) \in Nat /\ Ids(table) \subseteq Nat
           /\ \A i \in Ids(table) : table[i] \in S
           /\ \A n : With(table, n) \subseteq Ids(table)
BY LenProperties, ElementOfSeq DEF Ids, With

(* INSERT. *)
LEMMA AppendRow ==
    ASSUME NEW S, NEW table \in Seq(S), NEW n \in S
    PROVE  LET new == Append(table, n)
               id == Len(table) + 1
           IN /\ new \in Seq(S) /\ Len(new) = id
              /\ Ids(new) = Ids(table) \cup {id} /\ id \notin Ids(table)
              /\ \A i \in Ids(table) : new[i] = table[i]
              /\ new[id] = n
              /\ \A x : With(table, x) \subseteq With(new, x)
              /\ id \in With(new, n)
<1> DEFINE new == Append(table, n)
           id == Len(table) + 1
<1>1. /\ new \in Seq(S) /\ Len(new) = id /\ Len(table) \in Nat
      /\ \A i \in 1 .. Len(table) : new[i] = table[i]
      /\ new[id] = n
  BY AppendProperties, LenProperties
<1> HIDE DEF new
<1>2. Ids(new) = Ids(table) \cup {id} /\ id \notin Ids(table)
  BY <1>1 DEF Ids
<1>3. QED
  BY <1>1, <1>2 DEF Ids, With, new

LEMMA HeadAndTail ==
    ASSUME NEW S, NEW seq \in Seq(S), seq # <<>>
    PROVE  /\ Head(seq) \in S /\ Tail(seq) \in Seq(S) /\ Len(seq) \in Nat \ {0}
           /\ Elems(seq) \subseteq {Head(seq)} \cup Elems(Tail(seq))
           /\ Len(seq) > 1 => Tail(seq) # <<>>
           /\ ~(Len(seq) > 1) => Elems(seq) = {Head(seq)}
<1>1. /\ Head(seq) \in S /\ Tail(seq) \in Seq(S) /\ Len(seq) \in Nat \ {0}
      /\ Len(Tail(seq)) = Len(seq) - 1
      /\ \A i \in 1 .. Len(Tail(seq)) : Tail(seq)[i] = seq[i + 1]
  BY HeadTailProperties, EmptySeq
<1>2. Head(seq) = seq[1]
  OBVIOUS
<1>3. ASSUME NEW i \in 1 .. Len(seq), i # 1
      PROVE  seq[i] \in Elems(Tail(seq))
  <2>1. i - 1 \in 1 .. Len(Tail(seq)) /\ (i - 1) + 1 = i
    BY <1>1, <1>3
  <2>2. Tail(seq)[i - 1] = seq[i]
    BY <1>1, <2>1
  <2>3. QED
    BY <2>1, <2>2 DEF Elems
<1>4. Elems(seq) \subseteq {Head(seq)} \cup Elems(Tail(seq))
  BY <1>2, <1>3 DEF Elems
<1>5. Len(seq) > 1 => Tail(seq) # <<>>
  <2>1. Len(<<>>) = 0
    BY EmptySeq
  <2>2. ASSUME Len(seq) > 1, Tail(seq) = <<>> PROVE FALSE
    <3>1. Len(Tail(seq)) # 0
      BY <1>1, <2>2
    <3>2. QED
      BY <2>1, <2>2, <3>1, Zenon
  <2>3. QED
    BY <2>2
<1>6. ~(Len(seq) > 1) => Elems(seq) = {Head(seq)}
  BY <1>1, <1>2 DEF Elems
<1>7. QED
  BY <1>1, <1>4, <1>5, <1>6

LEMMA MappedIs ==
    ASSUME NEW map, NEW name, NEW id
    PROVE  /\ DOMAIN Mapped(map, name, id) = DOMAIN map \cup {name}
           /\ Mapped(map, name, id)[name] = id
           /\ \A x \in DOMAIN map \ {name} : Mapped(map, name, id)[x] = map[x]
BY DEF Mapped

-----------------------------------------------------------------------------
(***************************************************************************)
(* Types.  TypeOK alone does not last: what is granted are the ids in the  *)
(* map of seedPermissions, which must have an entry for every name.        *)
(***************************************************************************)
Queued(s) ==
    /\ pc[s] \in {"findPerm", "addPerm"} =>
          /\ todo[s] \in Seq(Perms) /\ todo[s] # <<>>
          /\ Perms \subseteq DOMAIN perm[s] \cup Elems(todo[s])
    /\ pc[s] \in {"findRole", "addRole"} =>
          /\ todo[s] \in Seq(RoleNames) /\ todo[s] # <<>>
          /\ RoleNames \subseteq DOMAIN role[s] \cup Elems(todo[s])
    /\ pc[s] \in {"findRole", "addRole", "append", "prune"} =>
          Perms \subseteq DOMAIN perm[s]
    /\ pc[s] \in {"append", "prune"} =>
          RoleNames \subseteq DOMAIN role[s] /\ sync[s] # {}
    /\ pc[s] = "prune" => Head(todo[s]) \in sync[s]

TInv ==
    /\ TypeOK
    /\ todo = [s \in Server |-> todo[s]] /\ perm = [s \in Server |-> perm[s]]
    /\ role = [s \in Server |-> role[s]]
    /\ default = [s \in Server |-> default[s]]
    /\ \A s \in Server : Queued(s)

(***************************************************************************)
(* Safety, for servers that do not boot together on an empty database.     *)
(***************************************************************************)

(* All permissions of the role t are granted. *)
Granted(t) ==
    \A r \in With(roles, t), i \in Ids(permissions) :
        permissions[i] \in Wanted(t) => <<r, i>> \in grants

(* While something is left to create, one server at most is up. *)
Alone ==
    ~Populated => \A q, s \in Server : pc[q] # "down" /\ pc[s] # "down" => q = s

(* What was not coded was granted by hand. *)
OnlyCoded ==
    \A g \in grants \ byHand : permissions[g[2]] \in Wanted(roles[g[1]])

Seeding(s) ==
    /\ pc[s] = "addPerm" => With(permissions, Head(todo[s])) = {}
    /\ pc[s] = "addRole" => With(roles, Head(todo[s])) = {}
    /\ pc[s] \in {"append", "prune", "default", "serving"} =>
          Populated /\ \A t \in RoleNames \ sync[s] : Granted(t)
    /\ pc[s] = "prune" => Granted(Head(todo[s]))
    /\ pc[s] \in {"default", "serving"} => sync[s] = {}

SInv ==
    /\ NoDuplicates
    /\ Alone
    /\ OnlyCoded
    /\ \A s \in Server : Seeding(s)

-----------------------------------------------------------------------------
(***************************************************************************)
(* TInv is inductive.                                                      *)
(***************************************************************************)
TablesOK ==
    /\ permissions \in Seq(Perms) /\ roles \in Seq(RoleNames)
    /\ grants \subseteq Ids(roles) \X Ids(permissions)
    /\ byHand \subseteq Ids(roles) \X Ids(permissions)

ShapeOK ==
    /\ pc \in [Server -> {"down", "findPerm", "addPerm", "findRole", "addRole",
                          "append", "prune", "default", "serving"}]
    /\ sync \in [Server -> SUBSET RoleNames]
    /\ todo = [s \in Server |-> todo[s]] /\ perm = [s \in Server |-> perm[s]]
    /\ role = [s \in Server |-> role[s]]
    /\ default = [s \in Server |-> default[s]]

ServerOK(s) ==
    /\ DOMAIN perm[s] \subseteq Perms
    /\ \A p \in DOMAIN perm[s] : perm[s][p] \in With(permissions, p)
    /\ \A t \in DOMAIN role[s] : role[s][t] \in With(roles, t)
    /\ default[s] \in {0} \cup Ids(roles)
    /\ Queued(s)

LEMMA TInvParts == TInv <=> TablesOK /\ ShapeOK /\ \A s \in Server : ServerOK(s)
BY DEF TInv, TypeOK, TablesOK, ShapeOK, ServerOK, RoleNames

(* Rows are only added. *)
TablesGrow ==
    /\ \A n : With(permissions, n) \subseteq With(permissions', n)
    /\ \A n : With(roles, n) \subseteq With(roles', n)
    /\ Ids(permissions) \subseteq Ids(permissions')
    /\ Ids(roles) \subseteq Ids(roles')

(* Only s moves. *)
Others(s) ==
    \A q \in Server \ {s} :
        /\ pc'[q] = pc[q] /\ todo'[q] = todo[q] /\ perm'[q] = perm[q]
        /\ role'[q] = role[q] /\ sync'[q] = sync[q] /\ default'[q] = default[q]

LEMMA OthersKept ==
    ASSUME TInv, NEW s \in Server, TablesOK', ShapeOK', TablesGrow, Others(s),
           ServerOK(s)'
    PROVE  TInv'
<1>1. ASSUME NEW q \in Server \ {s} PROVE ServerOK(q)'
  <2>1. ServerOK(q)
    BY TInvParts
  <2>2. /\ pc'[q] = pc[q] /\ todo'[q] = todo[q] /\ perm'[q] = perm[q]
        /\ role'[q] = role[q] /\ sync'[q] = sync[q] /\ default'[q] = default[q]
    BY DEF Others
  <2>3. Queued(q)'
    BY <2>1, <2>2 DEF ServerOK, Queued
  <2>4. QED
    BY <2>1, <2>2, <2>3 DEF ServerOK, TablesGrow
<1>2. \A q \in Server : ServerOK(q)'
  BY <1>1
<1>3. TypeOK'
  BY <1>2 DEF TypeOK, TablesOK, ShapeOK, ServerOK, RoleNames
<1>4. QED
  BY <1>2, <1>3 DEF TInv, ShapeOK, ServerOK

LEMMA NoRowsGrow ==
    ASSUME UNCHANGED <<permissions, roles>>
    PROVE  TablesGrow
BY DEF TablesGrow

(* AllPermissions and Titles are the queues that a boot works off. *)
LEMMA QueuesType ==
    /\ AllPermissions \in Seq(Perms) /\ AllPermissions # <<>>
    /\ Elems(AllPermissions) = Perms
    /\ Titles \in Seq(RoleNames) /\ Titles # <<>> /\ Elems(Titles) = RoleNames
<1>1. Len(Titles) = 2 /\ Titles[1] = "admin" /\ Titles[2] = "user"
  BY DEF Titles
<1>2. Titles \in Seq(RoleNames) /\ Titles # <<>>
  BY DEF Titles, RoleNames
<1>3. Elems(Titles) = RoleNames
  BY <1>1 DEF Elems, RoleNames
<1>4. QED
  BY <1>2, <1>3, SeedAssumption DEF Elems, Perms

LEMMA StartTypes ==
    ASSUME TInv, NEW s \in Server, Start(s)
    PROVE  TInv'
<1> USE TInvParts
<1>1. TablesOK' /\ ShapeOK'
  BY DEF TablesOK, ShapeOK, Start, Goto, tables
<1>2. TablesGrow /\ Others(s)
  BY NoRowsGrow DEF ShapeOK, Start, Goto, tables, Others
<1>3. ServerOK(s)'
  <2>1. pc'[s] = "findPerm" /\ todo'[s] = AllPermissions
    BY DEF ShapeOK, Start, Goto
  <2>2. Queued(s)'
    BY <2>1, QueuesType DEF Queued
  <2>3. QED
    BY <2>2 DEF ServerOK, Start, tables
<1>4. QED
  BY <1>1, <1>2, <1>3, OthersKept

(* A lookup or an insert gave s the id of the name at the head. *)
LEMMA GotPermTypes ==
    ASSUME TInv, NEW s \in Server, NEW id,
           pc[s] \in {"findPerm", "addPerm"},
           GotPerm(s, id), id \in With(permissions', Head(todo[s])),
           TablesOK', TablesGrow, UNCHANGED <<role, sync, default>>
    PROVE  TInv'
<1> DEFINE n == Head(todo[s])
<1>0. ShapeOK /\ ServerOK(s) /\ Queued(s)
  BY TInvParts DEF ServerOK
<1>1. ShapeOK' /\ Others(s)
  BY <1>0 DEF ShapeOK, GotPerm, Goto, Others
<1>2. /\ todo[s] \in Seq(Perms) /\ todo[s] # <<>>
      /\ Perms \subseteq DOMAIN perm[s] \cup Elems(todo[s])
  BY <1>0 DEF Queued
<1>3. /\ n \in Perms /\ Tail(todo[s]) \in Seq(Perms)
      /\ Len(todo[s]) \in Nat \ {0}
      /\ Elems(todo[s]) \subseteq {n} \cup Elems(Tail(todo[s]))
      /\ Len(todo[s]) > 1 => Tail(todo[s]) # <<>>
      /\ ~(Len(todo[s]) > 1) => Elems(todo[s]) = {n}
  BY <1>2, HeadAndTail
<1> HIDE DEF n
<1>4. perm'[s] = Mapped(perm[s], n, id)
  BY <1>0 DEF ShapeOK, GotPerm, n
<1>5. /\ DOMAIN perm'[s] = DOMAIN perm[s] \cup {n}
      /\ perm'[s][n] = id
      /\ \A x \in DOMAIN perm[s] \ {n} : perm'[s][x] = perm[s][x]
  BY <1>4 DEF Mapped
<1>6. /\ DOMAIN perm'[s] \subseteq Perms
      /\ \A p \in DOMAIN perm'[s] : perm'[s][p] \in With(permissions', p)
  BY <1>0, <1>3, <1>5 DEF ServerOK, TablesGrow, n
<1>7. /\ \A t \in DOMAIN role'[s] : role'[s][t] \in With(roles', t)
      /\ default'[s] \in {0} \cup Ids(roles')
  BY <1>0 DEF ServerOK, TablesGrow
<1>8. CASE Len(todo[s]) > 1
  <2>1. pc'[s] = "findPerm" /\ todo'[s] = Tail(todo[s])
    BY <1>0, <1>8 DEF ShapeOK, GotPerm, Goto
  <2>2. Queued(s)'
    BY <1>2, <1>3, <1>5, <1>8, <2>1 DEF Queued
  <2>3. ServerOK(s)'
    BY <1>6, <1>7, <2>2 DEF ServerOK
  <2>4. QED
    BY <1>1, <2>3, OthersKept
<1>9. CASE ~(Len(todo[s]) > 1)
  <2>1. pc'[s] = "findRole" /\ todo'[s] = Titles
    BY <1>0, <1>9 DEF ShapeOK, GotPerm, Goto
  <2>2. Elems(todo[s]) = {n}
    BY <1>3, <1>9
  <2>3. Queued(s)'
    BY <1>2, <1>3, <1>5, <2>1, <2>2, QueuesType DEF Queued
  <2>4. ServerOK(s)'
    BY <1>6, <1>7, <2>3 DEF ServerOK
  <2>5. QED
    BY <1>1, <2>4, OthersKept
<1>10. QED
  BY <1>8, <1>9

LEMMA FindPermTypes ==
    ASSUME TInv, NEW s \in Server, FindPerm(s)
    PROVE  TInv'
<1> DEFINE found == With(permissions, Head(todo[s]))
<1>0. TablesOK /\ ShapeOK /\ ServerOK(s)
  BY TInvParts
<1>1. TablesOK' /\ TablesGrow
  BY <1>0, NoRowsGrow DEF TablesOK, FindPerm, tables
<1>2. CASE found # {}
  <2>1. found \subseteq Nat
    BY <1>0, TableKeys DEF TablesOK
  <2>2. FirstOf(found) \in With(permissions, Head(todo[s]))
    BY <1>2, <2>1, FirstOfIn
  <2>3. FirstOf(found) \in With(permissions', Head(todo[s]))
    BY <1>1, <2>2 DEF TablesGrow
  <2>4. GotPerm(s, FirstOf(found)) /\ UNCHANGED <<role, sync, default>>
    BY <1>2 DEF FindPerm
  <2>5. QED
    BY <1>1, <2>3, <2>4, GotPermTypes DEF FindPerm
<1>3. CASE found = {}
  <2>1. Goto(s, "addPerm") /\ UNCHANGED <<tables, locals>>
    BY <1>3 DEF FindPerm, locals
  <2>2. ShapeOK' /\ Others(s)
    BY <1>0, <2>1 DEF ShapeOK, Goto, Others, locals
  <2>3. pc[s] = "findPerm" /\ pc'[s] = "addPerm"
    BY <1>0, <2>1 DEF FindPerm, ShapeOK, Goto
  <2>4. ServerOK(s)'
    BY <1>0, <2>1, <2>3 DEF ServerOK, Queued, tables, locals
  <2>5. QED
    BY <1>1, <2>2, <2>4, OthersKept
<1>4. QED
  BY <1>2, <1>3

(* An inserted row shortens nothing. *)
LEMMA AddPermRow ==
    ASSUME TInv, NEW s \in Server, AddPerm(s)
    PROVE  /\ TablesOK' /\ TablesGrow
           /\ Head(todo[s]) \in Perms
           /\ Len(permissions') \in With(permissions', Head(todo[s]))
           /\ Ids(permissions') = Ids(permissions) \cup {Len(permissions')}
<1>0. TablesOK /\ Queued(s)
  BY TInvParts DEF ServerOK
<1>1. Head(todo[s]) \in Perms
  BY <1>0, HeadAndTail DEF AddPerm, Queued
<1>2. /\ permissions' \in Seq(Perms)
      /\ Len(permissions') = Len(permissions) + 1
      /\ Ids(permissions') = Ids(permissions) \cup {Len(permissions) + 1}
      /\ \A x : With(permissions, x) \subseteq With(permissions', x)
      /\ Len(permissions) + 1 \in With(permissions', Head(todo[s]))
  BY <1>0, <1>1, AppendRow DEF AddPerm, TablesOK
<1>3. TablesOK'
  BY <1>0, <1>2 DEF TablesOK, AddPerm
<1>4. QED
  BY <1>1, <1>2, <1>3 DEF TablesGrow, AddPerm

LEMMA AddPermTypes ==
    ASSUME TInv, NEW s \in Server, AddPerm(s)
    PROVE  TInv'
BY AddPermRow, GotPermTypes DEF AddPerm

LEMMA GotRoleTypes ==
    ASSUME TInv, NEW s \in Server, NEW id,
           pc[s] \in {"findRole", "addRole"},
           GotRole(s, id), id \in With(roles', Head(todo[s])),
           TablesOK', TablesGrow, UNCHANGED <<perm, default>>
    PROVE  TInv'
<1> DEFINE n == Head(todo[s])
<1>0. ShapeOK /\ ServerOK(s) /\ Queued(s)
  BY TInvParts DEF ServerOK
<1>1. ShapeOK' /\ Others(s)
  BY <1>0 DEF ShapeOK, GotRole, Goto, Others, RoleNames
<1>2. /\ todo[s] \in Seq(RoleNames) /\ todo[s] # <<>>
      /\ RoleNames \subseteq DOMAIN role[s] \cup Elems(todo[s])
      /\ Perms \subseteq DOMAIN perm[s]
  BY <1>0 DEF Queued
<1>3. /\ n \in RoleNames /\ Tail(todo[s]) \in Seq(RoleNames)
      /\ Len(todo[s]) \in Nat \ {0}
      /\ Elems(todo[s]) \subseteq {n} \cup Elems(Tail(todo[s]))
      /\ Len(todo[s]) > 1 => Tail(todo[s]) # <<>>
      /\ ~(Len(todo[s]) > 1) => Elems(todo[s]) = {n}
  BY <1>2, HeadAndTail
<1> HIDE DEF n
<1>4. role'[s] = Mapped(role[s], n, id)
  BY <1>0 DEF ShapeOK, GotRole, n
<1>5. /\ DOMAIN role'[s] = DOMAIN role[s] \cup {n}
      /\ role'[s][n] = id
      /\ \A x \in DOMAIN role[s] \ {n} : role'[s][x] = role[s][x]
  BY <1>4 DEF Mapped
<1>6. \A t \in DOMAIN role'[s] : role'[s][t] \in With(roles', t)
  BY <1>0, <1>3, <1>5 DEF ServerOK, TablesGrow, n
<1>7. /\ DOMAIN perm'[s] \subseteq Perms
      /\ \A p \in DOMAIN perm'[s] : perm'[s][p] \in With(permissions', p)
      /\ default'[s] \in {0} \cup Ids(roles')
  BY <1>0 DEF ServerOK, TablesGrow
<1>8. CASE Len(todo[s]) > 1
  <2>1. pc'[s] = "findRole" /\ todo'[s] = Tail(todo[s])
    BY <1>0, <1>8 DEF ShapeOK, GotRole, Goto
  <2>2. Queued(s)'
    BY <1>2, <1>3, <1>5, <1>8, <2>1 DEF Queued
  <2>3. ServerOK(s)'
    BY <1>6, <1>7, <2>2 DEF ServerOK
  <2>4. QED
    BY <1>1, <2>3, OthersKept
<1>9. CASE ~(Len(todo[s]) > 1)
  <2>1. pc'[s] = "append" /\ sync'[s] = RoleNames
    BY <1>0, <1>9 DEF ShapeOK, GotRole, Goto, RoleNames
  <2>2. Elems(todo[s]) = {n}
    BY <1>3, <1>9
  <2>3. RoleNames \subseteq DOMAIN role'[s] /\ sync'[s] # {}
    BY <1>2, <1>3, <1>5, <2>1, <2>2 DEF RoleNames
  <2>4. Queued(s)'
    BY <1>2, <2>1, <2>3 DEF Queued
  <2>5. ServerOK(s)'
    BY <1>6, <1>7, <2>4 DEF ServerOK
  <2>6. QED
    BY <1>1, <2>5, OthersKept
<1>10. QED
  BY <1>8, <1>9

LEMMA FindRoleTypes ==
    ASSUME TInv, NEW s \in Server, FindRole(s)
    PROVE  TInv'
<1> DEFINE found == With(roles, Head(todo[s]))
<1>0. TablesOK /\ ShapeOK /\ ServerOK(s)
  BY TInvParts
<1>1. TablesOK' /\ TablesGrow
  BY <1>0, NoRowsGrow DEF TablesOK, FindRole, tables
<1>2. CASE found # {}
  <2>1. found \subseteq Nat
    BY <1>0, TableKeys DEF TablesOK
  <2>2. FirstOf(found) \in With(roles, Head(todo[s]))
    BY <1>2, <2>1, FirstOfIn
  <2>3. FirstOf(found) \in With(roles', Head(todo[s]))
    BY <1>1, <2>2 DEF TablesGrow
  <2>4. GotRole(s, FirstOf(found)) /\ UNCHANGED <<perm, default>>
    BY <1>2 DEF FindRole
  <2>5. QED
    BY <1>1, <2>3, <2>4, GotRoleTypes DEF FindRole
<1>3. CASE found = {}
  <2>1. Goto(s, "addRole") /\ UNCHANGED <<tables, locals>>
    BY <1>3 DEF FindRole, locals
  <2>2. ShapeOK' /\ Others(s)
    BY <1>0, <2>1 DEF ShapeOK, Goto, Others, locals
  <2>3. pc[s] = "findRole" /\ pc'[s] = "addRole"
    BY <1>0, <2>1 DEF FindRole, ShapeOK, Goto
  <2>4. ServerOK(s)'
    BY <1>0, <2>1, <2>3 DEF ServerOK, Queued, tables, locals
  <2>5. QED
    BY <1>1, <2>2, <2>4, OthersKept
<1>4. QED
  BY <1>2, <1>3

LEMMA AddRoleRow ==
    ASSUME TInv, NEW s \in Server, AddRole(s)
    PROVE  /\ TablesOK' /\ TablesGrow
           /\ Head(todo[s]) \in RoleNames
           /\ Len(roles') \in With(roles', Head(todo[s]))
           /\ Ids(roles') = Ids(roles) \cup {Len(roles')}
<1>0. TablesOK /\ Queued(s)
  BY TInvParts DEF ServerOK
<1>1. Head(todo[s]) \in RoleNames
  BY <1>0, HeadAndTail DEF AddRole, Queued
<1>2. /\ roles' \in Seq(RoleNames)
      /\ Len(roles') = Len(roles) + 1
      /\ Ids(roles') = Ids(roles) \cup {Len(roles) + 1}
      /\ \A x : With(roles, x) \subseteq With(roles', x)
      /\ Len(roles) + 1 \in With(roles', Head(todo[s]))
  BY <1>0, <1>1, AppendRow DEF AddRole, TablesOK
<1>3. TablesOK'
  BY <1>0, <1>2 DEF TablesOK, AddRole
<1>4. QED
  BY <1>1, <1>2, <1>3 DEF TablesGrow, AddRole

LEMMA AddRoleTypes ==
    ASSUME TInv, NEW s \in Server, AddRole(s)
    PROVE  TInv'
BY AddRoleRow, GotRoleTypes DEF AddRole

(* The ids to grant are rows of permissions, the role is a row of roles. *)
LEMMA WantedKnown ==
    ASSUME TInv, NEW s \in Server, pc[s] \in {"append", "prune"},
           NEW t \in sync[s]
    PROVE  /\ t \in RoleNames /\ t \in DOMAIN role[s]
           /\ role[s][t] \in With(roles, t)
           /\ Wanted(t) \subseteq Perms /\ Wanted(t) \subseteq DOMAIN perm[s]
           /\ \A p \in Wanted(t) : perm[s][p] \in With(permissions, p)
           /\ WantedIds(s, t) \subseteq Ids(permissions)
<1>0. ShapeOK /\ ServerOK(s)
  BY TInvParts
<1>1. t \in RoleNames /\ RoleNames \subseteq DOMAIN role[s]
      /\ Perms \subseteq DOMAIN perm[s]
  BY <1>0 DEF ShapeOK, ServerOK, Queued
<1>2. Wanted(t) \subseteq Perms
  BY SeedAssumption DEF Wanted
<1>3. \A p \in Wanted(t) : perm[s][p] \in With(permissions, p)
  BY <1>0, <1>1, <1>2 DEF ServerOK
<1>4. WantedIds(s, t) \subseteq Ids(permissions)
  BY <1>3 DEF WantedIds, With
<1>5. QED
  BY <1>0, <1>1, <1>2, <1>3, <1>4 DEF ServerOK

LEMMA AppendGrantsTypes ==
    ASSUME TInv, NEW s \in Server, AppendGrants(s)
    PROVE  TInv'
<1>0. TablesOK /\ ShapeOK /\ ServerOK(s)
  BY TInvParts
<1>1. PICK t \in sync[s] :
          /\ grants' = grants \cup ({role[s][t]} \X WantedIds(s, t))
          /\ todo' = [todo EXCEPT ![s] = <<t>>]
  BY DEF AppendGrants
<1>2. /\ pc[s] = "append" /\ pc' = [pc EXCEPT ![s] = "prune"]
      /\ UNCHANGED <<permissions, roles, perm, role, sync, default, byHand>>
  BY DEF AppendGrants, Goto
<1>3. /\ role[s][t] \in Ids(roles)
      /\ WantedIds(s, t) \subseteq Ids(permissions)
  BY <1>2, WantedKnown DEF With
<1>4. TablesOK' /\ TablesGrow
  BY <1>0, <1>1, <1>2, <1>3, NoRowsGrow DEF TablesOK, Ids
<1>5. ShapeOK' /\ Others(s)
  BY <1>0, <1>1, <1>2 DEF ShapeOK, Others
<1>6. pc'[s] = "prune" /\ todo'[s] = <<t>> /\ Head(<<t>>) = t
  BY <1>0, <1>1, <1>2 DEF ShapeOK
<1>7. Queued(s)'
  BY <1>0, <1>2, <1>6 DEF ServerOK, Queued
<1>8. ServerOK(s)'
  BY <1>0, <1>2, <1>7 DEF ServerOK, With, Ids
<1>9. QED
  BY <1>4, <1>5, <1>8, OthersKept

LEMMA PruneGrantsTypes ==
    ASSUME TInv, NEW s \in Server, PruneGrants(s)
    PROVE  TInv'
<1>0. TablesOK /\ ShapeOK /\ ServerOK(s)
  BY TInvParts
<1> DEFINE t == Head(todo[s])
<1>1. /\ pc[s] = "prune"
      /\ grants' \subseteq grants /\ byHand' \subseteq byHand
      /\ sync' = [sync EXCEPT ![s] = @ \ {t}]
      /\ pc' = [pc EXCEPT ![s] = IF sync[s] = {t} THEN "default" ELSE "append"]
      /\ todo' = [todo EXCEPT ![s] = <<>>]
      /\ UNCHANGED <<permissions, roles, perm, role, default>>
  BY DEF PruneGrants, Goto
<1> HIDE DEF t
<1>2. TablesOK' /\ TablesGrow
  BY <1>0, <1>1, NoRowsGrow DEF TablesOK, Ids
<1>3. ShapeOK' /\ Others(s)
  BY <1>0, <1>1 DEF ShapeOK, Others
<1>4. Queued(s)'
  BY <1>0, <1>1 DEF ShapeOK, ServerOK, Queued
<1>5. ServerOK(s)'
  BY <1>0, <1>1, <1>4 DEF ServerOK, With, Ids
<1>6. QED
  BY <1>2, <1>3, <1>5, OthersKept

LEMMA FindDefaultRoleTypes ==
    ASSUME TInv, NEW s \in Server, FindDefaultRole(s)
    PROVE  TInv'
<1>0. TablesOK /\ ShapeOK /\ ServerOK(s)
  BY TInvParts
<1> DEFINE found == With(roles, DefaultRoleTitle)
<1>1. /\ UNCHANGED <<tables, todo, sync, byHand>>
      /\ perm' = [perm EXCEPT ![s] = None] /\ role' = [role EXCEPT ![s] = None]
  BY DEF FindDefaultRole
<1>2. TablesOK' /\ TablesGrow
  BY <1>0, <1>1, NoRowsGrow DEF TablesOK, tables
<1>3. ShapeOK' /\ Others(s) /\ pc'[s] \in {"serving", "down"}
  BY <1>0 DEF ShapeOK, Others, FindDefaultRole, Goto
<1>4. Queued(s)'
  BY <1>3 DEF Queued
<1>5. default'[s] \in {0} \cup Ids(roles)
  <2>1. found \subseteq Ids(roles) /\ found \subseteq Nat
    BY <1>0, TableKeys DEF TablesOK
  <2>2. found # {} => FirstOf(found) \in Ids(roles)
    BY <2>1, FirstOfIn
  <2>3. QED
    BY <1>0, <2>2 DEF FindDefaultRole, ShapeOK, ServerOK
<1>6. perm'[s] = <<>> /\ role'[s] = <<>> /\ DOMAIN <<>> = {}
  BY <1>0, <1>1 DEF ShapeOK, None
<1>7. ServerOK(s)'
  BY <1>1, <1>4, <1>5, <1>6 DEF ServerOK, tables
<1>8. QED
  BY <1>2, <1>3, <1>7, OthersKept

LEMMA DieTypes ==
    ASSUME TInv, NEW s \in Server, Die(s)
    PROVE  TInv'
<1>0. TablesOK /\ ShapeOK
  BY TInvParts
<1>1. UNCHANGED <<permissions, roles, grants, byHand>>
  BY DEF Die, tables
<1>2. TablesOK' /\ TablesGrow
  BY <1>0, <1>1, NoRowsGrow DEF TablesOK
<1>3. ShapeOK' /\ Others(s) /\ pc'[s] = "down"
  BY <1>0 DEF ShapeOK, Others, Die, Goto
<1>4. perm'[s] = <<>> /\ role'[s] = <<>> /\ DOMAIN <<>> = {} /\ default'[s] = 0
  BY <1>0 DEF ShapeOK, Die, None
<1>5. Queued(s)'
  BY <1>3 DEF Queued
<1>6. ServerOK(s)'
  BY <1>4, <1>5 DEF ServerOK
<1>7. QED
  BY <1>2, <1>3, <1>6, OthersKept

LEMMA GrantByHandTypes ==
    ASSUME TInv, GrantByHand
    PROVE  TInv'
<1>0. TablesOK /\ ShapeOK /\ \A s \in Server : ServerOK(s)
  BY TInvParts
<1>1. UNCHANGED <<permissions, roles, pc, todo, perm, role, sync, default>>
  BY DEF GrantByHand, locals
<1>2. TypeOK'
  BY <1>0, <1>1
     DEF GrantByHand, TypeOK, TablesOK, ShapeOK, ServerOK, RoleNames, With, Ids
<1>3. \A s \in Server : Queued(s)'
  BY <1>0, <1>1 DEF ServerOK, Queued
<1>4. QED
  BY <1>0, <1>1, <1>2, <1>3 DEF TInv, ShapeOK

LEMMA StutterTypes ==
    ASSUME TInv, UNCHANGED vars
    PROVE  TInv'
<1>1. \A s \in Server : Queued(s)'
  BY DEF TInv, Queued, vars, locals
<1>2. QED
  BY <1>1 DEF TInv, TypeOK, With, Ids, vars, tables, locals

LEMMA InitTypes == Init => TInv
<1> SUFFICES ASSUME Init PROVE TInv
  OBVIOUS
<1>1. permissions \in Seq(Perms) /\ roles \in Seq(RoleNames)
  BY EmptySeq DEF Init
<1>2. \A s \in Server : Queued(s)
  BY DEF Init, Queued
<1>3. QED
  BY <1>1, <1>2 DEF Init, TInv, TypeOK, None, RoleNames

LEMMA StepTypes == TInv /\ [Next]_vars => TInv'
<1> SUFFICES ASSUME TInv, [Next]_vars PROVE TInv'
  OBVIOUS
<1>1. ASSUME NEW s \in Server, Step(s) PROVE TInv'
  BY <1>1, StartTypes, FindPermTypes, AddPermTypes, FindRoleTypes, AddRoleTypes,
     AppendGrantsTypes, PruneGrantsTypes, FindDefaultRoleTypes DEF Step
<1>2. ASSUME NEW s \in Server, Die(s) PROVE TInv'
  BY <1>2, DieTypes
<1>3. CASE GrantByHand
  BY <1>3, GrantByHandTypes
<1>4. CASE UNCHANGED vars
  BY <1>4, StutterTypes
<1>5. QED
  BY <1>1, <1>2, <1>3, <1>4 DEF Next

LEMMA AlwaysTyped == Spec => []TInv
BY InitTypes, StepTypes, PTL DEF Spec

(* The rows that a server holds, grants or was given as its default exist, *)
(* also when servers boot together or after one has died half way.         *)
THEOREM TypeCorrect == Spec => []TypeOK
<1>1. TInv => TypeOK
  BY DEF TInv
<1>2. QED
  BY <1>1, AlwaysTyped, PTL

-----------------------------------------------------------------------------
(***************************************************************************)
(* SInv is inductive, if no two servers boot together on an empty database.*)
(***************************************************************************)
LEMMA TitlesAre ==
    /\ Ids(Titles) = {1, 2} /\ Titles[1] = "admin" /\ Titles[2] = "user"
    /\ \A t \in RoleNames : \E i \in Ids(Titles) : Titles[i] = t
<1>1. Len(Titles) = 2 /\ Titles[1] = "admin" /\ Titles[2] = "user"
  BY DEF Titles
<1>2. QED
  BY <1>1 DEF Ids, RoleNames

(* Without doubled rows a name has one id, whoever looked it up. *)
LEMMA OneRow ==
    ASSUME NoDuplicates
    PROVE  /\ \A n : \A i, j \in With(permissions, n) : i = j
           /\ \A n : \A i, j \in With(roles, n) : i = j
BY DEF NoDuplicates, With

(* Every coded grant there is stays. *)
KeepsCoded ==
    \A g \in grants : permissions[g[2]] \in Wanted(roles[g[1]]) => g \in grants'

LEMMA GrantedStays ==
    ASSUME TInv, UNCHANGED <<permissions, roles>>, KeepsCoded
    PROVE  \A t : Granted(t) => Granted(t)'
<1> SUFFICES ASSUME NEW t, Granted(t),
                    NEW r \in With(roles, t), NEW i \in Ids(permissions),
                    permissions[i] \in Wanted(t)
             PROVE  <<r, i>> \in grants'
  BY DEF Granted, With, Ids, Wanted
<1>1. <<r, i>> \in grants /\ roles[r] = t
  BY DEF Granted, With
<1>2. <<r, i>>[1] = r /\ <<r, i>>[2] = i
  OBVIOUS
<1>3. QED
  BY <1>1, <1>2 DEF KeepsCoded

(* A statement of s that inserts no row leaves the other servers' part. *)
LEMMA OthersSafe ==
    ASSUME TInv, SInv, NEW s \in Server, UNCHANGED <<permissions, roles>>,
           KeepsCoded, Others(s), Alone', OnlyCoded', Seeding(s)'
    PROVE  SInv'
<1>1. ASSUME NEW q \in Server \ {s} PROVE Seeding(q)'
  <2>1. Seeding(q) /\ pc'[q] = pc[q] /\ todo'[q] = todo[q] /\ sync'[q] = sync[q]
    BY DEF SInv, Others
  <2>2. \A t : Granted(t) => Granted(t)'
    BY GrantedStays
  <2>3. Populated => Populated'
    BY DEF Populated, With, Ids
  <2>4. QED
    BY <2>1, <2>2, <2>3 DEF Seeding, With, Ids
<1>2. NoDuplicates'
  BY DEF SInv, NoDuplicates, Ids
<1>3. QED
  BY <1>1, <1>2 DEF SInv

LEMMA AloneStays ==
    ASSUME TInv, Alone, NEW s \in Server, pc[s] # "down",
           UNCHANGED <<permissions, roles>>, Others(s)
    PROVE  Alone'
<1>1. Populated => Populated'
  BY DEF Populated, With, Ids
<1>2. \A q \in Server : pc'[q] # "down" => pc[q] # "down"
  BY DEF Others
<1>3. QED
  BY <1>1, <1>2 DEF Alone

LEMMA StartSafe ==
    ASSUME ~Together, TInv, SInv, NEW s \in Server, Start(s)
    PROVE  SInv'
<1>0. ShapeOK
  BY TInvParts
<1>1. /\ UNCHANGED <<permissions, roles, grants, byHand>>
      /\ pc'[s] = "findPerm" /\ Others(s)
  BY <1>0 DEF ShapeOK, Start, Goto, tables, Others
<1>2. Alone'
  <2>1. Populated \/ \A q \in Server : pc[q] = "down"
    BY DEF Start
  <2>2. Populated => Populated'
    BY <1>1 DEF Populated, With, Ids
  <2>3. QED
    BY <1>1, <2>1, <2>2 DEF Alone, Others
<1>3. KeepsCoded /\ OnlyCoded' /\ Seeding(s)'
  BY <1>1 DEF KeepsCoded, SInv, OnlyCoded, Seeding, Wanted
<1>4. QED
  BY <1>1, <1>2, <1>3, OthersSafe

(* SELECT, for a permission and for a role. *)
LEMMA FindSafe ==
    ASSUME TInv, SInv, TInv', NEW s \in Server, FindPerm(s) \/ FindRole(s)
    PROVE  SInv'
<1>0. ShapeOK /\ ServerOK(s)' /\ Queued(s)'
  BY TInvParts DEF TInv, TypeOK, ServerOK, RoleNames
<1>1. /\ UNCHANGED <<permissions, roles, grants, byHand>> /\ pc[s] # "down"
      /\ Others(s)
  BY <1>0 DEF ShapeOK, FindPerm, FindRole, GotPerm, GotRole, Goto, tables, Others
<1>2. Alone'
  BY <1>1, AloneStays DEF SInv
<1>3. KeepsCoded /\ OnlyCoded'
  BY <1>1 DEF KeepsCoded, SInv, OnlyCoded, Wanted
<1>4. Seeding(s)'
  <2>1. CASE pc'[s] = "addPerm"
    BY <1>0, <2>1 DEF FindPerm, FindRole, GotPerm, GotRole, Goto, ShapeOK, Seeding,
                      tables
  <2>2. CASE pc'[s] = "addRole"
    BY <1>0, <2>2 DEF FindPerm, FindRole, GotPerm, GotRole, Goto, ShapeOK, Seeding,
                      tables
  <2>3. CASE pc'[s] = "append"
    <3>1. sync'[s] = RoleNames
      BY <1>0, <2>3 DEF FindPerm, FindRole, GotPerm, GotRole, Goto, ShapeOK,
                        RoleNames
    <3>2. Populated'
      BY <1>0, <2>3, TitlesAre DEF ServerOK, Queued, Populated, RoleNames
    <3>3. QED
      BY <2>3, <3>1, <3>2 DEF Seeding
  <2>4. CASE pc'[s] \in {"findPerm", "findRole"}
    BY <2>4 DEF Seeding
  <2>5. pc'[s] \in {"addPerm", "addRole", "append", "findPerm", "findRole"}
    BY <1>0 DEF FindPerm, FindRole, GotPerm, GotRole, Goto, ShapeOK
  <2>6. QED
    BY <2>1, <2>2, <2>3, <2>4, <2>5
<1>5. QED
  BY <1>1, <1>2, <1>3, <1>4, OthersSafe

(* Who inserts is alone: nobody else counts on the tables as they are. *)
LEMMA InserterAlone ==
    ASSUME TInv, SInv, NEW s \in Server, pc[s] \in {"addPerm", "addRole"}
    PROVE  ~Populated /\ \A q \in Server \ {s} : pc[q] = "down"
<1>0. ServerOK(s) /\ Seeding(s)
  BY TInvParts DEF SInv
<1>1. CASE pc[s] = "addPerm"
  <2>1. Head(todo[s]) \in Perms
    BY <1>0, <1>1, HeadAndTail DEF ServerOK, Queued
  <2>2. ~Populated
    BY <1>0, <1>1, <2>1 DEF Seeding, Populated
  <2>3. QED
    BY <1>1, <2>2 DEF SInv, Alone
<1>2. CASE pc[s] = "addRole"
  <2>1. Head(todo[s]) \in RoleNames
    BY <1>0, <1>2, HeadAndTail DEF ServerOK, Queued
  <2>2. ~Populated
    BY <1>0, <1>2, <2>1, TitlesAre DEF Seeding, Populated
  <2>3. QED
    BY <1>2, <2>2 DEF SInv, Alone
<1>3. QED
  BY <1>1, <1>2

LEMMA RowsStay ==
    ASSUME TablesGrow
    PROVE  /\ \A i \in Ids(permissions) : permissions'[i] = permissions[i]
           /\ \A i \in Ids(roles) : roles'[i] = roles[i]
<1>1. \A i \in Ids(permissions) : i \in With(permissions', permissions[i])
  BY DEF TablesGrow, With
<1>2. \A i \in Ids(roles) : i \in With(roles', roles[i])
  BY DEF TablesGrow, With
<1>3. QED
  BY <1>1, <1>2 DEF With

LEMMA AddPermSafe ==
    ASSUME TInv, SInv, TInv', NEW s \in Server, AddPerm(s)
    PROVE  SInv'
<1>0. TablesOK /\ ShapeOK /\ ServerOK(s)
  BY TInvParts
<1>1. /\ pc[s] = "addPerm" /\ permissions' = Append(permissions, Head(todo[s]))
      /\ UNCHANGED <<roles, grants, byHand>>
      /\ pc'[s] \in {"findPerm", "findRole"} /\ Others(s)
  BY <1>0 DEF ShapeOK, AddPerm, GotPerm, Goto, Others
<1>2. \A q \in Server \ {s} : pc'[q] = "down"
  BY <1>1, InserterAlone DEF Others
<1>3. \A q \in Server : Seeding(q)'
  BY <1>1, <1>2 DEF Seeding
<1>4. Alone'
  BY <1>2 DEF Alone
<1>5. Head(todo[s]) \in Perms
  BY <1>0, <1>1, HeadAndTail DEF ServerOK, Queued
<1>6. OnlyCoded'
  <2>1. \A i \in Ids(permissions) : permissions'[i] = permissions[i]
    BY AddPermRow, RowsStay
  <2>2. \A g \in grants : g[2] \in Ids(permissions)
    BY <1>0 DEF TablesOK
  <2>3. QED
    BY <1>1, <2>1, <2>2 DEF SInv, OnlyCoded, Wanted
<1>7. NoDuplicates'
  <2>1. With(permissions, Head(todo[s])) = {}
    BY <1>1 DEF SInv, Seeding
  <2>2. \A i, j \in Ids(permissions) : permissions[i] = permissions[j] => i = j
    BY DEF SInv, NoDuplicates
  <2>3. \A i, j \in Ids(permissions') : permissions'[i] = permissions'[j] => i = j
    <3>1. /\ Ids(permissions') = Ids(permissions) \cup {Len(permissions')}
          /\ permissions'[Len(permissions')] = Head(todo[s])
      BY AddPermRow DEF With
    <3>2. \A i \in Ids(permissions) : /\ permissions'[i] = permissions[i]
                                  /\ permissions[i] # Head(todo[s])
      BY <2>1, AddPermRow, RowsStay DEF With
    <3>3. QED
      BY <2>2, <3>1, <3>2
  <2>4. \A i, j \in Ids(roles') : roles'[i] = roles'[j] => i = j
    BY <1>1 DEF SInv, NoDuplicates, Ids
  <2>5. QED
    BY <2>3, <2>4 DEF NoDuplicates
<1>8. QED
  BY <1>3, <1>4, <1>6, <1>7 DEF SInv

LEMMA AddRoleSafe ==
    ASSUME TInv, SInv, TInv', NEW s \in Server, AddRole(s)
    PROVE  SInv'
<1>0. TablesOK /\ ShapeOK /\ ServerOK(s) /\ ServerOK(s)' /\ Queued(s)'
  BY TInvParts DEF TInv, TypeOK, ServerOK, RoleNames
<1>1. /\ pc[s] = "addRole" /\ roles' = Append(roles, Head(todo[s]))
      /\ UNCHANGED <<permissions, grants, byHand>>
      /\ pc'[s] \in {"findRole", "append"} /\ Others(s)
      /\ pc'[s] = "append" => sync'[s] = RoleNames
  BY <1>0 DEF ShapeOK, AddRole, GotRole, Goto, Others, RoleNames
<1>2. \A q \in Server \ {s} : pc'[q] = "down"
  BY <1>1, InserterAlone DEF Others
<1>3. pc'[s] = "append" => Populated'
  BY <1>0, TitlesAre DEF ServerOK, Queued, Populated, RoleNames
<1>4. \A q \in Server : Seeding(q)'
  BY <1>1, <1>2, <1>3 DEF Seeding
<1>5. Alone'
  BY <1>2 DEF Alone
<1>6. Head(todo[s]) \in RoleNames
  BY <1>0, <1>1, HeadAndTail DEF ServerOK, Queued
<1>7. OnlyCoded'
  <2>1. \A i \in Ids(roles) : roles'[i] = roles[i]
    BY AddRoleRow, RowsStay
  <2>2. \A g \in grants : g[1] \in Ids(roles)
    BY <1>0 DEF TablesOK
  <2>3. QED
    BY <1>1, <2>1, <2>2 DEF SInv, OnlyCoded, Wanted
<1>8. NoDuplicates'
  <2>1. With(roles, Head(todo[s])) = {}
    BY <1>1 DEF SInv, Seeding
  <2>2. \A i, j \in Ids(roles) : roles[i] = roles[j] => i = j
    BY DEF SInv, NoDuplicates
  <2>3. \A i, j \in Ids(roles') : roles'[i] = roles'[j] => i = j
    <3>1. /\ Ids(roles') = Ids(roles) \cup {Len(roles')}
          /\ roles'[Len(roles')] = Head(todo[s])
      BY AddRoleRow DEF With
    <3>2. \A i \in Ids(roles) : /\ roles'[i] = roles[i]
                                  /\ roles[i] # Head(todo[s])
      BY <2>1, AddRoleRow, RowsStay DEF With
    <3>3. QED
      BY <2>2, <3>1, <3>2
  <2>4. \A i, j \in Ids(permissions') : permissions'[i] = permissions'[j] => i = j
    BY <1>1 DEF SInv, NoDuplicates, Ids
  <2>5. QED
    BY <2>3, <2>4 DEF NoDuplicates
<1>9. QED
  BY <1>4, <1>5, <1>7, <1>8 DEF SInv

(* Association.Append adds what is coded, and under the role's only row    *)
(* everything that is coded.                                               *)
LEMMA AppendGrantsSafe ==
    ASSUME TInv, SInv, NEW s \in Server, AppendGrants(s)
    PROVE  SInv'
<1>0. TablesOK /\ ShapeOK /\ ServerOK(s) /\ Seeding(s)
  BY TInvParts DEF SInv
<1>1. PICK t \in sync[s] :
          /\ grants' = grants \cup ({role[s][t]} \X WantedIds(s, t))
          /\ todo' = [todo EXCEPT ![s] = <<t>>]
  BY DEF AppendGrants
<1>2. /\ pc[s] = "append" /\ pc' = [pc EXCEPT ![s] = "prune"]
      /\ UNCHANGED <<permissions, roles, perm, role, sync, default, byHand>>
  BY DEF AppendGrants, Goto
<1>3. /\ t \in RoleNames /\ role[s][t] \in With(roles, t)
      /\ Wanted(t) \subseteq Perms
      /\ \A p \in Wanted(t) : perm[s][p] \in With(permissions, p)
  BY <1>2, WantedKnown
<1>4. Others(s)
  BY <1>0, <1>1, <1>2 DEF ShapeOK, Others
<1>5. KeepsCoded
  BY <1>1 DEF KeepsCoded
<1>6. Alone'
  BY <1>2, <1>4, AloneStays DEF SInv
<1>7. OnlyCoded'
  <2> SUFFICES ASSUME NEW g \in grants' \ byHand
               PROVE  permissions[g[2]] \in Wanted(roles[g[1]])
    BY <1>2 DEF OnlyCoded, Wanted
  <2>1. CASE g \in grants
    BY <2>1 DEF SInv, OnlyCoded
  <2>2. CASE g \notin grants
    <3>1. PICK p \in Wanted(t) : g = <<role[s][t], perm[s][p]>>
      BY <1>1, <2>2 DEF WantedIds
    <3>2. roles[g[1]] = t /\ permissions[g[2]] = p
      BY <1>3, <3>1 DEF With
    <3>3. QED
      BY <3>2
  <2>3. QED
    BY <2>1, <2>2
<1>8. Granted(t)'
  <2> SUFFICES ASSUME NEW r \in With(roles, t), NEW i \in Ids(permissions),
                      permissions[i] \in Wanted(t)
               PROVE  <<r, i>> \in grants'
    BY <1>2 DEF Granted, With, Ids, Wanted
  <2>1. r = role[s][t]
    BY <1>3, OneRow DEF SInv
  <2>2. i \in With(permissions, permissions[i])
    BY DEF With
  <2>3. i = perm[s][permissions[i]]
    BY <1>3, <2>2, OneRow DEF SInv
  <2>4. QED
    BY <1>1, <2>1, <2>3 DEF WantedIds
<1>9. Seeding(s)'
  <2>1. pc'[s] = "prune" /\ Head(todo'[s]) = t /\ sync'[s] = sync[s]
    BY <1>0, <1>1, <1>2 DEF ShapeOK
  <2>2. Populated'
    BY <1>0, <1>2 DEF Seeding, Populated, With, Ids
  <2>3. \A x \in RoleNames \ sync'[s] : Granted(x)'
    BY <1>0, <1>2, <1>5, <2>1, GrantedStays DEF Seeding
  <2>4. QED
    BY <1>8, <2>1, <2>2, <2>3 DEF Seeding
<1>10. QED
  BY <1>2, <1>4, <1>5, <1>6, <1>7, <1>9, OthersSafe

(* The ids that s holds are the ids of the names it wants: what it prunes  *)
(* is not coded, for any role.                                             *)
LEMMA PruneKeepsCoded ==
    ASSUME TInv, SInv, NEW s \in Server, PruneGrants(s)
    PROVE  KeepsCoded
<1>0. TablesOK /\ ShapeOK /\ ServerOK(s)
  BY TInvParts
<1> DEFINE t == Head(todo[s])
<1>1. pc[s] = "prune" /\ t \in sync[s]
  BY <1>0 DEF PruneGrants, ServerOK, Queued
<1>2. /\ role[s][t] \in With(roles, t) /\ Wanted(t) \subseteq Perms
      /\ \A p \in Wanted(t) : perm[s][p] \in With(permissions, p)
  BY <1>1, WantedKnown
<1>3. grants' = {g \in grants : g[1] = role[s][t] => g[2] \in WantedIds(s, t)}
  BY DEF PruneGrants
<1> HIDE DEF t
<1>4. ASSUME NEW g \in grants, permissions[g[2]] \in Wanted(roles[g[1]]),
             g[1] = role[s][t]
      PROVE  g[2] \in WantedIds(s, t)
  <2>1. roles[g[1]] = t
    BY <1>2, <1>4 DEF With
  <2>2. g[2] \in Ids(permissions)
    BY <1>0 DEF TablesOK
  <2>3. g[2] \in With(permissions, permissions[g[2]])
    BY <2>2 DEF With
  <2>4. g[2] = perm[s][permissions[g[2]]]
    BY <1>2, <1>4, <2>1, <2>3, OneRow DEF SInv
  <2>5. QED
    BY <1>4, <2>1, <2>4 DEF WantedIds
<1>5. QED
  BY <1>3, <1>4 DEF KeepsCoded

LEMMA PruneGrantsSafe ==
    ASSUME TInv, SInv, NEW s \in Server, PruneGrants(s)
    PROVE  SInv'
<1>0. TablesOK /\ ShapeOK /\ ServerOK(s) /\ Seeding(s)
  BY TInvParts DEF SInv
<1> DEFINE t == Head(todo[s])
<1>1. /\ pc[s] = "prune"
      /\ grants' \subseteq grants /\ byHand' = byHand \cap grants'
      /\ sync' = [sync EXCEPT ![s] = @ \ {t}]
      /\ pc' = [pc EXCEPT ![s] = IF sync[s] = {t} THEN "default" ELSE "append"]
      /\ todo' = [todo EXCEPT ![s] = <<>>]
      /\ UNCHANGED <<permissions, roles, perm, role, default>>
  BY DEF PruneGrants, Goto
<1>2. Granted(t)
  BY <1>0, <1>1 DEF Seeding
<1> HIDE DEF t
<1>3. KeepsCoded
  BY PruneKeepsCoded
<1>4. Others(s)
  BY <1>0, <1>1 DEF ShapeOK, Others
<1>5. Alone'
  BY <1>1, <1>4, AloneStays DEF SInv
<1>6. OnlyCoded'
  BY <1>1 DEF SInv, OnlyCoded, Wanted
<1>7. Seeding(s)'
  <2>1. /\ sync'[s] = sync[s] \ {t} /\ pc'[s] \in {"default", "append"}
        /\ pc'[s] = "default" => sync'[s] = {}
    BY <1>0, <1>1 DEF ShapeOK
  <2>2. Populated'
    BY <1>0, <1>1 DEF Seeding, Populated, With, Ids
  <2>3. \A x \in RoleNames \ sync'[s] : Granted(x)
    BY <1>0, <1>1, <1>2, <2>1 DEF Seeding
  <2>4. \A x \in RoleNames \ sync'[s] : Granted(x)'
    BY <1>1, <1>3, <2>3, GrantedStays
  <2>5. QED
    BY <2>1, <2>2, <2>4 DEF Seeding
<1>8. QED
  BY <1>1, <1>3, <1>4, <1>5, <1>6, <1>7, OthersSafe

LEMMA FindDefaultRoleSafe ==
    ASSUME TInv, SInv, NEW s \in Server, FindDefaultRole(s)
    PROVE  SInv'
<1>0. ShapeOK /\ Seeding(s)
  BY TInvParts DEF SInv
<1>1. /\ UNCHANGED <<permissions, roles, grants, byHand, sync>>
      /\ pc[s] = "default" /\ pc'[s] \in {"serving", "down"} /\ Others(s)
  BY <1>0 DEF ShapeOK, FindDefaultRole, Goto, tables, Others
<1>2. KeepsCoded /\ OnlyCoded'
  BY <1>1 DEF KeepsCoded, SInv, OnlyCoded, Wanted
<1>3. Alone'
  BY <1>1, AloneStays DEF SInv
<1>4. Seeding(s)'
  <2>1. Populated'
    BY <1>0, <1>1 DEF Seeding, Populated, With, Ids
  <2>2. \A x \in RoleNames \ sync'[s] : Granted(x)'
    BY <1>0, <1>1, <1>2, GrantedStays DEF Seeding
  <2>3. QED
    BY <1>0, <1>1, <2>1, <2>2 DEF Seeding
<1>5. QED
  BY <1>1, <1>2, <1>3, <1>4, OthersSafe

LEMMA DieSafe ==
    ASSUME TInv, SInv, NEW s \in Server, Die(s)
    PROVE  SInv'
<1>0. ShapeOK
  BY TInvParts
<1>1. /\ UNCHANGED <<permissions, roles, grants, byHand>>
      /\ pc[s] # "down" /\ pc'[s] = "down" /\ Others(s)
  BY <1>0 DEF ShapeOK, Die, Goto, tables, Others
<1>2. KeepsCoded /\ OnlyCoded' /\ Seeding(s)'
  BY <1>1 DEF KeepsCoded, SInv, OnlyCoded, Wanted, Seeding
<1>3. Alone'
  BY <1>1, AloneStays DEF SInv
<1>4. QED
  BY <1>1, <1>2, <1>3, OthersSafe

LEMMA GrantByHandSafe ==
    ASSUME TInv, SInv, GrantByHand
    PROVE  SInv'
<1>1. PICK g : grants' = grants \cup {g} /\ byHand' = byHand \cup {g}
  BY DEF GrantByHand
<1>2. UNCHANGED <<permissions, roles, pc, todo, sync>>
  BY DEF GrantByHand, locals
<1>3. KeepsCoded
  BY <1>1 DEF KeepsCoded
<1>4. (Populated => Populated') /\ (Populated' => Populated)
  BY <1>2 DEF Populated, With, Ids
<1>5. NoDuplicates' /\ Alone' /\ OnlyCoded'
  BY <1>1, <1>2, <1>4 DEF SInv, NoDuplicates, Alone, OnlyCoded, Wanted, Ids
<1>6. ASSUME NEW s \in Server PROVE Seeding(s)'
  <2>1. \A t : Granted(t) => Granted(t)'
    BY <1>2, <1>3, GrantedStays
  <2>2. QED
    BY <1>2, <1>4, <2>1 DEF SInv, Seeding, With, Ids
<1>7. QED
  BY <1>5, <1>6 DEF SInv

LEMMA StutterSafe ==
    ASSUME TInv, SInv, UNCHANGED vars
    PROVE  SInv'
<1>1. UNCHANGED <<permissions, roles, grants, byHand, pc, todo, sync>>
  BY DEF vars, tables, locals
<1>2. \A t : Granted(t) => Granted(t)'
  BY <1>1, GrantedStays DEF KeepsCoded
<1>3. (Populated => Populated') /\ (Populated' => Populated)
  BY <1>1 DEF Populated, With, Ids
<1>4. \A s \in Server : Seeding(s)'
  BY <1>1, <1>2, <1>3 DEF SInv, Seeding, With, Ids
<1>5. NoDuplicates' /\ Alone' /\ OnlyCoded'
  BY <1>1, <1>3 DEF SInv, NoDuplicates, Alone, OnlyCoded, Wanted, Ids
<1>6. QED
  BY <1>4, <1>5 DEF SInv

LEMMA InitSafe == Init => SInv
<1> SUFFICES ASSUME Init PROVE SInv
  OBVIOUS
<1>1. permissions = <<>> /\ roles = <<>> /\ Ids(<<>>) = {}
  BY EmptySeq DEF Init, Ids
<1>2. NoDuplicates
  BY <1>1 DEF NoDuplicates
<1>3. Alone /\ OnlyCoded /\ \A s \in Server : Seeding(s)
  BY DEF Init, Alone, OnlyCoded, Seeding
<1>4. QED
  BY <1>2, <1>3 DEF SInv

LEMMA StepSafe ==
    ASSUME ~Together
    PROVE  TInv /\ SInv /\ [Next]_vars => SInv'
<1> SUFFICES ASSUME TInv, SInv, [Next]_vars PROVE SInv'
  OBVIOUS
<1>0. TInv'
  BY StepTypes
<1>1. ASSUME NEW s \in Server, Step(s) PROVE SInv'
  BY <1>0, <1>1, StartSafe, FindSafe, AddPermSafe, AddRoleSafe, AppendGrantsSafe,
     PruneGrantsSafe, FindDefaultRoleSafe DEF Step
<1>2. ASSUME NEW s \in Server, Die(s) PROVE SInv'
  BY <1>2, DieSafe
<1>3. CASE GrantByHand
  BY <1>3, GrantByHandSafe
<1>4. CASE UNCHANGED vars
  BY <1>4, StutterSafe
<1>5. QED
  BY <1>1, <1>2, <1>3, <1>4 DEF Next

LEMMA AlwaysSafe ==
    ASSUME ~Together
    PROVE  Spec => [](TInv /\ SInv)
<1>1. Init => TInv /\ SInv
  BY InitTypes, InitSafe
<1>2. TInv /\ SInv /\ [Next]_vars => (TInv /\ SInv)'
  BY StepTypes, StepSafe
<1>3. QED
  BY <1>1, <1>2, PTL DEF Spec

(* However often a boot died half way and whatever was granted by hand,    *)
(* running Seed again doubles no row - as long as no two servers boot      *)
(* together on an empty database.                                          *)
THEOREM SeedTwiceNoDuplicates ==
    ASSUME ~Together
    PROVE  Spec => []NoDuplicates
<1>1. TInv /\ SInv => NoDuplicates
  BY DEF SInv
<1>2. QED
  BY <1>1, AlwaysSafe, PTL

(* Every row of a seeded title holds what it should. *)
LEMMA RoleAsCoded ==
    ASSUME TInv, SInv, NEW s \in Server, pc[s] \in {"default", "serving"},
           NEW t \in RoleNames, NEW r \in With(roles, t)
    PROVE  HoldsAsCoded(r, t)
<1>1. Populated /\ Granted(t)
  BY DEF SInv, Seeding
<1>2. Wanted(t) \subseteq NamesOf(grants, r)
  <2> SUFFICES ASSUME NEW p \in Wanted(t) PROVE p \in NamesOf(grants, r)
    OBVIOUS
  <2>1. p \in Perms
    BY SeedAssumption DEF Wanted
  <2>2. PICK k \in Ids(permissions) : permissions[k] = p
    BY <1>1, <2>1 DEF Populated, With
  <2>3. <<r, k>> \in grants
    BY <1>1, <2>2 DEF Granted
  <2>4. QED
    BY <2>2, <2>3 DEF NamesOf
<1>3. NamesOf(grants \ byHand, r) \subseteq Wanted(t)
  <2> SUFFICES ASSUME NEW g \in grants \ byHand, g[1] = r
               PROVE  permissions[g[2]] \in Wanted(t)
    BY DEF NamesOf
  <2>1. roles[g[1]] = t
    BY DEF With
  <2>2. QED
    BY <2>1 DEF SInv, OnlyCoded
<1>4. QED
  BY <1>2, <1>3 DEF HoldsAsCoded

LEMMA CodedWhenServing == TInv /\ SInv => ServesAsCoded
<1> SUFFICES ASSUME TInv, SInv,
                    NEW s \in Server, pc[s] \in {"default", "serving"},
                    NEW i \in Ids(Titles)
             PROVE  HoldsAsCoded(FirstOf(With(roles, Titles[i])), Titles[i])
  BY DEF ServesAsCoded
<1>1. Titles[i] \in RoleNames
  BY TitlesAre DEF RoleNames
<1>2. With(roles, Titles[i]) # {} /\ With(roles, Titles[i]) \subseteq Nat
  <2>1. roles \in Seq(RoleNames)
    BY TInvParts DEF TablesOK
  <2>2. Populated
    BY DEF SInv, Seeding
  <2>3. QED
    BY <2>1, <2>2, TableKeys DEF Populated
<1>3. FirstOf(With(roles, Titles[i])) \in With(roles, Titles[i])
  BY <1>2, FirstOfIn
<1>4. QED
  BY <1>1, <1>3, RoleAsCoded

(* A serving server finds in the database, for new users' role and for     *)
(* admins, what the code lists; also after other servers booted and died   *)
(* beside it.                                                              *)
THEOREM ServesCoded ==
    ASSUME ~Together
    PROVE  Spec => []ServesAsCoded
BY CodedWhenServing, AlwaysSafe, PTL

LEMMA StepKeepsCoded == TInv /\ SInv /\ [Next]_vars => KeepsCoded
<1> SUFFICES ASSUME TInv, SInv, [Next]_vars PROVE KeepsCoded
  OBVIOUS
<1>1. ASSUME NEW s \in Server, PruneGrants(s) PROVE KeepsCoded
  BY <1>1, PruneKeepsCoded
<1>2. ASSUME NEW s \in Server,
             \/ Start(s) \/ FindPerm(s) \/ AddPerm(s) \/ FindRole(s)
             \/ AddRole(s) \/ AppendGrants(s) \/ FindDefaultRole(s) \/ Die(s)
      PROVE  KeepsCoded
  BY <1>2 DEF KeepsCoded, Start, FindPerm, AddPerm, FindRole, AddRole,
              AppendGrants, FindDefaultRole, Die, tables
<1>3. CASE GrantByHand
  BY <1>3 DEF KeepsCoded, GrantByHand
<1>4. CASE UNCHANGED vars
  BY <1>4 DEF KeepsCoded, vars, tables
<1>5. QED
  BY <1>1, <1>2, <1>3, <1>4 DEF Next, Step

LEMMA StepGrows == TInv /\ [Next]_vars => TablesGrow
<1> SUFFICES ASSUME TInv, [Next]_vars PROVE TablesGrow
  OBVIOUS
<1>1. ASSUME NEW s \in Server, AddPerm(s) \/ AddRole(s) PROVE TablesGrow
  BY <1>1, AddPermRow, AddRoleRow
<1>2. ASSUME NEW s \in Server,
             \/ Start(s) \/ FindPerm(s) \/ FindRole(s) \/ AppendGrants(s)
             \/ PruneGrants(s) \/ FindDefaultRole(s) \/ Die(s)
      PROVE  TablesGrow
  BY <1>2, NoRowsGrow DEF Start, FindPerm, FindRole, AppendGrants, PruneGrants,
                          FindDefaultRole, Die, tables
<1>3. CASE GrantByHand \/ UNCHANGED vars
  BY <1>3, NoRowsGrow DEF GrantByHand, vars, tables
<1>4. QED
  BY <1>1, <1>2, <1>3 DEF Next, Step

-----------------------------------------------------------------------------
(***************************************************************************)
(* The default role, read once: its key lasts because no row is lost.      *)
(***************************************************************************)
DefaultFound ==
    \A s \in Server : pc[s] = "serving" =>
        default[s] \in With(roles, DefaultRoleTitle)

LEMMA DefaultStays == TInv /\ DefaultFound /\ [Next]_vars => DefaultFound'
<1> SUFFICES ASSUME TInv, DefaultFound, [Next]_vars,
                    NEW s \in Server, pc'[s] = "serving"
             PROVE  default'[s] \in With(roles, DefaultRoleTitle)'
  BY DEF DefaultFound
<1>0. ShapeOK /\ TablesOK /\ TablesGrow
  BY TInvParts, StepGrows
<1>1. ASSUME FindDefaultRole(s)
      PROVE  default'[s] \in With(roles, DefaultRoleTitle)'
  <2> DEFINE found == With(roles, DefaultRoleTitle)
  <2>1. found # {} /\ default'[s] = FirstOf(found)
    BY <1>0, <1>1 DEF FindDefaultRole, Goto, ShapeOK
  <2>2. found \subseteq Nat
    BY <1>0, TableKeys DEF TablesOK
  <2>3. default'[s] \in found
    BY <2>1, <2>2, FirstOfIn
  <2>4. QED
    BY <1>0, <2>3 DEF TablesGrow
<1>2. ASSUME pc[s] = "serving" /\ default'[s] = default[s]
      PROVE  default'[s] \in With(roles, DefaultRoleTitle)'
  BY <1>0, <1>2 DEF DefaultFound, TablesGrow
<1>3. ASSUME NEW q \in Server, Step(q) \/ Die(q), ~FindDefaultRole(s)
      PROVE  pc[s] = "serving" /\ default'[s] = default[s]
  <2>1. CASE Start(q)
    BY <1>0, <2>1 DEF ShapeOK, Start, Goto
  <2>2. CASE FindPerm(q) \/ AddPerm(q)
    BY <1>0, <2>2 DEF ShapeOK, FindPerm, AddPerm, GotPerm, Goto
  <2>3. CASE FindRole(q) \/ AddRole(q)
    BY <1>0, <2>3 DEF ShapeOK, FindRole, AddRole, GotRole, Goto
  <2>4. CASE AppendGrants(q)
    BY <1>0, <2>4 DEF ShapeOK, AppendGrants, Goto
  <2>5. CASE PruneGrants(q)
    BY <1>0, <2>5 DEF ShapeOK, PruneGrants, Goto
  <2>6. CASE FindDefaultRole(q)
    BY <1>0, <1>3, <2>6 DEF ShapeOK, FindDefaultRole, Goto
  <2>7. CASE Die(q)
    BY <1>0, <2>7 DEF ShapeOK, Die, Goto
  <2>8. QED
    BY <1>3, <2>1, <2>2, <2>3, <2>4, <2>5, <2>6, <2>7 DEF Step
<1>4. CASE GrantByHand \/ UNCHANGED vars
  <2>1. UNCHANGED <<pc, default>>
    BY <1>4 DEF GrantByHand, vars, locals
  <2>2. QED
    BY <1>2, <2>1
<1>5. QED
  BY <1>1, <1>2, <1>3, <1>4 DEF Next

(* Who registers at a serving server gets the default role with exactly    *)
(* the permissions that the code lists for it.                             *)
THEOREM NewUsersCoded ==
    ASSUME ~Together
    PROVE  Spec => []NewUsersAsCoded
<1>1. Init => DefaultFound
  BY DEF Init, DefaultFound
<1>2. Spec => []DefaultFound
  BY <1>1, DefaultStays, AlwaysSafe, PTL DEF Spec
<1>3. TInv /\ SInv /\ DefaultFound => NewUsersAsCoded
  <2> SUFFICES ASSUME TInv, SInv, DefaultFound,
                      NEW s \in Server, pc[s] = "serving"
               PROVE  /\ default[s] \in With(roles, DefaultRoleTitle)
                      /\ HoldsAsCoded(default[s], DefaultRoleTitle)
    BY DEF NewUsersAsCoded
  <2>1. default[s] \in With(roles, DefaultRoleTitle)
    BY DEF DefaultFound
  <2>2. DefaultRoleTitle \in RoleNames
    <3>1. roles \in Seq(RoleNames)
      BY TInvParts DEF TablesOK
    <3>2. QED
      BY <2>1, <3>1, TableKeys DEF With
  <2>3. QED
    BY <2>1, <2>2, RoleAsCoded
<1>4. QED
  BY <1>2, <1>3, AlwaysSafe, PTL

(* No statement of a boot, and no death between two of them, takes a coded *)
(* permission from a role.                                                 *)
THEOREM BootNeverRevokes ==
    ASSUME ~Together
    PROVE  Spec => NeverRevokes
<1> DEFINE Kept(r) ==
        NamesOf(grants, r) \cap Wanted(roles[r]) \subseteq NamesOf(grants, r)'
<1>1. TInv /\ SInv /\ [Next]_vars => \A r \in Ids(roles) : Kept(r)
  <2> SUFFICES ASSUME TInv, SInv, [Next]_vars, NEW r \in Ids(roles),
                      NEW g \in grants, g[1] = r,
                      permissions[g[2]] \in Wanted(roles[r])
               PROVE  permissions[g[2]] \in NamesOf(grants, r)'
    BY DEF NamesOf
  <2>1. g \in grants'
    BY StepKeepsCoded DEF KeepsCoded
  <2>2. g[2] \in Ids(permissions)
    BY TInvParts DEF TablesOK
  <2>3. permissions'[g[2]] = permissions[g[2]]
    BY <2>2, StepGrows, RowsStay
  <2>4. QED
    BY <2>1, <2>3 DEF NamesOf
<1>2. QED
  BY <1>1, AlwaysSafe, PTL DEF Spec, NeverRevokes
=============================================================================
