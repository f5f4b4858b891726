------------------------------ MODULE Accounts ------------------------------
(***************************************************************************)
(* Accounts and sessions: Register, Login and Logout of AuthHandler        *)
(* (internal/handler/auth.go) and the Auth middleware in front of every    *)
(* protected route (internal/middleware/auth.go), with the users table,    *)
(* the jwt cookie in each browser, and time.                               *)
(*                                                                         *)
(* Signatures and hashes are perfect: a token is its claims, a hash its    *)
(* password.  No code deletes a user or changes a role yet; both are done  *)
(* at the database, which is what Auth looks out for.                      *)
(***************************************************************************)
EXTENDS Integers

CONSTANTS
    Req,            \* request slots
    Browser,
    UserId, Email, Password, Role,
    DefaultRole,    \* AuthHandler.defaultRoleID
    TTL,            \* cfg.JWTTTL
    MaxTime,        \* bound of the clock
    None

UserRow == [email : Email, password : Password, role : Role, deleted : BOOLEAN]
Token == [user : UserId, role : Role, exp : Int]
Cookie == [token : Token \cup {None}, expires : Int]

Asks ==
    [kind : {"register", "login"}, email : Email, password : Password]
        \cup [kind : {"logout", "protected"}]

Contexts ==
    [by : Browser, ask : Asks, token : Token \cup {None},
     user : UserId \cup {None}, role : Role \cup {None}]

ASSUME AccountsAssumption ==
    /\ DefaultRole \in Role
    /\ TTL \in Int /\ MaxTime \in Nat
    /\ None \notin UserId \cup Role \cup UserRow \cup Token \cup Cookie \cup Contexts

VARIABLES
    users,      \* the table; deleted is gorm.Model's DeletedAt
    now,        \* the clock, of the server and of the browsers
    jar,        \* jar[b]: the jwt cookie of browser b
    pc,         \* pc[r]: what r's handler does next
    ctx,        \* ctx[r]: r's request, the handler's locals and fiber's Locals
    answer,     \* answer[r]: the Set-Cookie header on its way to the browser
    sent,       \* history: sent[b], the credentials b has sent to Login; a
                \* logout leaves only those that were under way beside it
    registered, \* history: the credentials that Register has answered with 201
    window      \* history: window[r], the pairs <<user, role>> of active users
                \* since r came to Auth

vars == <<users, now, jar, pc, ctx, answer, sent, registered, window>>

TypeOK ==
    /\ users \in [UserId -> UserRow \cup {None}]
    /\ now \in 0 .. MaxTime
    /\ jar \in [Browser -> Cookie \cup {None}]
    /\ pc \in [Req -> {"idle", "insert", "find", "compare", "cookie", "logout",
                       "parse", "lookup", "next", "answered"}]
    /\ ctx \in [Req -> Contexts \cup {None}]
    /\ answer \in [Req -> Cookie \cup {None}]
    /\ sent \in [Browser -> SUBSET (Email \X Password)]
    /\ registered \subseteq Email \X Password
    /\ window \in [Req -> SUBSET (UserId \X Role)]

Init ==
    /\ users = [u \in UserId |-> None]
    /\ now = 0
    /\ jar = [b \in Browser |-> None]
    /\ pc = [r \in Req |-> "idle"]
    /\ ctx = [r \in Req |-> None]
    /\ answer = [r \in Req |-> None]
    /\ sent = [b \in Browser |-> {}]
    /\ registered = {}
    /\ window = [r \in Req |-> {}]

-----------------------------------------------------------------------------
Goto(r, step) == pc' = [pc EXCEPT ![r] = step]

(* The answer carries no cookie, so nothing depends on its way back. *)
Finish(r) ==
    /\ Goto(r, "idle")
    /\ ctx' = [ctx EXCEPT ![r] = None]
    /\ window' = [window EXCEPT ![r] = {}]

AnswerCookie(r, cookie) ==
    /\ Goto(r, "answered")
    /\ answer' = [answer EXCEPT ![r] = cookie]
    /\ UNCHANGED <<ctx, window>>

(* gorm's default scope: WHERE deleted_at IS NULL *)
Active(table) == {u \in UserId : table[u] # None /\ ~table[u].deleted}
RolePairs(table) == {<<u, table[u].role>> : u \in Active(table)}

(* The windows of the requests in Auth once users has become `table'. *)
Seen(table) ==
    [r \in Req |-> IF pc[r] \in {"parse", "lookup", "next"}
                   THEN window[r] \cup RolePairs(table)
                   ELSE {}]

(* A browser sends no cookie whose Expires has passed. *)
Sent(b) ==
    IF jar[b] # None /\ now < jar[b].expires THEN jar[b].token ELSE None

FirstStep == [register |-> "insert", login |-> "find", logout |-> "logout",
              protected |-> "parse"]

Receive(r) ==
    /\ pc[r] = "idle"
    /\ \E b \in Browser, ask \in Asks :
        LET guarded == ask.kind = "protected" IN
        /\ ctx' = [ctx EXCEPT ![r] =
              [by |-> b, ask |-> ask, user |-> None, role |-> None,
               token |-> IF guarded THEN Sent(b) ELSE None]]
        /\ window' = [window EXCEPT ![r] = IF guarded THEN RolePairs(users) ELSE {}]
        /\ sent' = IF ask.kind = "login"
                   THEN [sent EXCEPT ![b] = @ \cup {<<ask.email, ask.password>>}]
                   ELSE sent
        /\ Goto(r, FirstStep[ask.kind])
    /\ UNCHANGED <<users, now, jar, answer, registered>>

(* Bind or the validator refuses the body of a registration or a login. *)
Reject(r) ==
    /\ pc[r] \in {"insert", "find"}
    /\ Finish(r)        \* 400
    /\ UNCHANGED <<users, now, jar, answer, sent, registered>>

-----------------------------------------------------------------------------
(***************************************************************************)
(* Register.  The unique index on email also counts deleted users.         *)
(***************************************************************************)
EmailTaken(email) == \E u \in UserId : users[u] # None /\ users[u].email = email

NewUser(ask) == [email |-> ask.email, password |-> ask.password,
                 role |-> DefaultRole, deleted |-> FALSE]

(* The INSERT commits; then a 201, or a 500 when its acknowledgement is    *)
(* lost.                                                                   *)
InsertUser(r, u) ==
    LET ask == ctx[r].ask IN
    /\ users' = [users EXCEPT ![u] = NewUser(ask)]
    /\ registered' \in {registered,
                        registered \cup {<<ask.email, ask.password>>}}
    /\ Goto(r, "idle")
    /\ ctx' = [ctx EXCEPT ![r] = None]
    /\ window' = Seen(users')

(* Mutant: Save, or an upsert, in place of Create. *)
RegisterSave(r) ==
    /\ pc[r] = "insert"
    /\ \E u \in UserId :
        /\ users[u] = None => ~EmailTaken(ctx[r].ask.email)
        /\ users[u] # None => users[u].email = ctx[r].ask.email
        /\ InsertUser(r, u)
    /\ UNCHANGED <<now, jar, answer, sent>>

Register(r) ==
    /\ pc[r] = "insert"
    /\ \/ /\ EmailTaken(ctx[r].ask.email)
          /\ Finish(r)      \* 409
          /\ UNCHANGED <<users, registered>>
       \/ /\ ~EmailTaken(ctx[r].ask.email)
          /\ \E u \in UserId : users[u] = None /\ InsertUser(r, u)
    /\ UNCHANGED <<now, jar, answer, sent>>

-----------------------------------------------------------------------------
(***************************************************************************)
(* Login and Logout.                                                       *)
(***************************************************************************)
FindUser(r) ==
    /\ pc[r] = "find"
    /\ LET found == {u \in Active(users) : users[u].email = ctx[r].ask.email} IN
       \/ found = {} /\ Finish(r)       \* 401, after a compare with dummyHash
       \/ \E u \in found :
            /\ ctx' = [ctx EXCEPT ![r].user = u, ![r].role = users[u].role]
            /\ Goto(r, "compare") /\ UNCHANGED window
    /\ UNCHANGED <<users, now, jar, answer, sent, registered>>

(* Mutant: the id is left zero. *)
ClaimsAnonymous(r) == [user |-> None, role |-> ctx[r].role, exp |-> now + TTL]

Claims(r) == [user |-> ctx[r].user, role |-> ctx[r].role, exp |-> now + TTL]

Generate(r) ==
    /\ ctx' = [ctx EXCEPT ![r].token = Claims(r)]
    /\ Goto(r, "cookie") /\ UNCHANGED window

(* Hashes never change, so the row is as good as the copy that was read. *)
CompareAndGenerate(r) ==
    /\ pc[r] = "compare"
    /\ IF users[ctx[r].user].password = ctx[r].ask.password
       THEN Generate(r)
       ELSE Finish(r)       \* 401
    /\ UNCHANGED <<users, now, jar, answer, sent, registered>>

(* Mutant: Expires without the Add. *)
SetSessionCookie(r) ==
    /\ pc[r] = "cookie"
    /\ AnswerCookie(r, [token |-> ctx[r].token, expires |-> now])
    /\ UNCHANGED <<users, now, jar, sent, registered>>

(* The second time.Now(): the clock may have gone on. *)
SetCookie(r) ==
    /\ pc[r] = "cookie"
    /\ AnswerCookie(r, [token |-> ctx[r].token, expires |-> now + TTL])
    /\ UNCHANGED <<users, now, jar, sent, registered>>

(* Mutant: a cleared cookie with another path, beside the one in the jar.  *)
LogoutElsewhere(r) ==
    /\ pc[r] = "logout"
    /\ AnswerCookie(r, jar[ctx[r].by])
    /\ UNCHANGED <<users, now, jar, sent, registered>>

Logout(r) ==
    /\ pc[r] = "logout"
    /\ AnswerCookie(r, [token |-> None, expires |-> now - 1])
    /\ UNCHANGED <<users, now, jar, sent, registered>>

-----------------------------------------------------------------------------
(***************************************************************************)
(* Auth, up to c.Next().                                                   *)
(***************************************************************************)
ParseToken(r) ==
    /\ pc[r] = "parse"
    /\ IF ctx[r].token # None /\ now < ctx[r].token.exp
       THEN Goto(r, "lookup") /\ UNCHANGED <<ctx, window>>
       ELSE Finish(r)       \* 401
    /\ UNCHANGED <<users, now, jar, answer, sent, registered>>

Admit(r, u, role) ==
    /\ ctx' = [ctx EXCEPT ![r].user = u, ![r].role = role]
    /\ Goto(r, "next") /\ UNCHANGED window

(* Mutant: the role of the token, not that of the row. *)
TrustClaims(r) ==
    LET claims == ctx[r].token IN
    /\ pc[r] = "lookup"
    /\ IF claims.user \in Active(users)
       THEN Admit(r, claims.user, claims.role)
       ELSE Finish(r)
    /\ UNCHANGED <<users, now, jar, answer, sent, registered>>

LookupUser(r) ==
    LET u == ctx[r].token.user IN
    /\ pc[r] = "lookup"
    /\ IF u \in Active(users)
       THEN Admit(r, u, users[u].role)
       ELSE Finish(r)       \* 401
    /\ UNCHANGED <<users, now, jar, answer, sent, registered>>

(* RequirePermission and the handler, which answer. *)
Serve(r) ==
    /\ pc[r] = "next"
    /\ Finish(r)
    /\ UNCHANGED <<users, now, jar, answer, sent, registered>>

-----------------------------------------------------------------------------
(* A query fails; or, before the INSERT, bcrypt refuses a password of more *)
(* than 72 bytes.                                                          *)
DbError(r) ==
    /\ pc[r] \in {"insert", "find", "lookup"}
    /\ Finish(r)            \* 500
    /\ UNCHANGED <<users, now, jar, answer, sent, registered>>

(* Request q holds the credentials: it is their login, or its token came   *)
(* of one.                                                                 *)
Carries(q, cred) ==
    \/ /\ ctx[q].ask.kind = "login"
       /\ cred = <<ctx[q].ask.email, ctx[q].ask.password>>
    \/ /\ ctx[q].token # None
       /\ LET row == users[ctx[q].token.user] IN cred = <<row.email, row.password>>

UnderWay(b, r) ==
    {cred \in sent[b] : \E q \in Req \ {r} :
        pc[q] # "idle" /\ ctx[q].by = b /\ Carries(q, cred)}

(* The cookie reaches the browser, or gets lost on the way. *)
Deliver(r) ==
    LET b == ctx[r].by IN
    /\ pc[r] = "answered"
    /\ \/ UNCHANGED <<jar, sent>>
       \/ /\ jar' = [jar EXCEPT ![b] = answer[r]]
          /\ sent' = IF ctx[r].ask.kind = "logout"
                     THEN [sent EXCEPT ![b] = UnderWay(b, r)] ELSE sent
    /\ answer' = [answer EXCEPT ![r] = None]
    /\ Finish(r)
    /\ UNCHANGED <<users, now, registered>>

(* Somebody deletes a user, or gives it another role, at the database. *)
ChangeUser(u) ==
    /\ u \in Active(users)
    /\ \/ users' = [users EXCEPT ![u].deleted = TRUE]
       \/ \E role \in Role \ {users[u].role} : users' = [users EXCEPT ![u].role = role]
    /\ window' = Seen(users')
    /\ UNCHANGED <<now, jar, pc, ctx, answer, sent, registered>>

(* The process ends, and with it the requests; another one starts. *)
Restart ==
    /\ pc' = [r \in Req |-> "idle"]
    /\ ctx' = [r \in Req |-> None]
    /\ answer' = [r \in Req |-> None]
    /\ window' = [r \in Req |-> {}]
    /\ UNCHANGED <<users, now, jar, sent, registered>>

Tick ==
    /\ now < MaxTime
    /\ now' = now + 1
    /\ UNCHANGED <<users, jar, pc, ctx, answer, sent, registered, window>>

Next ==
    \/ \E r \in Req :
        \/ Receive(r) \/ Reject(r) \/ Register(r) \/ FindUser(r)
        \/ CompareAndGenerate(r) \/ SetCookie(r) \/ Logout(r) \/ ParseToken(r)
        \/ LookupUser(r) \/ Serve(r) \/ DbError(r) \/ Deliver(r)
    \/ \E u \in UserId : ChangeUser(u)
    \/ Tick \/ Restart

Spec == Init /\ [][Next]_vars

-----------------------------------------------------------------------------
(* Whom Auth lets through was, at some time since the request came, a user *)
(* who was not deleted and had the very role that RequirePermission will   *)
(* see: the claims of an old token decide nothing but who is asking.       *)
AdmittedIsCurrent ==
    \A r \in Req : pc[r] = "next" => <<ctx[r].user, ctx[r].role>> \in window[r]

(* A browser acts only as users whose password it has sent since the last  *)
(* logout that reached it, or that was under way beside that logout, in    *)
(* whatever order logins, logouts and their answers pass each other.       *)
ActsOnlyAsLoggedIn ==
    \A r \in Req : pc[r] = "next" =>
        LET row == users[ctx[r].user] IN
        <<row.email, row.password>> \in sent[ctx[r].by]

(* A registration that was answered with 201 stands: no later, concurrent  *)
(* or retried one changes the password of its account.                     *)
RegistrationStands ==
    \A cred \in registered : \E u \in UserId :
        users[u] # None /\ <<users[u].email, users[u].password>> = cred

(* A browser never drops its cookie while the token in it would still be   *)
(* accepted, though the two expiry times come from two looks at the clock. *)
CookieOutlastsToken ==
    \A b \in Browser :
        jar[b] # None /\ jar[b].token # None /\ now < jar[b].token.exp
            => Sent(b) # None
=============================================================================
