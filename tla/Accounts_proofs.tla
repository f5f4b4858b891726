--------------------------- MODULE Accounts_proofs ---------------------------
(***************************************************************************)
(* The safety of accounts and sessions, for any number of requests,        *)
(* browsers, users and roles, and any lifetime of the tokens.              *)
(***************************************************************************)
EXTENDS Accounts, TLAPS

(* Browser b has sent the credentials of user u. *)
Knows(b, u) ==
    users[u] # None /\ <<users[u].email, users[u].password>> \in sent[b]

(* A cookie that b may get: its token is one that b has logged in for, and *)
(* dies no later than the cookie.                                          *)
Earned(b, cookie) ==
    cookie.token # None =>
        Knows(b, cookie.token.user) /\ cookie.token.exp <= cookie.expires

(* What a request is about, by the step it is at. *)
Locals(r) ==
    /\ pc[r] # "idle" => ctx[r] \in Contexts
    /\ pc[r] = "insert" => ctx[r].ask.kind = "register"
    /\ pc[r] \in {"find", "compare", "cookie"} => ctx[r].ask.kind = "login"
    /\ pc[r] \in {"find", "compare"} =>
          <<ctx[r].ask.email, ctx[r].ask.password>> \in sent[ctx[r].by]
    /\ pc[r] = "compare" =>
          /\ ctx[r].user \in UserId /\ ctx[r].role \in Role
          /\ users[ctx[r].user] # None
          /\ users[ctx[r].user].email = ctx[r].ask.email
    /\ pc[r] = "cookie" =>
          /\ ctx[r].token \in Token
          /\ Knows(ctx[r].by, ctx[r].token.user)
          /\ ctx[r].token.exp <= now + TTL
    /\ pc[r] = "answered" => answer[r] \in Cookie /\ Earned(ctx[r].by, answer[r])
    /\ pc[r] = "answered" /\ answer[r].token # None =>
          ctx[r].ask.kind = "login" /\ ctx[r].token = answer[r].token
    /\ pc[r] \in {"parse", "lookup", "next"} /\ ctx[r].token # None =>
          Knows(ctx[r].by, ctx[r].token.user)
    /\ pc[r] \in {"lookup", "next"} => ctx[r].token # None
    /\ pc[r] \in {"parse", "lookup"} => RolePairs(users) \subseteq window[r]
    /\ pc[r] = "next" =>
          /\ ctx[r].user = ctx[r].token.user /\ ctx[r].role \in Role
          /\ <<ctx[r].user, ctx[r].role>> \in window[r]

Jars == \A b \in Browser : jar[b] # None => Earned(b, jar[b])

IInv ==
    /\ TypeOK
    /\ \A r \in Req : Locals(r)
    /\ Jars
    /\ RegistrationStands

-----------------------------------------------------------------------------
(* What no step undoes, but for a logout that reaches its browser: a row   *)
(* keeps its email and its password, a browser has sent what it has sent,  *)
(* and time passes.                                                        *)
Grows ==
    /\ \A u \in UserId : users[u] # None =>
          /\ users'[u] # None
          /\ users'[u].email = users[u].email
          /\ users'[u].password = users[u].password
    /\ \A b \in Browser : sent[b] \subseteq sent'[b]
    /\ now <= now'

(* A step that is not r's. *)
Spares(r) ==
    /\ pc'[r] = pc[r] /\ ctx'[r] = ctx[r] /\ answer'[r] = answer[r]
    /\ pc[r] \in {"parse", "lookup", "next"} => window[r] \subseteq window'[r]
    /\ pc[r] \in {"parse", "lookup"} => RolePairs(users') \subseteq window'[r]

LEMMA KnowsStays ==
    ASSUME Grows, NEW b \in Browser, NEW u \in UserId, Knows(b, u)
    PROVE  Knows(b, u)'
BY DEF Grows, Knows

LEMMA EarnedStays ==
    ASSUME Grows, NEW b \in Browser, NEW cookie \in Cookie, Earned(b, cookie)
    PROVE  Earned(b, cookie)'
BY AccountsAssumption, KnowsStays DEF Earned, Cookie, Token

LEMMA ContextType ==
    ASSUME NEW x \in Contexts
    PROVE  /\ x.by \in Browser
           /\ x.token # None => x.token \in Token /\ x.token.user \in UserId
                                  /\ x.token.exp \in Int
           /\ x.ask.kind \in {"register", "login"} =>
                x.ask.email \in Email /\ x.ask.password \in Password
BY DEF Contexts, Token, Asks

LEMMA PairsType ==
    ASSUME NEW table \in [UserId -> UserRow \cup {None}]
    PROVE  RolePairs(table) \subseteq UserId \X Role
BY DEF RolePairs, Active, UserRow

LEMMA Spared ==
    ASSUME IInv, TypeOK', Grows, NEW r \in Req, Spares(r)
    PROVE  Locals(r)'
<1> USE DEF Spares
<1>1. Locals(r) /\ now \in Int /\ now' \in Int
  BY DEF IInv, TypeOK
<1>2. pc[r] # "idle" => ctx[r] \in Contexts /\ ctx[r].by \in Browser
  BY <1>1, ContextType DEF Locals
<1>3. pc[r] \in {"find", "compare"} =>
          <<ctx[r].ask.email, ctx[r].ask.password>> \in sent'[ctx[r].by]
  BY <1>1, <1>2 DEF Locals, Grows
<1>4. pc[r] = "compare" =>
          /\ users'[ctx[r].user] # None
          /\ users'[ctx[r].user].email = ctx[r].ask.email
  BY <1>1 DEF Locals, Grows
<1>5. pc[r] = "cookie" =>
          /\ Knows(ctx[r].by, ctx[r].token.user)'
          /\ ctx[r].token.exp <= now' + TTL
  <2> SUFFICES ASSUME pc[r] = "cookie"
               PROVE  /\ Knows(ctx[r].by, ctx[r].token.user)'
                      /\ ctx[r].token.exp <= now' + TTL
    OBVIOUS
  <2>1. /\ ctx[r].token.user \in UserId /\ ctx[r].token.exp \in Int
        /\ Knows(ctx[r].by, ctx[r].token.user) /\ ctx[r].token.exp <= now + TTL
    BY <1>1 DEF Locals, Token
  <2>2. ctx'[r] = ctx[r]
    OBVIOUS
  <2>3. \A b \in Browser, u \in UserId : Knows(b, u) => Knows(b, u)'
    BY KnowsStays
  <2>4. Knows(ctx[r].by, ctx[r].token.user)'
    BY <1>2, <2>1, <2>2, <2>3 DEF Knows
  <2>5. QED
    BY <1>1, <2>1, <2>4, AccountsAssumption DEF Grows
<1>6. pc[r] = "answered" => answer[r] \in Cookie /\ Earned(ctx[r].by, answer[r])'
  BY <1>1, <1>2, EarnedStays DEF Locals, Earned, Knows
<1>7. pc[r] \in {"parse", "lookup", "next"} /\ ctx[r].token # None =>
          Knows(ctx[r].by, ctx[r].token.user)'
  BY <1>1, <1>2, KnowsStays, ContextType DEF Locals, Knows
<1>8. QED
  BY <1>1, <1>2, <1>3, <1>4, <1>5, <1>6, <1>7 DEF Locals, Earned, Knows

LEMMA JarsStay ==
    ASSUME IInv, TypeOK', Grows, jar' = jar
    PROVE  Jars'
BY EarnedStays DEF IInv, TypeOK, Jars, Earned, Knows

LEMMA RegistrationsStay ==
    ASSUME IInv, Grows, registered' = registered
    PROVE  RegistrationStands'
BY DEF IInv, Grows, RegistrationStands

LEMMA Initially == Init => IInv
BY AccountsAssumption
   DEF Init, IInv, TypeOK, Locals, Jars, RegistrationStands, UserRow

-----------------------------------------------------------------------------
(* A step of request r that leaves the tables and the browsers alone. *)
LEMMA OwnStep ==
    ASSUME IInv, TypeOK', NEW r \in Req, Locals(r)',
           UNCHANGED <<users, now, jar, sent, registered>>,
           \A q \in Req \ {r} : /\ pc'[q] = pc[q] /\ ctx'[q] = ctx[q]
                                /\ answer'[q] = answer[q] /\ window'[q] = window[q]
    PROVE  IInv'
<1>1. Grows
  BY DEF Grows, IInv, TypeOK
<1>2. ASSUME NEW q \in Req \ {r} PROVE Locals(q)'
  <2>1. Spares(q)
    BY DEF Spares, IInv, Locals, RolePairs, Active
  <2>2. QED
    BY <1>1, <2>1, Spared
<1>3. QED
  BY <1>1, <1>2, JarsStay, RegistrationsStay DEF IInv

(* One step, one lemma.  First, a request that ends without a cookie. *)
LEMMA FinishKept ==
    ASSUME IInv, NEW r \in Req, Finish(r),
           UNCHANGED <<users, now, jar, answer, sent, registered>>
    PROVE  IInv'
<1> USE DEF Finish, Goto, IInv, TypeOK
<1>1. TypeOK'
  OBVIOUS
<1>2. Locals(r)'
  BY DEF Locals
<1>3. QED
  BY <1>1, <1>2, OwnStep

LEMMA ReceiveKept ==
    ASSUME IInv, NEW r \in Req, Receive(r)
    PROVE  IInv'
<1>1. PICK b \in Browser, ask \in Asks :
        LET guarded == ask.kind = "protected" IN
        /\ ctx' = [ctx EXCEPT ![r] =
              [by |-> b, ask |-> ask, user |-> None, role |-> None,
               token |-> IF guarded THEN Sent(b) ELSE None]]
        /\ window' = [window EXCEPT ![r] = IF guarded THEN RolePairs(users) ELSE {}]
        /\ sent' = IF ask.kind = "login"
                   THEN [sent EXCEPT ![b] = @ \cup {<<ask.email, ask.password>>}]
                   ELSE sent
        /\ Goto(r, FirstStep[ask.kind])
  BY DEF Receive
<1>2. /\ pc[r] = "idle" /\ pc' = [pc EXCEPT ![r] = FirstStep[ask.kind]]
      /\ UNCHANGED <<users, now, jar, answer, registered>>
  BY <1>1 DEF Receive, Goto
<1>3. /\ ask.kind \in {"register", "login", "logout", "protected"}
      /\ ask.kind \in {"register", "login"} => ask.email \in Email /\ ask.password \in Password
  BY DEF Asks
<1>4. Sent(b) # None => Sent(b) \in Token /\ Knows(b, Sent(b).user)
  BY DEF Sent, IInv, TypeOK, Jars, Earned, Cookie
<1>5. TypeOK'
  <2>1. pc'[r] \in {"insert", "find", "logout", "parse"}
    BY <1>2, <1>3 DEF FirstStep, IInv, TypeOK
  <2>2. [by |-> b, ask |-> ask, user |-> None, role |-> None,
         token |-> IF ask.kind = "protected" THEN Sent(b) ELSE None] \in Contexts
    BY <1>4 DEF Contexts
  <2>3. RolePairs(users) \subseteq UserId \X Role
    BY PairsType DEF IInv, TypeOK
  <2>4. sent' \in [Browser -> SUBSET (Email \X Password)]
    BY <1>1, <1>3 DEF IInv, TypeOK
  <2>5. QED
    BY <1>1, <1>2, <2>1, <2>2, <2>3, <2>4 DEF IInv, TypeOK
<1>6. Grows
  BY <1>1, <1>2, <1>5 DEF Grows, IInv, TypeOK
<1>7. Locals(r)'
  <2>1. pc'[r] = FirstStep[ask.kind]
    BY <1>2 DEF IInv, TypeOK
  <2>2. /\ ctx'[r].by = b /\ ctx'[r].ask = ask /\ ctx'[r] \in Contexts
        /\ ctx'[r].token = IF ask.kind = "protected" THEN Sent(b) ELSE None
        /\ window'[r] = IF ask.kind = "protected" THEN RolePairs(users) ELSE {}
    BY <1>1, <1>4 DEF IInv, TypeOK, Contexts
  <2>3. ask.kind = "login" => <<ask.email, ask.password>> \in sent'[b]
    BY <1>1 DEF IInv, TypeOK
  <2>4. Sent(b) # None => Knows(b, Sent(b).user)'
    BY <1>2, <1>4, <1>6 DEF Knows, Grows, Sent, Token
  <2>5. QED
    BY <1>2, <1>3, <2>1, <2>2, <2>3, <2>4
       DEF Locals, FirstStep, RolePairs, Active, Sent, Knows
<1>8. ASSUME NEW q \in Req \ {r} PROVE Locals(q)'
  <2>1. Spares(q)
    BY <1>1, <1>2 DEF Spares, IInv, TypeOK, Locals, RolePairs, Active
  <2>2. QED
    BY <1>5, <1>6, <2>1, Spared
<1>9. QED
  BY <1>2, <1>5, <1>6, <1>7, <1>8, JarsStay, RegistrationsStay DEF IInv

LEMMA InsertKept ==
    ASSUME IInv, NEW r \in Req, NEW u \in UserId,
           pc[r] = "insert", users[u] = None, InsertUser(r, u),
           UNCHANGED <<now, jar, answer, sent>>
    PROVE  IInv'
<1>1. ctx[r].ask.email \in Email /\ ctx[r].ask.password \in Password
  BY ContextType DEF IInv, Locals
<1> DEFINE row == NewUser(ctx[r].ask)
<1>2. row \in UserRow
  BY <1>1, AccountsAssumption DEF NewUser, UserRow
<1>3. row # None
  BY <1>2, AccountsAssumption
<1>4. users' = [users EXCEPT ![u] = row]
  BY DEF InsertUser
<1>5. /\ pc' = [pc EXCEPT ![r] = "idle"] /\ ctx' = [ctx EXCEPT ![r] = None]
      /\ window' = Seen(users')
      /\ registered' \in {registered,
             registered \cup {<<ctx[r].ask.email, ctx[r].ask.password>>}}
  BY DEF InsertUser, Goto
<1>6. TypeOK'
  <2>1. users' \in [UserId -> UserRow \cup {None}]
    BY <1>2, <1>4 DEF IInv, TypeOK
  <2>2. RolePairs(users') \subseteq UserId \X Role
    BY <2>1, PairsType
  <2>3. window' \in [Req -> SUBSET (UserId \X Role)]
    BY <1>5, <2>2 DEF Seen, IInv, TypeOK
  <2>4. registered' \subseteq Email \X Password
    BY <1>1, <1>5 DEF IInv, TypeOK
  <2>5. QED
    BY <1>5, <2>1, <2>3, <2>4 DEF IInv, TypeOK
<1>7. Grows
  BY <1>1, <1>3, <1>4 DEF Grows, IInv, TypeOK
<1>8. Locals(r)'
  BY <1>5 DEF Locals, IInv, TypeOK
<1>9. ASSUME NEW q \in Req \ {r} PROVE Locals(q)'
  <2>1. Spares(q)
    BY <1>1, <1>5 DEF Spares, Seen, IInv, TypeOK
  <2>2. QED
    BY <1>6, <1>7, <2>1, Spared
<1>10. RegistrationStands'
  <2>1. users'[u] # None /\ users'[u].email = ctx[r].ask.email
          /\ users'[u].password = ctx[r].ask.password
    BY <1>3, <1>4 DEF IInv, TypeOK, NewUser
  <2>2. QED
    BY <1>5, <1>7, <2>1 DEF RegistrationStands, Grows, IInv
<1>11. QED
  BY <1>1, <1>6, <1>7, <1>8, <1>9, <1>10, JarsStay DEF IInv

LEMMA RegisterKept ==
    ASSUME IInv, NEW r \in Req, Register(r)
    PROVE  IInv'
<1>1. CASE Finish(r) /\ UNCHANGED <<users, registered>>
  BY <1>1, FinishKept DEF Register
<1>2. CASE \E u \in UserId : users[u] = None /\ InsertUser(r, u)
  BY <1>2, InsertKept DEF Register
<1>3. QED
  BY <1>1, <1>2 DEF Register

LEMMA FindUserKept ==
    ASSUME IInv, NEW r \in Req, FindUser(r)
    PROVE  IInv'
<1>1. CASE Finish(r)
  BY <1>1, FinishKept DEF FindUser
<1>2. ASSUME NEW u \in Active(users), users[u].email = ctx[r].ask.email,
             ctx' = [ctx EXCEPT ![r].user = u, ![r].role = users[u].role],
             Goto(r, "compare"), UNCHANGED window
      PROVE  IInv'
  <2> USE <1>2 DEF Goto
  <2>1. /\ u \in UserId /\ users[u] # None /\ users[u].role \in Role
        /\ ctx[r] \in Contexts /\ pc[r] = "find"
        /\ UNCHANGED <<users, now, jar, answer, sent, registered>>
    BY DEF Active, FindUser, IInv, TypeOK, Locals, UserRow
  <2>2. /\ ctx'[r] \in Contexts /\ ctx'[r].by = ctx[r].by /\ ctx'[r].ask = ctx[r].ask
        /\ ctx'[r].user = u /\ ctx'[r].role = users[u].role
    BY <2>1 DEF IInv, TypeOK, Contexts
  <2>3. TypeOK'
    BY <2>1, <2>2 DEF IInv, TypeOK
  <2>4. Locals(r)'
    BY <2>1, <2>2 DEF Locals, IInv, TypeOK
  <2>5. QED
    BY <2>1, <2>3, <2>4, OwnStep DEF IInv, TypeOK
<1>3. QED
  BY <1>1, <1>2 DEF FindUser

LEMMA CompareKept ==
    ASSUME IInv, NEW r \in Req, CompareAndGenerate(r)
    PROVE  IInv'
<1>1. CASE Finish(r)
  BY <1>1, FinishKept DEF CompareAndGenerate
<1>2. CASE Generate(r) /\ users[ctx[r].user].password = ctx[r].ask.password
  <2> USE <1>2 DEF Goto, Generate
  <2>0. /\ pc[r] = "compare"
        /\ UNCHANGED <<users, now, jar, answer, sent, registered>>
    BY DEF CompareAndGenerate
  <2>1. /\ ctx[r] \in Contexts /\ now \in Int
        /\ ctx[r].user \in UserId /\ ctx[r].role \in Role
    <3>1. Locals(r) /\ now \in Int
      BY DEF IInv, TypeOK
    <3>2. QED
      BY <2>0, <3>1 DEF Locals
  <2>2. Knows(ctx[r].by, ctx[r].user)
    BY <2>0, <2>1 DEF Knows, IInv, Locals
  <2>3. Claims(r) \in Token /\ Claims(r).user = ctx[r].user /\ Claims(r).exp = now + TTL
    BY <2>0, <2>1, AccountsAssumption DEF Claims, Token
  <2>4. /\ ctx'[r] \in Contexts /\ ctx'[r].by = ctx[r].by
        /\ ctx'[r].ask = ctx[r].ask /\ ctx'[r].token = Claims(r)
    BY <2>0, <2>1, <2>3 DEF IInv, TypeOK, Contexts
  <2>5. TypeOK'
    BY <2>0, <2>1, <2>4 DEF IInv, TypeOK
  <2>6. Locals(r)'
    <3>1. pc'[r] = "cookie" /\ ctx'[r].ask.kind = "login"
      BY <2>0, <2>4 DEF IInv, Locals, TypeOK
    <3>2. ctx'[r].token.exp <= now + TTL /\ ctx'[r].token # None
      BY <2>1, <2>3, <2>4, AccountsAssumption
    <3>3. QED
      BY <2>0, <2>2, <2>3, <2>4, <3>1, <3>2 DEF Locals, Knows
  <2>7. QED
    BY <2>0, <2>1, <2>5, <2>6, OwnStep DEF IInv, TypeOK
<1>3. QED
  BY <1>1, <1>2 DEF CompareAndGenerate

LEMMA CookieKept ==
    ASSUME IInv, NEW r \in Req, SetCookie(r) \/ Logout(r)
    PROVE  IInv'
<1> USE DEF Goto, AnswerCookie, SetCookie, Logout
<1>0. /\ pc[r] \in {"cookie", "logout"}
      /\ UNCHANGED <<users, now, jar, ctx, window, sent, registered>>
      /\ pc' = [pc EXCEPT ![r] = "answered"]
  OBVIOUS
<1>1. ctx[r] \in Contexts /\ now \in Int
  <2>1. Locals(r) /\ now \in Int
    BY DEF IInv, TypeOK
  <2>2. QED
    BY <1>0, <2>1 DEF Locals
<1>2. /\ answer' = [answer EXCEPT ![r] = answer'[r]]
      /\ answer'[r] \in Cookie /\ Earned(ctx[r].by, answer'[r])
      /\ answer'[r].token # None =>
            ctx[r].ask.kind = "login" /\ ctx[r].token = answer'[r].token
  <2>1. CASE SetCookie(r)
    <3>1. answer'[r] = [token |-> ctx[r].token, expires |-> now + TTL]
      BY <2>1 DEF IInv, TypeOK
    <3>2. /\ ctx[r].token \in Token /\ Knows(ctx[r].by, ctx[r].token.user)
          /\ ctx[r].token.exp <= now + TTL /\ ctx[r].ask.kind = "login"
      BY <2>1 DEF IInv, Locals
    <3>3. QED
      BY <1>0, <1>1, <2>1, <3>1, <3>2, AccountsAssumption DEF Cookie, Earned, IInv, TypeOK
  <2>2. CASE Logout(r)
    BY <1>0, <1>1, <2>2 DEF Cookie, Earned, IInv, TypeOK
  <2>3. QED
    BY <2>1, <2>2
<1>3. TypeOK'
  BY <1>0, <1>1, <1>2 DEF IInv, TypeOK
<1>4. Locals(r)'
  BY <1>0, <1>1, <1>2 DEF Locals, Earned, Knows, IInv, TypeOK
<1>5. QED
  BY <1>0, <1>1, <1>2, <1>3, <1>4, OwnStep DEF IInv, TypeOK

LEMMA AuthKept ==
    ASSUME IInv, NEW r \in Req, ParseToken(r) \/ LookupUser(r)
    PROVE  IInv'
<1>1. CASE Finish(r)
  BY <1>1, FinishKept DEF ParseToken, LookupUser
<1>2. CASE pc[r] = "parse" /\ ParseToken(r) /\ ~Finish(r)
  <2>1. /\ pc' = [pc EXCEPT ![r] = "lookup"] /\ ctx[r].token # None
        /\ UNCHANGED <<users, now, jar, ctx, answer, sent, registered, window>>
    BY <1>2 DEF ParseToken, Goto
  <2>2. TypeOK'
    BY <2>1 DEF IInv, TypeOK
  <2>3. Locals(r)'
    BY <1>2, <2>1 DEF Locals, Knows, RolePairs, Active, IInv, TypeOK
  <2>4. QED
    BY <2>1, <2>2, <2>3, OwnStep DEF IInv, TypeOK
<1>3. CASE pc[r] = "lookup" /\ LookupUser(r) /\ ~Finish(r)
  <2> DEFINE u == ctx[r].token.user
  <2>1. /\ u \in Active(users) /\ pc' = [pc EXCEPT ![r] = "next"]
        /\ ctx' = [ctx EXCEPT ![r].user = u, ![r].role = users[u].role]
        /\ UNCHANGED <<users, now, jar, answer, sent, registered, window>>
    BY <1>3 DEF LookupUser, Admit, Goto
  <2>2. /\ u \in UserId /\ users[u].role \in Role /\ ctx[r] \in Contexts
        /\ <<u, users[u].role>> \in window[r]
        /\ ctx[r].token # None /\ Knows(ctx[r].by, u)
    BY <1>3, <2>1 DEF RolePairs, Active, Locals, IInv, TypeOK, UserRow
  <2>3. /\ ctx'[r] \in Contexts /\ ctx'[r].by = ctx[r].by
        /\ ctx'[r].token = ctx[r].token
        /\ ctx'[r].user = u /\ ctx'[r].role = users[u].role
    BY <2>1, <2>2 DEF IInv, TypeOK, Contexts
  <2>4. TypeOK'
    BY <2>1, <2>3 DEF IInv, TypeOK
  <2>5. Locals(r)'
    BY <2>1, <2>2, <2>3 DEF Locals, Knows, IInv, TypeOK
  <2>6. QED
    BY <2>1, <2>4, <2>5, OwnStep DEF IInv, TypeOK
<1>4. QED
  BY <1>1, <1>2, <1>3 DEF ParseToken, LookupUser

(* A logout reaches browser b: it forgets what no other request carries.   *)
LEMMA LoggedOutKept ==
    ASSUME IInv, TypeOK', NEW r \in Req, NEW b \in Browser,
           pc[r] = "answered", ctx[r].ask.kind = "logout", ctx[r].by = b,
           jar' = [jar EXCEPT ![b] = answer[r]],
           sent' = [sent EXCEPT ![b] = UnderWay(b, r)],
           UNCHANGED <<users, now, registered>>, pc'[r] = "idle",
           \A q \in Req \ {r} : /\ pc'[q] = pc[q] /\ ctx'[q] = ctx[q]
                                /\ answer'[q] = answer[q] /\ window'[q] = window[q]
    PROVE  IInv'
<1>1. /\ answer[r] \in Cookie /\ answer[r].token = None
      /\ \A c \in Browser : sent'[c] = IF c = b THEN UnderWay(b, r) ELSE sent[c]
      /\ \A c \in Browser : jar'[c] = IF c = b THEN answer[r] ELSE jar[c]
  BY DEF IInv, Locals, TypeOK
<1>2. Locals(r)'
  BY DEF Locals
<1>3. ASSUME NEW q \in Req \ {r} PROVE Locals(q)'
  <2>1. /\ Locals(q) /\ pc'[q] = pc[q] /\ ctx'[q] = ctx[q]
        /\ answer'[q] = answer[q] /\ window'[q] = window[q]
    BY DEF IInv
  <2>2. CASE pc[q] = "idle"
    BY <2>1, <2>2 DEF Locals
  <2>3. CASE pc[q] # "idle"
    <3>1. ctx[q] \in Contexts /\ ctx[q].by \in Browser
      BY <2>1, <2>3, ContextType DEF Locals
    <3> DEFINE c == ctx[q].by
    <3>2. ASSUME NEW cred, cred \in sent[c], Carries(q, cred)
          PROVE  cred \in sent'[c]
      BY <1>1, <2>3, <3>1, <3>2 DEF UnderWay
    <3>3. pc[q] \in {"find", "compare"} =>
              <<ctx[q].ask.email, ctx[q].ask.password>> \in sent'[c]
      BY <2>1, <3>2 DEF Locals, Carries
    <3>4. ctx[q].token # None /\ Knows(c, ctx[q].token.user)
              => Knows(c, ctx[q].token.user)'
      <4> SUFFICES ASSUME ctx[q].token # None, Knows(c, ctx[q].token.user)
                   PROVE  Knows(c, ctx[q].token.user)'
        OBVIOUS
      <4> DEFINE row == users[ctx[q].token.user]
                 cred == <<row.email, row.password>>
      <4>1. cred \in sent[c] /\ Carries(q, cred)
        BY DEF Knows, Carries
      <4>2. cred \in sent'[c]
        BY <3>2, <4>1
      <4>3. QED
        BY <2>1, <4>2 DEF Knows
    <3>5. pc[q] = "cookie" => Knows(c, ctx[q].token.user)'
      BY <2>1, <3>4, AccountsAssumption DEF Locals
    <3>6. pc[q] = "answered" => Earned(c, answer[q])'
      BY <2>1, <3>4 DEF Locals, Earned, Knows
    <3>7. pc[q] \in {"parse", "lookup", "next"} /\ ctx[q].token # None
              => Knows(c, ctx[q].token.user)'
      BY <2>1, <3>4 DEF Locals
    <3>8. QED
      BY <2>1, <3>1, <3>3, <3>5, <3>6, <3>7
         DEF Locals, Earned, Knows, RolePairs, Active
  <2>4. QED
    BY <2>2, <2>3
<1>4. Jars'
  <2> SUFFICES ASSUME NEW c \in Browser, jar'[c] # None
               PROVE  jar'[c].token # None =>
                        /\ users[jar'[c].token.user] # None
                        /\ <<users[jar'[c].token.user].email,
                             users[jar'[c].token.user].password>> \in sent'[c]
                        /\ jar'[c].token.exp <= jar'[c].expires
    BY DEF Jars, Earned, Knows
  <2>1. CASE c = b
    BY <1>1, <2>1
  <2>2. CASE c # b
    BY <1>1, <2>2 DEF IInv, Jars, Earned, Knows
  <2>3. QED
    BY <2>1, <2>2
<1>5. RegistrationStands'
  BY DEF IInv, RegistrationStands
<1>6. QED
  BY <1>2, <1>3, <1>4, <1>5 DEF IInv

LEMMA DeliverKept ==
    ASSUME IInv, NEW r \in Req, Deliver(r)
    PROVE  IInv'
<1> DEFINE b == ctx[r].by
<1>0. /\ pc[r] = "answered" /\ UNCHANGED <<users, now, registered>>
      /\ pc' = [pc EXCEPT ![r] = "idle"]
      /\ ctx' = [ctx EXCEPT ![r] = None]
      /\ answer' = [answer EXCEPT ![r] = None]
      /\ window' = [window EXCEPT ![r] = {}]
  BY DEF Deliver, Finish, Goto
<1>1. answer[r] \in Cookie /\ b \in Browser /\ Earned(b, answer[r])
  BY <1>0, ContextType DEF IInv, Locals
<1>2. /\ pc'[r] = "idle"
      /\ \A q \in Req \ {r} : /\ pc'[q] = pc[q] /\ ctx'[q] = ctx[q]
                               /\ answer'[q] = answer[q] /\ window'[q] = window[q]
  BY <1>0 DEF IInv, TypeOK
<1>3. TypeOK'
  <2>1. jar' \in [Browser -> Cookie \cup {None}]
    BY <1>1 DEF Deliver, IInv, TypeOK
  <2>2. UnderWay(b, r) \subseteq sent[b]
    BY DEF UnderWay
  <2>3. sent' \in [Browser -> SUBSET (Email \X Password)]
    BY <1>1, <2>2 DEF Deliver, IInv, TypeOK
  <2>4. QED
    BY <1>0, <2>1, <2>3 DEF IInv, TypeOK
<1>4. CASE /\ jar' = [jar EXCEPT ![b] = answer[r]] /\ ctx[r].ask.kind = "logout"
           /\ sent' = [sent EXCEPT ![b] = UnderWay(b, r)]
  BY <1>0, <1>1, <1>2, <1>3, <1>4, LoggedOutKept
<1>5. CASE /\ jar' = jar \/ jar' = [jar EXCEPT ![b] = answer[r]]
           /\ sent' = sent
  <2>1. Grows
    BY <1>0, <1>3, <1>5 DEF Grows, IInv, TypeOK
  <2>2. Locals(r)'
    BY <1>2 DEF Locals
  <2>3. ASSUME NEW q \in Req \ {r} PROVE Locals(q)'
    <3>1. /\ pc'[q] = pc[q] /\ ctx'[q] = ctx[q] /\ answer'[q] = answer[q]
          /\ window'[q] = window[q] /\ Locals(q) /\ users' = users
      BY <1>0, <1>2 DEF IInv
    <3>2. Spares(q)
      BY <3>1 DEF Spares, Locals, RolePairs, Active
    <3>3. QED
      BY <1>3, <2>1, <3>2, Spared
  <2>4. Jars'
    <3> SUFFICES ASSUME NEW c \in Browser, jar'[c] # None
                 PROVE  Earned(c, jar'[c])
      BY <1>0, <1>5 DEF Jars, Earned, Knows
    <3>1. jar'[c] = jar[c] \/ (c = b /\ jar'[c] = answer[r])
      BY <1>1, <1>5 DEF IInv, TypeOK
    <3>2. QED
      BY <1>1, <3>1 DEF IInv, Jars
  <2>5. QED
    BY <1>0, <1>3, <2>1, <2>2, <2>3, <2>4, RegistrationsStay DEF IInv
<1>6. QED
  BY <1>4, <1>5 DEF Deliver

LEMMA ChangeUserKept ==
    ASSUME IInv, NEW u \in UserId, ChangeUser(u)
    PROVE  IInv'
<1>1. /\ users[u] # None /\ window' = Seen(users')
      /\ UNCHANGED <<now, jar, pc, ctx, answer, sent, registered>>
  BY DEF ChangeUser, Active
<1>2. PICK row \in UserRow :
        /\ users' = [users EXCEPT ![u] = row]
        /\ row.email = users[u].email /\ row.password = users[u].password
  <2>1. users[u] \in UserRow
    BY <1>1 DEF IInv, TypeOK
  <2>2. ASSUME NEW row \in UserRow, users' = [users EXCEPT ![u] = row],
               row.email = users[u].email, row.password = users[u].password
        PROVE  \E x \in UserRow :
                 /\ users' = [users EXCEPT ![u] = x]
                 /\ x.email = users[u].email /\ x.password = users[u].password
    BY <2>2
  <2>3. CASE users' = [users EXCEPT ![u].deleted = TRUE]
    <3> DEFINE row == [users[u] EXCEPT !.deleted = TRUE]
    <3>1. row \in UserRow /\ row.email = users[u].email /\ row.password = users[u].password
      BY <2>1 DEF UserRow
    <3>2. users' = [users EXCEPT ![u] = row]
      BY <2>3 DEF IInv, TypeOK
    <3> HIDE DEF row
    <3>3. QED
      BY <2>2, <3>1, <3>2
  <2>4. ASSUME NEW role \in Role, users' = [users EXCEPT ![u].role = role]
        PROVE  \E x \in UserRow :
                 /\ users' = [users EXCEPT ![u] = x]
                 /\ x.email = users[u].email /\ x.password = users[u].password
    <3> DEFINE row == [users[u] EXCEPT !.role = role]
    <3>1. row \in UserRow /\ row.email = users[u].email /\ row.password = users[u].password
      BY <2>1 DEF UserRow
    <3>2. users' = [users EXCEPT ![u] = row]
      BY <2>4 DEF IInv, TypeOK
    <3> HIDE DEF row
    <3>3. QED
      BY <2>2, <3>1, <3>2
  <2>5. QED
    BY <2>3, <2>4 DEF ChangeUser
<1>3. row # None
  BY AccountsAssumption
<1>4. TypeOK'
  <2>1. users' \in [UserId -> UserRow \cup {None}]
    BY <1>2 DEF IInv, TypeOK
  <2>2. RolePairs(users') \subseteq UserId \X Role
    BY <2>1, PairsType
  <2>3. window' \in [Req -> SUBSET (UserId \X Role)]
    BY <1>1, <2>2 DEF Seen, IInv, TypeOK
  <2>4. QED
    BY <1>1, <2>1, <2>3 DEF IInv, TypeOK
<1>5. Grows
  BY <1>1, <1>2, <1>3, <1>4 DEF Grows, IInv, TypeOK
<1>6. ASSUME NEW q \in Req PROVE Locals(q)'
  <2>1. Spares(q)
    BY <1>1 DEF Spares, Seen
  <2>2. QED
    BY <1>4, <1>5, <2>1, Spared
<1>7. QED
  BY <1>1, <1>4, <1>5, <1>6, JarsStay, RegistrationsStay DEF IInv

LEMMA TickKept ==
    ASSUME IInv, Tick
    PROVE  IInv'
<1>1. now \in Int /\ now' = now + 1 /\ now < MaxTime /\ now >= 0
      /\ UNCHANGED <<users, jar, pc, ctx, answer, sent, registered, window>>
  BY DEF Tick, IInv, TypeOK
<1>2. TypeOK'
  BY <1>1, AccountsAssumption DEF IInv, TypeOK
<1>3. Grows
  BY <1>1 DEF Grows
<1>4. ASSUME NEW q \in Req PROVE Locals(q)'
  <2>1. Spares(q)
    BY <1>1 DEF Spares, IInv, Locals, RolePairs, Active
  <2>2. QED
    BY <1>2, <1>3, <2>1, Spared
<1>5. QED
  BY <1>1, <1>2, <1>3, <1>4, JarsStay, RegistrationsStay DEF IInv

LEMMA RestartKept ==
    ASSUME IInv, Restart
    PROVE  IInv'
<1> USE DEF Restart
<1>1. TypeOK'
  BY DEF IInv, TypeOK
<1>2. Grows
  BY <1>1 DEF Grows, IInv, TypeOK
<1>3. ASSUME NEW q \in Req PROVE Locals(q)'
  BY DEF Locals
<1>4. QED
  BY <1>1, <1>2, <1>3, JarsStay, RegistrationsStay DEF IInv

-----------------------------------------------------------------------------
LEMMA Inductive == IInv /\ [Next]_vars => IInv'
<1> SUFFICES ASSUME IInv, [Next]_vars PROVE IInv'
  OBVIOUS
<1>1. CASE UNCHANGED vars
  <2>1. TypeOK'
    BY <1>1 DEF vars, IInv, TypeOK
  <2>2. Grows
    BY <1>1, <2>1 DEF vars, Grows, IInv, TypeOK
  <2>3. ASSUME NEW q \in Req PROVE Locals(q)'
    <3>1. Spares(q)
      BY <1>1 DEF vars, Spares, IInv, Locals, RolePairs, Active
    <3>2. QED
      BY <2>1, <2>2, <3>1, Spared
  <2>4. QED
    BY <1>1, <2>1, <2>2, <2>3, JarsStay, RegistrationsStay DEF vars, IInv
<1>2. ASSUME NEW r \in Req, Reject(r) \/ Serve(r) \/ DbError(r)
      PROVE  IInv'
  BY <1>2, FinishKept DEF Reject, Serve, DbError
<1>3. ASSUME NEW r \in Req,
             \/ Receive(r) \/ Register(r) \/ FindUser(r) \/ CompareAndGenerate(r)
             \/ SetCookie(r) \/ Logout(r) \/ ParseToken(r) \/ LookupUser(r)
             \/ Deliver(r)
      PROVE  IInv'
  BY <1>3, ReceiveKept, RegisterKept, FindUserKept, CompareKept, CookieKept,
     AuthKept, DeliverKept
<1>4. ASSUME NEW u \in UserId, ChangeUser(u)
      PROVE  IInv'
  BY <1>4, ChangeUserKept
<1>5. QED
  BY <1>1, <1>2, <1>3, <1>4, TickKept, RestartKept DEF Next

THEOREM Invariance == Spec => []IInv
BY Initially, Inductive, PTL DEF Spec

(* Users, cookies and requests keep their types. *)
THEOREM TypeCorrect == Spec => []TypeOK
BY Invariance, PTL DEF IInv

(* Auth lets in nobody with a role that the user did not have while the    *)
(* request was under way.                                                  *)
THEOREM AdmissionIsCurrent == Spec => []AdmittedIsCurrent
<1>1. IInv => AdmittedIsCurrent
  BY DEF IInv, Locals, AdmittedIsCurrent
<1>2. QED
  BY <1>1, Invariance, PTL

(* Whatever the order of logins, logouts and their answers, a browser acts *)
(* only as users whose password it has sent since its last logout, or      *)
(* beside it.                                                              *)
THEOREM SessionsAreEarned == Spec => []ActsOnlyAsLoggedIn
<1>1. IInv => ActsOnlyAsLoggedIn
  BY DEF IInv, Locals, Knows, ActsOnlyAsLoggedIn
<1>2. QED
  BY <1>1, Invariance, PTL

(* A confirmed registration stands. *)
THEOREM RegistrationsStand == Spec => []RegistrationStands
BY Invariance, PTL DEF IInv

(* A browser keeps its cookie as long as the token in it is good. *)
THEOREM CookiesOutlastTokens == Spec => []CookieOutlastsToken
<1>1. IInv => CookieOutlastsToken
  <2> SUFFICES ASSUME IInv, NEW b \in Browser, jar[b] # None,
                      jar[b].token # None, now < jar[b].token.exp
               PROVE  Sent(b) # None
    BY DEF CookieOutlastsToken
  <2>1. /\ jar[b].token.exp <= jar[b].expires
        /\ jar[b].token.exp \in Int /\ jar[b].expires \in Int
    BY DEF IInv, TypeOK, Jars, Earned, Cookie, Token
  <2>2. now \in Int
    BY DEF IInv, TypeOK
  <2>3. QED
    BY <2>1, <2>2 DEF Sent
<1>2. QED
  BY <1>1, Invariance, PTL
=============================================================================
