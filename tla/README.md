# TLA+ models of libra_management

libra_management is a small library-management server: Go, Fiber v3, GORM on
MySQL, JWT. This directory holds TLA+ modules that model its stateful parts,
TLC configurations that check them on small instances, and proofs that TLAPS
checks for every instance. `PROJECT.json` maps every definition to the source
lines it models and lists the runs, the mutants, the hazards, the findings and
the theorems.

    tlc -workers 2 -config MCShelf.cfg MCCatalog     # any run, see the table below
    tlapm Catalog_proofs.tla                         # any *_proofs module

## 1. Inventory

| Part | State it keeps | Operations | Interacts with | What makes it correct |
|---|---|---|---|---|
| Catalogue tables (`internal/model`, MySQL) | authors, books, libraries, `library_books`; unique names, foreign keys with RESTRICT, AUTO_INCREMENT | SQL statements, each a transaction unless the code opens one | every catalogue handler | the schema's promises hold after every statement; nothing appears under a key that was never handed out |
| `AuthorHandler` | none between requests | List, Get, Create, Update, Delete | tables | a request takes effect at most once; a refusal has no effect; Update changes its own row only |
| `BookHandler` | none | the same, with `authorExists` and a reload for the response | tables | the same, and a book always has its author |
| `LibraryHandler` | none | the same, `AddBooks`, `RemoveBooks`, `fetchBooksByIDs` | tables | links are those that were asked for; none is lost or gained on a stale read |
| `Authorizer` (`internal/middleware`) | cache role -> permissions behind a RWMutex | RequirePermission, Invalidate, Clear | `role_permissions`, every protected route | decisions rest on permissions the role had since the last invalidation; every call returns |
| Boot (`cmd/server`, `database.Seed`, `NewAuthHandler`) | permissions, roles, `role_permissions`; the default role's id | FirstOrCreate, Association.Replace, First | other servers that boot or serve | no duplicates, the coded grants are there, no boot revokes them even for a moment |
| `AuthHandler`, `Auth`, `token.Manager` | users (soft-deleted, unique email), the client's cookie | Register, Login, Logout, Auth | users, roles, Authorizer | a deleted account's token opens nothing, the role is read fresh |
| a protected route (`internal/router`) | the request's Locals | Auth, RequirePermission, handler | `AuthHandler`, `Authorizer` | a handler runs only by a role the user had during the request and a permission that role had; every request is answered |
| `httpx` | none | AppError, central error handler, pagination, sorting | handlers | an answer's status tells what happened; the pages cover the rows, each once |
| RequestID, config, validate | none | one header, environment, messages | | |
| testutil, tests | | | | test code |

The behaviours that are hard are not in one handler but between several.
Every handler is a chain of SQL statements and *reads before it writes*: it
looks a row up, checks a foreign key or loads a list, and then writes on the
strength of an answer that another request may have made stale. GORM adds
statements the code does not show. `Save` is an UPDATE and, when that matches no
row, an INSERT ... ON DUPLICATE KEY UPDATE. `Association.Append` and `Replace`
insert the in-memory books before the join rows. `FirstOrCreate` is a SELECT
and an INSERT. A handler may fail after its write has committed (the reload for
the response, a lost acknowledgement), and since there is no recover
middleware a panic takes every request of the process with it.

The hazards are listed in `PROJECT.json`, each at its line with the properties
that cover it, or with a note when it is left for later.

## 2. Modules

    CatalogDB            the tables as a value, statements as operators on it
      CatalogRequests    requests and answers
        Requests         requests in flight: one pc and one set of locals each
          AuthorHandler  \
          BookHandler     > one action per SQL statement or transaction
          LibraryHandler /
            Catalog      the server: all handlers, failures, crashes; properties
              MCCatalog  workloads and symmetry for TLC
        CatalogAPI       abstract: the API for one client, atomic
    Pagination           page numbers, offsets and page counts in Go's int
      Reads              Catalog with clients that list, page and get, query by query
        MCReads
    RequestContract      abstract: what any write request may do
    RWMutex              Go's sync.RWMutex as a value
      Authorizer         the permission cache
    Boot                 Seed and the default role, several servers
      MCBoot
    Accounts             users, logins, tokens and cookies, the Auth middleware
      MCAccounts
      Access             a protected route: Accounts and Authorizer composed
        MCAccess
    CatalogDB_proofs > Catalog_proofs > Refinement_proofs, Reads_proofs
    Authorizer_proofs, Accounts_proofs > Access_proofs, Boot_proofs

### The catalogue

`CatalogDB` is a data model: a record of tables and one operator per statement,
so that a transaction is a composition of operators and a rollback is the
record one started from. An UPDATE finds its row if the row is there: `Save` also sets
`updated_at`, so MySQL counts the row as changed (two equal updates in one
millisecond apart, whose second statement then writes what is there already). What a statement does is GORM's and MySQL's
behaviour, read from how the handlers use them; these definitions are marked
external in the map. `Upsert` is the second statement of `Save`, `LinkFails`,
`AppendBooks` and `ReplaceBooks` are the association calls.

`Requests` gives each request in flight a program counter `pc[r]` (the
statement it sends next), its input `op[r]`, the handler's locals (`key`,
`ids`, `bks`: `book.ID`, the id list to look up, the `[]model.Book` it holds)
and its answer `ans[r]`. A handler's action does everything from one statement
to just before the next: guards are the code's `errors.Is` branches and early
returns. An explicit `db.Transaction` is one action, because InnoDB keeps the
rows it touched locked until the commit. `applied[r]` is a history variable: what
`r` asks for is in the database. `DbError` fails any statement, `CommitThen...`
may lose the acknowledgement of a commit, `Crash` ends the process with every
request in it.

Names, descriptions and keys are model values. Not kept: timestamps, the book's
description, and in `Catalog` the content of successful responses and the reads
that change nothing (both are in `Reads`). A `BookIDs` slice is a set because every handler passes it through
`dedupeUints`. The key that a rolled-back INSERT uses up stays available: keys
only matter as "handed out once to a row that was committed".

### Pages and reads

`Pagination` is `httpx/pagination.go` as operators on integers: `Atoi` answers the
nearest int for a number that does not fit, and the code drops its error; the
product in `Offset` wraps around; GORM writes no OFFSET that is not positive.
`MaxInt` is a constant, so that TLC can take a small one.

`Reads` puts clients beside the writers of `Catalog`. `reads[c]` is one List or Get
in flight: `at` is the query it sends next, `shown` what it has read. List is
Count, then Find; Get is First; then `Preload` sends the join rows, the books and
the authors, a query each. Every query is one action and sees the committed tables of its
moment; it may fail. A page is the rows between OFFSET and OFFSET + LIMIT in the
order of the sort field, and rows that tie may come in any order, which is all SQL
promises. `NextPage` is a client that goes on while there is a page left; it asks
for it by the page number in the answer, as the API is meant to be used. Names and
keys are numbers here, since they are ordered; of the sort fields, the two
timestamps are left out. `held`, `start`, `met`, `again` and `steady` are history
variables that say what stayed in the tables while a request or a walk was under
way. The key of an INSERT is any that was never handed out: AUTO_INCREMENT goes up,
but two INSERTs may commit in the other order than they took their keys.

### The Authorizer

`RWMutex` models Go's mutex with its three phases for a writer (announce, wait
for the readers, hold) and lets the readers that came meanwhile in first when a
writer unlocks. `Authorizer` has one action per critical section or statement
of `permsFor`, `Invalidate`, `Clear`. `Regrant` changes `role_permissions` at
any time: nothing in this process writes it while serving, another server's
Seed or a hand at the database may. `since` and `window` are history variables
that collect the sets a role has had since its last invalidation and since a
request came. `Restart` is the end of the process and the start of another, with
an empty cache.

### Boot

`Boot` runs `Seed` and `NewAuthHandler`'s role lookup statement by statement on
several servers that share the tables, may die anywhere and boot again.
`FirstOrCreate` is two actions, `Association.Replace` two. The order in which the
Go map `want` is ranged over is free. `GrantByHand` adds a grant behind the
server's back, which the comment of `syncRolePermissions` mentions.
A server that boots for the first time alone (`Together = FALSE`: another
boots beside it only once every permission and role exists) is how a rolling
deployment starts; `Together = TRUE` drops that. `default[s]` is the role id that
`NewAuthHandler` reads once and Register puts into every new user; `NewUsersAsCoded`
is about that copy, `ServesAsCoded` about the rows that a look-up would find.

### Accounts

`Accounts` follows a request of a browser through Register, Login, Logout or the
Auth middleware up to `c.Next()`, one action per query or per look at the clock:
`Generate` and the cookie's `Expires` read `time.Now` one after the other and
`Tick` may come between. `users` holds soft-deleted rows, which Login and Auth do
not see and the unique index on email does; the address of a deleted account can
therefore neither log in nor register again. `ChangeUser` deletes a user or
changes its role: no handler does, but Auth's second look exists for it. An
answer that sets the cookie is a step of its own, so that answers of one browser
overtake each other or get lost. `sent`, `registered` and `window` are history
variables: the logins a browser has sent since its last logout (when the cleared
cookie reaches it, `Deliver` keeps of them only those that another request of the
browser still carries, as a login or as the token of one), the registrations that were
confirmed, the (user, role) pairs that were active since a request came to Auth.
bcrypt and the token's signature are perfect; all other answers are comments (400,
401, 409, 500), since nothing later depends on them.

`Restart` ends the process and every request with it; what the browsers keep and the
users table stay.

### Access

`Access` composes the two into the chain of a protected route (router.go): the
goroutines that come to the `Authorizer` are the requests of `Accounts`, `Require`
hands over the role that Auth has put into `c.Locals`, `Finished` returns from the
chain. The permission a route declares is the constant `Needs`. Each action is an
action of `Accounts`, of the `Authorizer`, or of both at once (`Finished`,
`RestartAll`), so that what is proved of either holds of the composition.
`Invalidate` and `Clear` are not called, as in the program: what a role had when the
server first loaded it decides until the server is restarted, and the property
says no more than that.

### Abstract specifications

* `RequestContract`: a request changes the store in at most one step, is refused
  only if it changed nothing, succeeds only after it did. It says nothing of
  *what* is changed and holds for any number of requests. `Catalog` implements it
  (`KeepsContract`), checked by TLC and proved.
* `CatalogAPI`: the atomic API with its reasons to refuse and its effects, as one
  client sees it. The handlers with one request in flight implement it
  (`ImplementsAPI`, stated in `Catalog`), checked by TLC and proved. With several
  they do not; the three catalogue findings are behaviours where they do not.

## 3. Runs

| Run | Bounds | Distinct states | Shows |
|---|---|---|---|
| `shelf` (MCShelf) | 2 requests, 3 author keys, 2 book keys, 2 names | 112 k | `TypeOK`, `Integrity`, `KeepsContract` for authors and books |
| `libraries` (MCLibraries) | 2 requests, 1 author, 2 books, 2 libraries, 3 names | 562 k | `Integrity`, `KeepsContract` with libraries, and `UnlinkedOnDemand`, `LinksAsRequested` |
| `sequential` (MCSequential) | 1 request of any kind, 2 keys per table, 2 names | 50 k | `ImplementsAPI` |
| `authorizer` | 3 goroutines, 1 role, 1 permission | 51 k | `TypeOK`, `DecidedOnCurrentGrants`, `NoUselessLoad`, `EveryCallReturns` |
| `boot` (MCBoot) | 3 servers, 2 permissions, 2 grants by hand | 9 k | `TypeOK`, `NoDuplicates`, `ServesAsCoded`, `NewUsersAsCoded`, `NeverRevokes` |
| `accounts` (MCAccounts) | 2 requests, 2 browsers, 1 account, 2 passwords, 2 roles, TTL 1, clock to 1 | 1.4 M | `TypeOK`, `AdmittedIsCurrent`, `ActsOnlyAsLoggedIn`, `RegistrationStands`, `CookieOutlastsToken` |
| `reads` (MCReads) | 1 client, 1 writer, 3 keys handed out to authors and books, 1 library, int of 3 bits and a sign, pages of at most 2 | 1.1 M | `ReadsTypeOK`, `ShownWithParts`, `WalkMeetsAll`, `DeepPageIsNew` |
| `access` (MCAccess) | 2 requests, 1 browser, 1 user, 2 roles, 1 permission, 1 route | 87 k | `HandlerRunsRightfully`, `EveryRequestEnds` |
| `revive`, `overwrite`, `readd`, `boot_together` | 2 requests or servers | | a counterexample each, see Findings |

Why these bounds. A race in a handler needs the handler and one more writer, and
most need a second to be set up earlier and finished before: slots are reused, so
two requests in flight give arbitrarily many in sequence. Three author keys let one
author be deleted, one be updated and one own a book; two books let one be linked
and one not; two libraries show that an operation leaves the other alone; three
names are one for each of two libraries or books that collide and one apart.
Keys are handed out once and never again, which bounds a run: when they are used
up the requests that create have to fail (`DbError`). The proofs cover all other
values. In `accounts` one browser knows the password and the other may not; accounts
meet only in the unique email, so one suffices; a clock of two instants lets a
token be made before the tick, or between its two looks, and expire; `OnePassword`
lets a browser send the right or a wrong password but not both before it logs out.

In `reads` one client suffices, since readers change nothing and cannot meet; one
writer after another puts any number of writes between two queries. Three rows give
two pages and a part of one, or a walk that grows on the way; `MaxInt = 7` makes
page 9 saturate and its offset wrap, which 63 bits do in the same way. `FewRows`
drops failed INSERTs that use up a key, but lets the second author commit before the
first; `Apart` keeps the walks over authors
(where there is no book) apart from the reads that join tables: it drops
interleavings in which one client would do both, which share no state.

In `access` logins and their races are the business of `accounts`: `InOrder` lets the
user register and log in first and then sends protected requests only; `FewChanges`
lets the user change once and gives the permission to one role, so that a role lost
and a permission granted or denied both occur. `EveryRequestEnds` is checked
within these two constraints. They only keep registrations, logins and changes of
users and grants from happening, never a step of a request that is under way to
`c.Next()`.

Symmetry is used only in safety runs and only over values that no
operator orders or distinguishes; `Authorizer` and `Access` check liveness and
declare none.
Deadlock is checked in every run: a request can always be received, fail or end.

Fairness is assumed for the Authorizer and for requests that pass it. Weak fairness of `Step(g)`: a
goroutine that can run does, and MySQL or the driver ends a query one way or the
other. Strong fairness of `LockStep(g)`: `sync.Mutex`, on which writers queue,
does not pass one goroutine over for ever (its starvation mode hands the lock
over after 1 ms). `Call` and `Regrant` have no fairness. In `Access`, `Serving(r)`
takes the place of `Step(g)`: a request that has come is carried on, through Auth,
the Authorizer and its handler; no request has to come, and no change of users or
grants has to happen or to stop. The catalogue and boot
state safety only: nothing there waits for anything but the database.

Every property of a passing run has a mutant, a plausible slip in the code
(a lost foreign-key check, Replace for Append, an early return that keeps the
lock) under which TLC finds the property violated; the mutant operators stand in
the modules just before the definition they would replace.

## 4. Findings

| Run | Property | What the code does |
|---|---|---|
| `revive` | `DeletedAuthorStaysDeleted` | Update reads the author, a Delete removes it, `Save` inserts it again and answers 200; author.go:148 says the 404 before prevents exactly that |
| `overwrite` | `UpdateTouchesOwnAuthor` | the same race when another author holds the new name: MySQL's ON DUPLICATE KEY UPDATE rewrites that other author, and the client gets 200, not the 409 of author.go:163 |
| `readd` | `AddsOnlyGivenBooks` | `Append` also sends the books that AddBooks had preloaded: one that was removed meanwhile comes back (library.go:311) |
| `boot_together` | `NoDuplicates` | Seed's FirstOrCreate has no unique index behind it: two first boots at once duplicate rows (database.go:47). `NewUsersAsCoded` does not hold then either: a server may synchronise the second `user` row and give the first, which nobody has synchronised yet, to new users |

The same `Save` race exists in `BookHandler.Update` (book.go:194) and
`LibraryHandler.Update` (library.go:253). Smaller disagreements met on the way,
without a run: author.go:172 speaks of a soft delete where model/author.go:7-10
and the code delete for good; two concurrent deletes of one author both answer
204 though author.go:181 wants a 404 for the second; translate_err_param.md
("FK ihlalini önceden authorExists ile yakalıyoruz") relies on `authorExists`,
but an author deleted after the check makes the answer a 500; author.go:62
describes a `Session()` call that the code does not make; pagination.go:30-32 says
that invalid page numbers fall back to the first page, but one that does not fit
into an int becomes the largest int, and its offset wraps around: the answer may be
empty, or the first rows of the table again (`DeepPageIsNew` is stated for offsets
that fit, `Offset` wraps in the model as it does in the code).

Offset pages are only as steady as the table. A row that is deleted or renamed
on a page already read moves the rest up and the walk skips one; a row that an
Update revives (`revive` above) comes in under an old key, and the walk repeats
one; rows that tie in `author_id` or a timestamp may appear twice or never. So
`WalkMeetsAll` takes a field that is unique, and rows that are only added behind
the others.

## 5. Proofs

All theorems hold for every value of the constants that meets the named
assumptions: `NoRow` is no row, `Ops` is any set of well-formed requests without
`NoOp`, `NilIds` is no set of books; in the Authorizer, `Nobody` is no goroutine,
`NoEntry` no set and `NoCall` no call; `PaginationAssumption`, `AccountsAssumption`
and `AccessAssumption` likewise. `SeedAssumption` says of `permission.All()` what the
code has there: a list that is not empty, without repetitions, that holds all of
`userPermissions`. Only `ReadsAssumption` has the keys finite and no more of them than an
int can count, so that Count has a number to answer, and keys and names integers, so
that they have an order. A theorem that needs more says so itself: `~Together` in
`Boot_proofs`, one request slot (`Req = {r}`) in the last two of `Refinement_proofs`.

* `CatalogDB_proofs`: one lemma per statement, under the condition its handler
  guards it with, that it keeps `DbIntegrity` and the keys handed out.
* `Catalog_proofs`: `Spec => []TypeOK` and `Spec => []Integrity`. Integrity alone is
  not inductive: `Save` of a vanished row inserts under `op[r].id`, an association
  inserts the books in `bks[r]`, and both break `OnlyIssuedIds` unless those keys
  were handed out. `Locals(r)` says what a handler still knows of what it read, per
  statement: not that the row exists, which nobody can promise, but that its key
  was issued, which no step undoes. It also says when `applied[r]` may be true.
  `IInv` = `TypeOK`, `DbIntegrity`, `Locals`. One lemma per handler, one step per
  action; the other requests are untouched because keys only grow.
  Then `Spec => UnlinkedOnDemand` and `Spec => LinksAsRequested`, action properties of
  any number of requests. `IInv` does not say which books a handler holds when it
  writes; `Holds(r)` does: at "tx" of a Create or an Update they are those of its list
  (`fetchBooksByIDs` refuses unless it found them all), before the look-up none. A
  step then either leaves the links alone or is one of the writes of `WritesLinks`.
  `Append` needs no `Holds` here: it only adds, which is why the property survives
  the stale list of AddBooks that `readd` is about.
* `Refinement_proofs`: `Spec => KeepsContract`. Each action maps to a step of
  `RequestContract` or a stutter; `Locals`' last conjunct is what excludes a second
  write and a refusal after a write.
  Then `Spec => ImplementsAPI` for one request at a time, of any kind, over any number
  of rows. The invariant `Current(r)` is what `Locals` cannot be when others
  write: at each statement, all the handler has read *still* holds (the row is there,
  the author exists, `bks[r]` are the linked books and the requested ones). With it
  every First, check and commit is `Refuse` or `Apply` of `CatalogAPI` for the same
  reason in the data; a statement that only reads is a stutter; the reload is `Succeed`,
  and cannot fail for want of the row. `Upsert` is shown never to run.
  From the same step lemma, `AloneKeepsThePromises`: with one request in flight the
  three properties hold that `revive`, `overwrite` and `readd` refute for two.
* `Authorizer_proofs`: `Spec => []DecidedOnCurrentGrants` and `[]NoUselessLoad`.
  The invariant has mutual exclusion of the mutex (a goroutine that loads, stores
  or checks under the lock is the announced writer and no reader is inside), that
  a cache entry and a set being stored are in `since[role]`, and that
  `since[role]` stays within reach of the windows of the calls in progress.
* `Accounts_proofs`: `Spec => []` of each of the four account properties. The
  invariant follows what a browser has *earned*: `Knows(b, u)`, that b has sent the
  email and the password of u since its last logout, holds of every token a request carries, of every cookie
  under way and of every cookie in a jar. It survives every step because a user's row keeps
  its email and password even when it is deleted (`Grows`), which is also why
  Login may compare with a row it read earlier. A logout that reaches its browser
  empties the jar, and what it forgets nobody carries (`LoggedOutKept`): the token of
  an answer to Login is the one in the request's locals. While Auth runs, `window[r]`
  holds what the users are now, and from then on the pair Auth has admitted. A
  cookie's expiry is read after the token's, so it is no earlier.
* `Access_proofs`: `AccessSpec => Spec` and `AccessSpec => Az!Spec`, the composition
  implements both its parts, so that their invariants hold of it. `Coupled` relates
  them: a request is inside the Authorizer only at `c.Next()`, and the role it is
  there for is the one in its Locals. `HandlerRunsRightfully` follows from `Coupled`,
  the invariant of `Accounts` and that of the `Authorizer`.
* `Reads_proofs`: first the arithmetic of `Pagination` for every width of int: the range of
  `ParsePagination`, the offset that is exact as long as it fits, `TotalPages` as a
  ceiling, and that the pages up to it show every row once.
  `ReadsSpec => Spec`, so `Integrity` holds beside any number of readers;
  and `[]ShownWithParts`. The invariant says that what is `held` is in the tables of
  now, and that each query behind a reader has shown its share of it; integrity
  gives that a link that is held has its book, and a book its author.
  `[]WalkMeetsAll` and `[]DeepPageIsNew` rest on `WInv`. While a walk is `steady`, the rows
  that were there at its start are `Ahead`: no other row comes before one of them.
  Between Count and Find they are at most `total` many, and `total` at most what there
  is. In an order without ties the rows met so far are `Ahead` as well, and as many as
  the pages before could hold; there is then one set of first rows (`FirstsUnique`), so that
  OFFSET cuts off exactly what was met, and Find shows nothing again. That integrity
  leaves no ties in a unique column is `NoTies`.
* `Boot_proofs`: `Spec => []TypeOK` for any boots, and, as long as no two servers boot
  together on an empty database, `[]NoDuplicates`, `[]ServesAsCoded`, `[]NewUsersAsCoded` and `NeverRevokes` for
  any number of servers, permissions and deaths. Types need `Queued`: the maps that
  `seedPermissions` and `seedRoles` build have an entry for every name that is no longer
  queued, or a lookup would miss. Safety needs `SInv`: while a row is
  missing one server at most is up (`Alone`); an INSERT of FirstOrCreate happens only
  where there is no row; what is granted and not coded was granted by hand (`OnlyCoded`);
  and a server that has synchronised a role leaves behind all its coded grants
  (`Granted`), which no later step of any server takes away. The id of the default
  role lasts because no role is ever deleted (`DefaultFound`). Without `~Together`,
  `Alone` fails, and `boot_together` shows what follows.

Only model-checked: `EveryCallReturns` and `EveryRequestEnds`, since liveness under
fairness is beyond TLAPS here. The four properties of the violation runs are refuted,
not proved, for two requests or servers.

## 6. Not modelled, and the plan

1. Row locks inside the library transactions, for the deadlock of Delete against
   Update and AddBooks; `DbError` stands for the victim's error now.
2. The timestamps as sort fields, with the ties and the moves they bring.
3. What several requests still promise where `ImplementsAPI` fails: that a success
   answers the data of some moment while the request was under way, and the exact links
   that AddBooks may bring back (those it preloaded, and no others).

Left out for good: config, validate, RequestID, JSON and log formats (no state,
or formatting only), `Open` and `AutoMigrate` (pure I/O), bcrypt and JWT
signatures (taken as perfect), `RequireRole` (no route uses it), the tests.
