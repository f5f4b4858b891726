------------------------------ MODULE Requests ------------------------------
(***************************************************************************)
(* What every catalogue handler shares: the requests in flight, each one   *)
(* a goroutine of the server that runs its handler from one SQL statement  *)
(* to the next, and the answer it gets.  A step of a handler is everything *)
(* it does from one statement to just before the next one; an explicit     *)
(* transaction is one step, because InnoDB locks the rows it touches until *)
(* it commits.                                                             *)
(***************************************************************************)
EXTENDS CatalogRequests

CONSTANT Req    \* request slots: how many requests are in flight at once

VARIABLES
    db,         \* the database
    pc,         \* pc[r]: the statement r's handler sends next
    op,         \* op[r]: path parameter and body of r
    key,        \* key[r]: the primary key INSERT gave to r's book or library
    ids,        \* ids[r]: the []uint the handler looks up next
    bks,        \* bks[r]: the []model.Book the handler holds
    ans,        \* ans[r]: status and wrapped error of the answer
    applied     \* applied[r]: history, what r asks for is in the database

reqVars == <<pc, op, key, ids, bks, ans, applied>>
vars == <<db, reqVars>>

-----------------------------------------------------------------------------
Statements ==
    {"first", "check", "insert", "update", "upsert", "delete", "reload",
     "fetch", "joins", "books", "tx", "load"}

TypeOK ==
    /\ db \in Database
    /\ pc \in [Req -> Statements \cup {"idle", "done"}]
    /\ op \in [Req -> Ops \cup {NoOp}]
    /\ key \in [Req -> BookId \cup LibraryId \cup {NoRow}]
    /\ ids \in [Req -> SUBSET BookId]
    /\ bks \in [Req -> BookSlice]
    /\ ans \in [Req -> Answers]
    /\ applied \in [Req -> BOOLEAN]

Init ==
    /\ db = [authors    |-> [x \in AuthorId |-> NoRow],
             books      |-> NoBooks,
             libraries  |-> [x \in LibraryId |-> NoRow],
             links      |-> [x \in LibraryId |-> {}],
             authorIds  |-> {},
             bookIds    |-> {},
             libraryIds |-> {}]
    /\ pc = [r \in Req |-> "idle"]
    /\ op = [r \in Req |-> NoOp]
    /\ key = [r \in Req |-> NoRow]
    /\ ids = [r \in Req |-> {}]
    /\ bks = [r \in Req |-> NoBooks]
    /\ ans = [r \in Req |-> NoAnswer]
    /\ applied = [r \in Req |-> FALSE]

-----------------------------------------------------------------------------
(***************************************************************************)
(* The pieces handler steps are made of.                                   *)
(***************************************************************************)
(* On to statement s; the caller says what becomes of the locals. *)
Continue(r, s) == pc' = [pc EXCEPT ![r] = s] /\ UNCHANGED <<op, ans>>

Goto(r, s) == Continue(r, s) /\ UNCHANGED <<key, ids, bks>>

(* The handler returns: its locals are gone. *)
DropLocals(r) ==
    /\ op' = [op EXCEPT ![r] = NoOp]
    /\ key' = [key EXCEPT ![r] = NoRow]
    /\ ids' = [ids EXCEPT ![r] = {}]
    /\ bks' = [bks EXCEPT ![r] = NoBooks]

Answer(r, a) ==
    /\ pc' = [pc EXCEPT ![r] = "done"]
    /\ ans' = [ans EXCEPT ![r] = a]
    /\ DropLocals(r)

NoWrite == UNCHANGED <<db, applied>>

(* The database is already as r wants it. *)
NothingToWrite(r) == UNCHANGED db /\ applied' = [applied EXCEPT ![r] = TRUE]

Commit(r, d) == db' = d /\ applied' = [applied EXCEPT ![r] = TRUE]

(* The write is durable, but the driver may still lose MySQL's OK packet. *)
CommitThenAnswer(r, d, a) ==
    Commit(r, d) /\ (Answer(r, a) \/ Answer(r, ErrInternal("db")))

CommitThenGoto(r, d, s) ==
    Commit(r, d) /\ (Goto(r, s) \/ Answer(r, ErrInternal("db")))

(* The same for an INSERT, after which the row's struct holds its key. *)
CommitThenKeep(r, d, x, s) ==
    /\ Commit(r, d)
    /\ \/ Continue(r, s) /\ key' = [key EXCEPT ![r] = x] /\ UNCHANGED <<ids, bks>>
       \/ Answer(r, ErrInternal("db"))

(* db.First(&row, id): 404 when no row has the key. *)
First(r, table, next) ==
    /\ pc[r] = "first"
    /\ IF op[r].id \in Present(table) THEN Goto(r, next)
                                      ELSE Answer(r, ErrNotFound)
    /\ NoWrite

(* The statement fails: bad connection, timeout, deadlock victim. *)
DbError(r) ==
    /\ pc[r] \in Statements
    /\ Answer(r, ErrInternal("db"))
    /\ NoWrite

-----------------------------------------------------------------------------
(***************************************************************************)
(* The server accepts a request, sends its answer, or dies.                *)
(***************************************************************************)
Entry(o) ==
    CASE o \in CreateAuthorRequest -> "insert"
      [] o \in CreateBookRequest -> "check"
      [] o \in CreateLibraryRequest ->
            IF o.bookIds = {} THEN "tx" ELSE "fetch"
      [] OTHER -> "first"

Receive(r) ==
    /\ pc[r] = "idle"
    /\ \E o \in Ops :
        /\ op' = [op EXCEPT ![r] = o]
        /\ pc' = [pc EXCEPT ![r] = Entry(o)]
    /\ UNCHANGED <<db, key, ids, bks, ans, applied>>

(* parseID, Bind or the validator refuses the input. *)
Reject(r) ==
    /\ pc[r] = "idle"
    /\ Answer(r, ErrBadRequest)
    /\ NoWrite

Respond(r) ==
    /\ pc[r] = "done"
    /\ pc' = [pc EXCEPT ![r] = "idle"]
    /\ ans' = [ans EXCEPT ![r] = NoAnswer]
    /\ applied' = [applied EXCEPT ![r] = FALSE]
    /\ UNCHANGED <<db, op, key, ids, bks>>

(***************************************************************************)
(* There is no recover middleware: a panic, like a kill, ends the process  *)
(* and every request in it.  Uncommitted work is gone, the rest stays.     *)
(***************************************************************************)
Crash ==
    /\ \E r \in Req : pc[r] # "idle"
    /\ pc' = [r \in Req |-> "idle"]
    /\ op' = [r \in Req |-> NoOp]
    /\ key' = [r \in Req |-> NoRow]
    /\ ids' = [r \in Req |-> {}]
    /\ bks' = [r \in Req |-> NoBooks]
    /\ ans' = [r \in Req |-> NoAnswer]
    /\ applied' = [r \in Req |-> FALSE]
    /\ UNCHANGED db
=============================================================================
