-------------------------- MODULE Refinement_proofs --------------------------
(***************************************************************************)
(* The handlers implement RequestContract, for any number of requests and  *)
(* any workload, and CatalogAPI when there is one request at a time: every *)
(* step of Catalog is a step of the abstract specification or leaves it    *)
(* alone.                                                                  *)
(***************************************************************************)
EXTENDS Catalog_proofs

Refusals == {ErrBadRequest, ErrValidation, ErrNotFound, ErrConflict,
             ErrInternal("fk")}
Failures == {ErrInternal("db"), ErrInternal("missing")}
Successes == {Ok(200), Ok(201), Ok(204)}

Reading == {"reload", "load"}       \* the statements after the commit

ContractStep(r) ==
    \/ Contract!Begin(r) \/ Contract!Change(r) \/ Contract!Succeed(r)
    \/ Contract!Refuse(r) \/ Contract!Fail(r) \/ Contract!End(r)
    \/ UNCHANGED Contract!vars

-----------------------------------------------------------------------------
(***************************************************************************)
(* From a handler's pieces to the contract's actions.                      *)
(***************************************************************************)
LEMMA AnswerKinds ==
    /\ \A a \in Refusals : a.cause # "none" /\ a \notin Failures
    /\ \A a \in Failures : a.cause # "none"
    /\ \A a \in Successes : a.cause = "none"
    /\ Refusals \cup Failures \cup Successes \subseteq Answers
BY DEF Refusals, Failures, Successes, ErrBadRequest, ErrValidation, ErrNotFound,
       ErrConflict, ErrInternal, Ok, Answers

(* The phase that an answer of each kind leads to. *)
LEMMA Answered ==
    ASSUME IInv, NEW r \in Req, NEW a \in Answers, Answer(r, a)
    PROVE  /\ \A q \in Req \ {r} : Phase(q)' = Phase(q)
           /\ a \in Refusals => Phase(r)' = "refused"
           /\ a \in Failures => Phase(r)' = "failed"
           /\ a \in Successes => Phase(r)' = "succeeded"
<1>1. /\ pc' = [pc EXCEPT ![r] = "done"] /\ ans' = [ans EXCEPT ![r] = a]
      /\ pc \in [Req -> Statements \cup {"idle", "done"}]
      /\ ans \in [Req -> Answers]
  BY DEF Answer, IInv, TypeOK
<1>2. \A q \in Req \ {r} : Phase(q)' = Phase(q)
  BY <1>1 DEF Phase
<1>3. pc'[r] = "done" /\ ans'[r] = a
  BY <1>1
<1>4. QED
  BY <1>2, <1>3, AnswerKinds DEF Phase, Failures

LEMMA Moved ==
    ASSUME IInv, NEW r \in Req, pc[r] \in Statements, NEW s \in Statements,
           Continue(r, s)
    PROVE  \A q \in Req : Phase(q)' = Phase(q)
BY DEF Continue, IInv, TypeOK, Phase, Statements

LEMMA Running ==
    ASSUME IInv, NEW r \in Req
    PROVE  /\ pc[r] = "idle" => Phase(r) = "idle" /\ ~applied[r]
           /\ pc[r] \in Statements => Phase(r) = "running"
           /\ pc[r] \in Reading => applied[r]
           /\ pc[r] \in Statements \ Reading => ~applied[r]
BY DEF IInv, TypeOK, Locals, Phase, Statements, Reading

LEMMA Refuses ==
    ASSUME IInv, NEW r \in Req, NEW a \in Refusals, Answer(r, a), NoWrite,
           pc[r] \in {"idle"} \cup (Statements \ Reading)
    PROVE  ContractStep(r)
<1>1. Contract!Refuse(r)
  BY Answered, AnswerKinds, Running DEF Contract!Refuse, NoWrite
<1>2. QED
  BY <1>1 DEF ContractStep

LEMMA Fails ==
    ASSUME IInv, NEW r \in Req, NEW a \in Failures, Answer(r, a), NoWrite,
           pc[r] \in Statements
    PROVE  ContractStep(r)
<1>1. Contract!Fail(r)
  BY Answered, AnswerKinds, Running DEF Contract!Fail, NoWrite
<1>2. QED
  BY <1>1 DEF ContractStep

LEMMA Succeeds ==
    ASSUME IInv, NEW r \in Req, NEW a \in Successes, Answer(r, a), NoWrite,
           pc[r] \in Reading
    PROVE  ContractStep(r)
<1>1. Contract!Succeed(r)
  BY Answered, AnswerKinds, Running DEF Contract!Succeed, NoWrite, Reading, Statements
<1>2. QED
  BY <1>1 DEF ContractStep

LEMMA ChangesAndAnswers ==
    ASSUME IInv, NEW r \in Req, NEW d, NEW a \in Successes,
           CommitThenAnswer(r, d, a), pc[r] \in Statements \ Reading
    PROVE  ContractStep(r)
<1>1. ErrInternal("db") \in Failures
  BY DEF Failures
<1>2. Contract!Change(r)
  BY <1>1, Answered, AnswerKinds, Running
     DEF Contract!Change, CommitThenAnswer, Commit
<1>3. QED
  BY <1>2 DEF ContractStep

LEMMA ChangesAndContinues ==
    ASSUME IInv, NEW r \in Req, NEW d, NEW s \in Statements, Commit(r, d),
           Continue(r, s) \/ Answer(r, ErrInternal("db")),
           pc[r] \in Statements \ Reading
    PROVE  ContractStep(r)
<1>1. ErrInternal("db") \in Failures
  BY DEF Failures
<1>2. Contract!Change(r)
  BY <1>1, Answered, AnswerKinds, Running, Moved DEF Contract!Change, Commit
<1>3. QED
  BY <1>2 DEF ContractStep

LEMMA Continues ==
    ASSUME IInv, NEW r \in Req, NEW s \in Statements, Continue(r, s), NoWrite,
           pc[r] \in Statements
    PROVE  ContractStep(r)
<1>1. UNCHANGED Contract!vars
  BY Moved DEF Contract!vars, NoWrite
<1>2. QED
  BY <1>1 DEF ContractStep

-----------------------------------------------------------------------------
(***************************************************************************)
(* From the actions of the handlers to those pieces.                       *)
(***************************************************************************)
LEMMA Kinds ==
    /\ ErrBadRequest \in Refusals /\ ErrValidation \in Refusals
    /\ ErrNotFound \in Refusals /\ ErrConflict \in Refusals
    /\ ErrInternal("fk") \in Refusals
    /\ ErrInternal("db") \in Failures /\ ErrInternal("missing") \in Failures
    /\ \A s \in {200, 201, 204} : Ok(s) \in Successes
BY DEF Refusals, Failures, Successes

LEMMA FirstRefines ==
    ASSUME IInv, NEW r \in Req, NEW table, NEW s \in Statements, First(r, table, s)
    PROVE  ContractStep(r)
<1>1. CASE op[r].id \in Present(table)
  BY <1>1, Continues DEF First, Goto, Statements
<1>2. CASE op[r].id \notin Present(table)
  BY <1>2, Refuses, Kinds DEF First, Statements, Reading
<1>3. QED
  BY <1>1, <1>2

LEMMA AuthorRefines ==
    ASSUME IInv, NEW r \in Req, AuthorNext(r)
    PROVE  ContractStep(r)
<1> USE DEF Statements, Reading
<1>1. CASE AuthorCreate(r)
  BY <1>1, Refuses, ChangesAndAnswers, Kinds DEF AuthorCreate
<1>2. CASE AuthorUpdateFirst(r)
  BY <1>2, FirstRefines DEF AuthorUpdateFirst
<1>3. CASE AuthorUpdate(r)
  BY <1>3, Refuses, ChangesAndAnswers, Continues, Kinds DEF AuthorUpdate, Goto
<1>4. CASE AuthorUpsert(r)
  BY <1>4, Refuses, ChangesAndAnswers, Kinds DEF AuthorUpsert
<1>5. CASE AuthorDeleteFirst(r)
  BY <1>5, FirstRefines DEF AuthorDeleteFirst
<1>6. CASE AuthorDelete(r)
  BY <1>6, Refuses, ChangesAndAnswers, Kinds DEF AuthorDelete
<1>7. QED
  BY <1>1, <1>2, <1>3, <1>4, <1>5, <1>6 DEF AuthorNext

LEMMA BookRefines ==
    ASSUME IInv, NEW r \in Req, BookNext(r)
    PROVE  ContractStep(r)
<1> USE DEF Statements, Reading
<1>1. CASE BookCreateCheck(r) \/ BookUpdateCheck(r)
  <2>1. PICK s \in {"insert", "update"} : BookCheck(r, s)
    BY <1>1 DEF BookCreateCheck, BookUpdateCheck
  <2>2. QED
    BY <2>1, Refuses, Continues, Kinds DEF BookCheck, Goto
<1>2. CASE BookCreate(r)
  BY <1>2, Refuses, ChangesAndContinues, Kinds DEF BookCreate, CommitThenKeep
<1>3. CASE BookCreateReload(r) \/ BookUpdateReload(r)
  <2>1. PICK x \in {key[r], op[r].id}, c \in {200, 201} : BookReload(r, x, c)
    BY <1>3 DEF BookCreateReload, BookUpdateReload
  <2>2. QED
    BY <2>1, Succeeds, Fails, Kinds DEF BookReload
<1>4. CASE BookUpdateFirst(r)
  BY <1>4, FirstRefines DEF BookUpdateFirst
<1>5. CASE BookUpdate(r)
  BY <1>5, Refuses, ChangesAndContinues, Continues, Kinds
     DEF BookUpdate, CommitThenGoto, Goto
<1>6. CASE BookUpsert(r)
  BY <1>6, Refuses, ChangesAndContinues, Kinds DEF BookUpsert, CommitThenGoto, Goto
<1>7. CASE BookDeleteFirst(r)
  BY <1>7, FirstRefines DEF BookDeleteFirst
<1>8. CASE BookDelete(r)
  BY <1>8, Refuses, ChangesAndAnswers, Kinds DEF BookDelete
<1>9. QED
  BY <1>1, <1>2, <1>3, <1>4, <1>5, <1>6, <1>7, <1>8 DEF BookNext

LEMMA LibraryFirstRefines ==
    ASSUME IInv, NEW r \in Req,
           \/ LibraryUpdateFirst(r) \/ LibraryDeleteFirst(r)
           \/ AddBooksFirst(r) \/ RemoveBooksFirst(r)
    PROVE  ContractStep(r)
<1>1. PICK s \in {"tx", "fetch", "joins", "delete"} : First(r, db.libraries, s)
  BY DEF LibraryUpdateFirst, LibraryDeleteFirst, AddBooksFirst, RemoveBooksFirst
<1>2. QED
  BY <1>1, FirstRefines DEF Statements

LEMMA LibraryFetchRefines ==
    ASSUME IInv, NEW r \in Req,
           LibraryCreateFetch(r) \/ LibraryUpdateFetch(r) \/ AddBooksFetch(r)
    PROVE  ContractStep(r)
<1>1. PICK wanted \in {op[r].bookIds, ids[r]} : FetchBooks(r, wanted)
  BY DEF LibraryCreateFetch, LibraryUpdateFetch, AddBooksFetch
<1>2. QED
  BY <1>1, Refuses, Continues, Kinds DEF FetchBooks, Statements, Reading

LEMMA LibraryLoadRefines ==
    ASSUME IInv, NEW r \in Req,
           \/ LibraryCreateLoad(r) \/ LibraryUpdateLoad(r)
           \/ AddBooksLoad(r) \/ RemoveBooksLoad(r)
    PROVE  ContractStep(r)
<1>1. PICK x \in {key[r], op[r].id}, c \in {200, 201} : LibraryLoad(r, x, c)
  BY DEF LibraryCreateLoad, LibraryUpdateLoad, AddBooksLoad, RemoveBooksLoad
<1>2. QED
  BY <1>1, Succeeds, Fails, Kinds DEF LibraryLoad, Statements, Reading

LEMMA AddBooksRefines ==
    ASSUME IInv, NEW r \in Req,
           AddBooksJoins(r) \/ AddBooksBooks(r) \/ AddBooksAppend(r)
    PROVE  ContractStep(r)
<1> USE DEF Statements, Reading
<1>1. ASSUME NEW linked, AddBooksLookup(r, linked), pc[r] \in {"joins", "books"}
      PROVE  ContractStep(r)
  <2>1. CASE Continue(r, "load") /\ NothingToWrite(r)
    BY <1>1, <2>1, ChangesAndContinues DEF NothingToWrite, Commit
  <2>2. CASE Continue(r, "fetch") /\ NoWrite
    BY <1>1, <2>2, Continues
  <2>3. QED
    BY <1>1, <2>1, <2>2 DEF AddBooksLookup
<1>2. CASE AddBooksJoins(r)
  BY <1>1, <1>2, Continues DEF AddBooksJoins
<1>3. CASE AddBooksBooks(r)
  BY <1>1, <1>3 DEF AddBooksBooks
<1>4. CASE AddBooksAppend(r)
  BY <1>4, Refuses, ChangesAndContinues, Kinds DEF AddBooksAppend, CommitThenGoto, Goto
<1>5. QED
  BY <1>2, <1>3, <1>4

LEMMA LibraryRefines ==
    ASSUME IInv, NEW r \in Req, LibraryNext(r)
    PROVE  ContractStep(r)
<1> USE DEF Statements, Reading
<1>1. CASE LibraryCreateTx(r)
  BY <1>1, Refuses, ChangesAndContinues, Kinds DEF LibraryCreateTx, CommitThenKeep
<1>2. CASE LibraryUpdateTx(r)
  BY <1>2, Refuses, ChangesAndContinues, Kinds
     DEF LibraryUpdateTx, CommitThenGoto, Goto
<1>3. CASE LibraryDeleteTx(r)
  BY <1>3, Refuses, ChangesAndAnswers, Kinds DEF LibraryDeleteTx
<1>4. CASE RemoveBooksDelete(r)
  BY <1>4, ChangesAndContinues, Kinds DEF RemoveBooksDelete, CommitThenGoto, Goto
<1>5. QED
  BY <1>1, <1>2, <1>3, <1>4, LibraryFirstRefines, LibraryFetchRefines,
     LibraryLoadRefines, AddBooksRefines DEF LibraryNext

LEMMA ServerRefines ==
    ASSUME IInv, NEW r \in Req,
           Receive(r) \/ Reject(r) \/ DbError(r) \/ Respond(r)
    PROVE  ContractStep(r)
<1>1. CASE Receive(r)
  <2>1. PICK o \in Ops : pc' = [pc EXCEPT ![r] = Entry(o)]
    BY <1>1 DEF Receive
  <2>2. Entry(o) \in Statements
    BY DEF Entry, Statements
  <2>3. /\ Phase(r) = "idle" /\ Phase(r)' = "running"
        /\ \A q \in Req \ {r} : Phase(q)' = Phase(q)
    BY <1>1, <2>1, <2>2, Running
       DEF Receive, Phase, IInv, TypeOK, Statements
  <2>4. Contract!Begin(r)
    BY <1>1, <2>3 DEF Receive, Contract!Begin
  <2>5. QED
    BY <2>4 DEF ContractStep
<1>2. CASE Reject(r)
  BY <1>2, Refuses, Kinds DEF Reject
<1>3. CASE DbError(r)
  BY <1>3, Fails, Kinds DEF DbError
<1>4. CASE Respond(r)
  <2>1. /\ Phase(r) \in {"succeeded", "refused", "failed"} /\ Phase(r)' = "idle"
        /\ \A q \in Req \ {r} : Phase(q)' = Phase(q)
    BY <1>4 DEF Respond, Phase, IInv, TypeOK
  <2>2. Contract!End(r)
    BY <1>4, <2>1 DEF Respond, Contract!End, IInv, TypeOK
  <2>3. QED
    BY <2>2 DEF ContractStep
<1>5. QED
  BY <1>1, <1>2, <1>3, <1>4

LEMMA StepRefines ==
    ASSUME IInv, [Next]_vars
    PROVE  [Contract!Next]_(Contract!vars)
<1>1. CASE UNCHANGED vars
  BY <1>1 DEF vars, reqVars, Contract!vars, Phase
<1>2. CASE Crash
  <2>1. Contract!Die
    BY <1>2 DEF Crash, Contract!Die, Phase
  <2>2. QED
    BY <2>1 DEF Contract!Next
<1>3. ASSUME NEW r \in Req,
             Receive(r) \/ Reject(r) \/ Handle(r) \/ DbError(r) \/ Respond(r)
      PROVE  [Contract!Next]_(Contract!vars)
  <2>1. ContractStep(r)
    BY <1>3, AuthorRefines, BookRefines, LibraryRefines, ServerRefines DEF Handle
  <2>2. QED
    BY <2>1 DEF ContractStep, Contract!Next
<1>4. QED
  BY <1>1, <1>2, <1>3 DEF Next

(* A request of any kind takes effect at most once and in one atomic step, *)
(* a refusal means no effect, a success comes after the commit: for every  *)
(* handler of author.go, book.go and library.go, any number of requests in *)
(* flight, any failures and crashes.                                       *)
THEOREM HandlersKeepContract == Spec => KeepsContract
<1>1. Init => Contract!Init
  BY DEF Init, Contract!Init, Phase
<1>2. IInv /\ [Next]_vars => [Contract!Next]_(Contract!vars)
  BY StepRefines
<1>3. QED
  BY <1>1, <1>2, Invariance, PTL DEF Spec, KeepsContract, Contract!Spec

-----------------------------------------------------------------------------
(***************************************************************************)
(* One request at a time.  What the handler has read is then still so at   *)
(* each of its statements: this is the invariant, kind by kind.            *)
(***************************************************************************)
AuthorCurrent(r, o) ==
    \/ o \in CreateAuthorRequest /\ pc[r] = "insert"
    \/ /\ o \in UpdateAuthorRequest
       /\ \/ pc[r] = "first"
          \/ pc[r] = "update" /\ o.id \in Present(db.authors)
    \/ /\ o \in DeleteAuthorRequest
       /\ \/ pc[r] = "first"
          \/ pc[r] = "delete" /\ o.id \in Present(db.authors)

BookCurrent(r, o) ==
    \/ /\ o \in CreateBookRequest
       /\ \/ pc[r] = "check"
          \/ pc[r] = "insert" /\ AuthorExists(o)
          \/ pc[r] = "reload" /\ key[r] \in Present(db.books)
    \/ /\ o \in UpdateBookRequest
       /\ \/ pc[r] = "first"
          \/ /\ o.id \in Present(db.books)
             /\ \/ pc[r] \in {"check", "reload"}
                \/ pc[r] = "update" /\ AuthorExists(o)
    \/ /\ o \in DeleteBookRequest
       /\ \/ pc[r] = "first"
          \/ pc[r] = "delete" /\ o.id \in Present(db.books)

AddBooksCurrent(r, o) ==
    /\ o \in AddBooksRequest
    /\ \/ pc[r] = "first"
       \/ /\ o.id \in Present(db.libraries)
          /\ \/ pc[r] = "joins" /\ bks[r] = NoBooks
             \/ pc[r] = "books" /\ ids[r] = db.links[o.id]
             \/ /\ pc[r] = "fetch"
                /\ ids[r] = o.bookIds \ db.links[o.id]
                /\ Present(bks[r]) = db.links[o.id]
             \/ /\ pc[r] = "tx"
                /\ Present(bks[r]) = db.links[o.id] \cup o.bookIds
                /\ Present(bks[r]) \subseteq Present(db.books)
             \/ pc[r] = "load"

LibraryCurrent(r, o) ==
    \/ /\ o \in CreateLibraryRequest
       /\ \/ pc[r] = "fetch"
          \/ pc[r] = "tx" /\ Present(bks[r]) \subseteq Present(db.books)
          \/ pc[r] = "load" /\ key[r] \in Present(db.libraries)
    \/ /\ o \in UpdateLibraryRequest
       /\ \/ pc[r] = "first"
          \/ /\ o.id \in Present(db.libraries)
             /\ \/ pc[r] = "fetch" /\ o.bookIds # NilIds
                \/ pc[r] = "tx" /\ Present(bks[r]) \subseteq Present(db.books)
                \/ pc[r] = "load"
    \/ /\ o \in DeleteLibraryRequest
       /\ \/ pc[r] = "first"
          \/ pc[r] = "tx" /\ o.id \in Present(db.libraries)
    \/ /\ o \in RemoveBooksRequest
       /\ \/ pc[r] = "first"
          \/ pc[r] \in {"delete", "load"} /\ o.id \in Present(db.libraries)
    \/ AddBooksCurrent(r, o)

Current(r) ==
    \/ pc[r] = "idle" /\ op[r] = NoOp /\ ans[r] = NoAnswer
    \/ pc[r] = "done" /\ op[r] = NoOp /\ ans[r] # NoAnswer
    \/ /\ pc[r] \in Statements /\ op[r] \in Ops /\ ans[r] = NoAnswer
       /\ \/ AuthorCurrent(r, op[r]) \/ BookCurrent(r, op[r])
          \/ LibraryCurrent(r, op[r])

Alone(r) == r = TheRequest /\ Req = {r} /\ LInv /\ Current(r)

APIStep == [API!Next]_(API!vars)

(* The abstract specification says the same words. *)
LEMMA SameRequests ==
    /\ API!CreateAuthorRequest = CreateAuthorRequest
    /\ API!UpdateAuthorRequest = UpdateAuthorRequest
    /\ API!DeleteAuthorRequest = DeleteAuthorRequest
    /\ API!CreateBookRequest = CreateBookRequest
    /\ API!UpdateBookRequest = UpdateBookRequest
    /\ API!DeleteBookRequest = DeleteBookRequest
    /\ API!CreateLibraryRequest = CreateLibraryRequest
    /\ API!UpdateLibraryRequest = UpdateLibraryRequest
    /\ API!DeleteLibraryRequest = DeleteLibraryRequest
    /\ API!AddBooksRequest = AddBooksRequest
    /\ API!RemoveBooksRequest = RemoveBooksRequest
BY DEF API!CreateAuthorRequest, CreateAuthorRequest, API!UpdateAuthorRequest,
       UpdateAuthorRequest, API!DeleteAuthorRequest, DeleteAuthorRequest,
       API!CreateBookRequest, CreateBookRequest, API!UpdateBookRequest,
       UpdateBookRequest, API!DeleteBookRequest, DeleteBookRequest,
       API!CreateLibraryRequest, CreateLibraryRequest, API!UpdateLibraryRequest,
       UpdateLibraryRequest, API!DeleteLibraryRequest, DeleteLibraryRequest,
       API!AddBooksRequest, AddBooksRequest, API!RemoveBooksRequest,
       RemoveBooksRequest

LEMMA SameAnswers ==
    /\ API!NoAnswer = NoAnswer /\ API!ErrBadRequest = ErrBadRequest
    /\ API!ErrValidation = ErrValidation /\ API!ErrNotFound = ErrNotFound
    /\ API!ErrConflict = ErrConflict
    /\ \A c : API!ErrInternal(c) = ErrInternal(c)
    /\ \A s : API!Ok(s) = Ok(s)
BY DEF API!NoAnswer, NoAnswer, API!ErrBadRequest, ErrBadRequest,
       API!ErrValidation, ErrValidation, API!ErrNotFound, ErrNotFound,
       API!ErrConflict, ErrConflict, API!ErrInternal, ErrInternal, API!Ok, Ok

(* The endpoints tell the kinds of requests apart. *)
LEMMA Endpoints ==
    ASSUME NEW o
    PROVE  /\ o \in CreateAuthorRequest => o.endpoint = "POST authors"
           /\ o \in UpdateAuthorRequest => o.endpoint = "PUT authors"
           /\ o \in DeleteAuthorRequest => o.endpoint = "DELETE authors"
           /\ o \in CreateBookRequest => o.endpoint = "POST books"
           /\ o \in UpdateBookRequest => o.endpoint = "PUT books"
           /\ o \in DeleteBookRequest => o.endpoint = "DELETE books"
           /\ o \in CreateLibraryRequest => o.endpoint = "POST libraries"
           /\ o \in UpdateLibraryRequest => o.endpoint = "PUT libraries"
           /\ o \in DeleteLibraryRequest => o.endpoint = "DELETE libraries"
           /\ o \in AddBooksRequest => o.endpoint = "POST libraries/books"
           /\ o \in RemoveBooksRequest => o.endpoint = "DELETE libraries/books"
BY DEF CreateAuthorRequest, UpdateAuthorRequest, DeleteAuthorRequest,
       CreateBookRequest, UpdateBookRequest, DeleteBookRequest,
       CreateLibraryRequest, UpdateLibraryRequest, DeleteLibraryRequest,
       AddBooksRequest, RemoveBooksRequest

LEMMA AnAnswer ==
    /\ ErrBadRequest # NoAnswer /\ ErrValidation # NoAnswer
    /\ ErrNotFound # NoAnswer /\ ErrConflict # NoAnswer
    /\ \A c : ErrInternal(c) # NoAnswer
    /\ \A s \in {200, 201, 204} : Ok(s) # NoAnswer
BY DEF ErrBadRequest, ErrValidation, ErrNotFound, ErrConflict, ErrInternal, Ok,
       NoAnswer

(***************************************************************************)
(* From a handler's pieces to the actions of the API.                      *)
(***************************************************************************)
LEMMA AloneType ==
    ASSUME NEW r \in Req, Alone(r)
    PROVE  /\ IInv /\ Holds(r) /\ TheRequest = r
           /\ op \in [Req -> Ops \cup {NoOp}] /\ ans \in [Req -> Answers]
           /\ pc \in [Req -> Statements \cup {"idle", "done"}]
           /\ applied \in [Req -> BOOLEAN]
           /\ pc[r] \in Statements => op[r] # NoOp /\ op[r] \in Ops
           /\ pc[r] \in Statements => ans[r] = NoAnswer
           /\ pc[r] \in Reading => applied[r]
           /\ pc[r] \in Statements \ Reading => ~applied[r]
<1>1. NoOp \notin Ops
  BY OpsAssumption
<1>2. QED
  BY <1>1, Running DEF Alone, LInv, IInv, TypeOK, Current, Statements

LEMMA AnswersAPI ==
    ASSUME NEW r \in Req, Alone(r), NEW a, a # NoAnswer, Answer(r, a)
    PROVE  API!Return(a) /\ Current(r)'
<1>1. op'[r] = NoOp /\ ans'[r] = a /\ pc'[r] = "done"
  BY AloneType DEF Answer, DropLocals
<1>2. QED
  BY <1>1, AloneType DEF API!Return, Current

LEMMA GoesOnAPI ==
    ASSUME NEW r \in Req, Alone(r), UNCHANGED <<db, applied, op, ans>>
    PROVE  APIStep
BY AloneType DEF APIStep, API!vars

LEMMA RefusesAPI ==
    ASSUME NEW r \in Req, Alone(r), pc[r] \in Statements \ Reading,
           NEW a, Answer(r, a), NoWrite,
           \/ API!NotFound /\ a = ErrNotFound
           \/ ~API!NotFound /\ API!Dangling /\ a = ErrValidation
           \/ /\ ~API!NotFound /\ ~API!Dangling /\ API!NameConflict
              /\ a = ErrConflict
           \/ ~API!NotFound /\ API!InUse /\ a = ErrInternal("fk")
    PROVE  APIStep /\ Current(r)'
<1>1. API!Return(a) /\ Current(r)'
  BY AnswersAPI, AnAnswer
<1>2. API!Refuse
  BY <1>1, AloneType, SameAnswers DEF API!Refuse, NoWrite
<1>3. QED
  BY <1>1, <1>2 DEF APIStep, API!Next

LEMMA FailsAPI ==
    ASSUME NEW r \in Req, Alone(r), pc[r] \in Statements,
           Answer(r, ErrInternal("db")), NoWrite
    PROVE  APIStep /\ Current(r)'
<1>1. API!Return(ErrInternal("db")) /\ Current(r)'
  BY AnswersAPI, AnAnswer
<1>2. API!Fail
  BY <1>1, AloneType, SameAnswers DEF API!Fail, NoWrite
<1>3. QED
  BY <1>1, <1>2 DEF APIStep, API!Next

LEMMA SucceedsAPI ==
    ASSUME NEW r \in Req, Alone(r), pc[r] \in Reading, NoWrite,
           NEW s \in {200, 201, 204}, API!SuccessStatus = s, Answer(r, Ok(s))
    PROVE  APIStep /\ Current(r)'
<1>1. API!Return(Ok(s)) /\ Current(r)'
  BY AnswersAPI, AnAnswer
<1>2. API!Succeed
  BY <1>1, AloneType, SameAnswers DEF API!Succeed, NoWrite, Statements, Reading
<1>3. QED
  BY <1>1, <1>2 DEF APIStep, API!Next

Effects == \/ API!CreateEffect \/ API!UpdateEffect
           \/ API!DeleteEffect \/ API!MemberEffect

(* A commit, with or without its answer. *)
LEMMA AppliesAPI ==
    ASSUME NEW r \in Req, Alone(r), pc[r] \in Statements \ Reading,
           API!Allowed, Effects, NEW d, Commit(r, d),
           NEW s \in {200, 201, 204}, API!SuccessStatus = s,
           \/ UNCHANGED <<op, ans>> /\ Current(r)'
           \/ Answer(r, Ok(s))
           \/ Answer(r, ErrInternal("db"))
    PROVE  APIStep /\ Current(r)'
<1>1. /\ Current(r)'
      /\ \/ UNCHANGED <<op, ans>>
         \/ API!Return(Ok(s))
         \/ API!Return(ErrInternal("db"))
  BY AnswersAPI, AnAnswer
<1>2. applied'[TheRequest] = TRUE /\ ~applied[TheRequest] /\ op[TheRequest] # NoOp
  BY AloneType DEF Commit
<1>3. API!Apply
  BY <1>1, <1>2, SameAnswers DEF API!Apply, Effects
<1>4. QED
  BY <1>1, <1>3 DEF APIStep, API!Next

-----------------------------------------------------------------------------
(***************************************************************************)
(* The reasons to refuse a request, in the words of the handlers.          *)
(***************************************************************************)
LEMMA Tables ==
    ASSUME NEW r \in Req, Alone(r)
    PROVE  /\ DOMAIN db.authors = AuthorId /\ DOMAIN db.books = BookId
           /\ DOMAIN db.libraries = LibraryId
           /\ Present(db.authors) \subseteq db.authorIds
           /\ Present(db.books) \subseteq db.bookIds
           /\ Present(db.libraries) \subseteq db.libraryIds
           /\ \A l \in LibraryId : db.links[l] \subseteq Present(db.books)
           /\ \A b \in Present(db.books) :
                 db.books[b].author \in Present(db.authors)
BY AloneType, DbNow
   DEF BookSlice, Sound, DbIntegrity, LinksHaveEnds, BooksHaveAuthors

LEMMA NotFoundMeans ==
    ASSUME NEW r \in Req, Alone(r)
    PROVE  API!NotFound <=>
              \/ /\ op[r] \in UpdateAuthorRequest \cup DeleteAuthorRequest
                 /\ op[r].id \notin Present(db.authors)
              \/ /\ op[r] \in UpdateBookRequest \cup DeleteBookRequest
                 /\ op[r].id \notin Present(db.books)
              \/ /\ op[r] \in UpdateLibraryRequest \cup DeleteLibraryRequest
                               \cup AddBooksRequest \cup RemoveBooksRequest
                 /\ op[r].id \notin Present(db.libraries)
<1>1. /\ op[r] \in UpdateAuthorRequest \cup DeleteAuthorRequest => op[r].id \in AuthorId
      /\ op[r] \in UpdateBookRequest \cup DeleteBookRequest => op[r].id \in BookId
      /\ op[r] \in UpdateLibraryRequest \cup DeleteLibraryRequest
                     \cup AddBooksRequest \cup RemoveBooksRequest
            => op[r].id \in LibraryId
  BY DEF UpdateAuthorRequest, DeleteAuthorRequest, UpdateBookRequest,
         DeleteBookRequest, UpdateLibraryRequest, DeleteLibraryRequest,
         AddBooksRequest, RemoveBooksRequest
<1>2. QED
  BY <1>1, AloneType, Tables, SameRequests DEF API!NotFound, API!HasRow, Present

LEMMA DanglingMeans ==
    ASSUME NEW r \in Req, Alone(r)
    PROVE  API!Dangling <=>
              \/ /\ op[r] \in CreateBookRequest \cup UpdateBookRequest
                 /\ ~AuthorExists(op[r])
              \/ /\ \/ op[r] \in CreateLibraryRequest \cup AddBooksRequest
                    \/ op[r] \in UpdateLibraryRequest /\ op[r].bookIds # NilIds
                 /\ ~(op[r].bookIds \subseteq Present(db.books))
<1>1. /\ op[r] \in CreateBookRequest \cup UpdateBookRequest
            => op[r].author \in AuthorId
      /\ op[r] \in CreateLibraryRequest \cup AddBooksRequest
            => op[r].bookIds \in SUBSET BookId
      /\ op[r] \in UpdateLibraryRequest /\ op[r].bookIds # NilIds
            => op[r].bookIds \in SUBSET BookId
  BY DEF CreateBookRequest, UpdateBookRequest, CreateLibraryRequest,
         AddBooksRequest, UpdateLibraryRequest
<1>2. QED
  BY <1>1, AloneType, Tables, SameRequests
     DEF API!Dangling, API!HasRow, Present, AuthorExists

LEMMA NameConflictMeans ==
    ASSUME NEW r \in Req, Alone(r)
    PROVE  API!NameConflict <=>
              \/ /\ op[r] \in CreateAuthorRequest
                 /\ \E y \in Present(db.authors) : db.authors[y].name = op[r].name
              \/ /\ op[r] \in CreateBookRequest
                 /\ \E y \in Present(db.books) : db.books[y].name = op[r].name
              \/ /\ op[r] \in CreateLibraryRequest
                 /\ \E y \in Present(db.libraries) :
                       db.libraries[y].name = op[r].name
              \/ /\ op[r] \in UpdateAuthorRequest
                 /\ NameTaken(db.authors, op[r].name, op[r].id)
              \/ /\ op[r] \in UpdateBookRequest
                 /\ NameTaken(db.books, op[r].name, op[r].id)
              \/ /\ op[r] \in UpdateLibraryRequest
                 /\ NameTaken(db.libraries, op[r].name, op[r].id)
BY AloneType, SameRequests
   DEF API!NameConflict, API!NameHeld, API!HeldByOther, API!HasRow, Present,
       NameTaken

LEMMA InUseMeans ==
    ASSUME NEW r \in Req, Alone(r)
    PROVE  API!InUse <=>
              \/ /\ op[r] \in DeleteAuthorRequest
                 /\ AuthorReferenced(db, op[r].id)
              \/ /\ op[r] \in DeleteBookRequest
                 /\ BookReferenced(db, op[r].id)
BY AloneType, Tables, SameRequests
   DEF API!InUse, API!HasRow, Present, AuthorReferenced, BookReferenced

LEMMA SuccessStatusMeans ==
    ASSUME NEW r \in Req, Alone(r)
    PROVE  /\ op[r] \in CreateAuthorRequest \cup CreateBookRequest
                           \cup CreateLibraryRequest
                 => API!SuccessStatus = 201
           /\ op[r] \in DeleteAuthorRequest \cup DeleteBookRequest
                           \cup DeleteLibraryRequest
                 => API!SuccessStatus = 204
           /\ op[r] \in UpdateAuthorRequest \cup UpdateBookRequest
                           \cup UpdateLibraryRequest \cup AddBooksRequest
                           \cup RemoveBooksRequest
                 => API!SuccessStatus = 200
<1> DEFINE created == op[r] \in CreateAuthorRequest \cup CreateBookRequest
                                  \cup CreateLibraryRequest
           deleted == op[r] \in DeleteAuthorRequest \cup DeleteBookRequest
                                  \cup DeleteLibraryRequest
<1>1. ~(created /\ deleted)
  BY Endpoints
<1>2. API!SuccessStatus = CASE created -> 201 [] deleted -> 204 [] OTHER -> 200
  BY AloneType, SameRequests DEF API!SuccessStatus
<1> HIDE DEF created, deleted
<1>3. /\ created => API!SuccessStatus = 201
      /\ deleted => API!SuccessStatus = 204
      /\ ~created /\ ~deleted => API!SuccessStatus = 200
  BY <1>1, <1>2
<1>4. op[r] \in UpdateAuthorRequest \cup UpdateBookRequest
                 \cup UpdateLibraryRequest \cup AddBooksRequest
                 \cup RemoveBooksRequest => ~created /\ ~deleted
  BY Endpoints DEF created, deleted
<1>5. QED
  BY <1>3, <1>4 DEF created, deleted

LEMMA FirstAPI ==
    ASSUME NEW r \in Req, Alone(r), NEW table, NEW s \in Statements,
           First(r, table, s),
           API!NotFound <=> op[r].id \notin Present(table),
           op[r].id \in Present(table) /\ Goto(r, s) /\ NoWrite => Current(r)'
    PROVE  APIStep /\ Current(r)'
<1>1. CASE op[r].id \in Present(table)
  BY <1>1, GoesOnAPI DEF First, Goto, Continue, NoWrite
<1>2. CASE op[r].id \notin Present(table)
  BY <1>2, RefusesAPI DEF First, Statements, Reading
<1>3. QED
  BY <1>1, <1>2

-----------------------------------------------------------------------------
(***************************************************************************)
(* author.go                                                               *)
(***************************************************************************)
LEMMA AuthorCreateAPI ==
    ASSUME NEW r \in Req, Alone(r), AuthorCreate(r)
    PROVE  APIStep /\ Current(r)'
<1>1. op[r] \in CreateAuthorRequest /\ pc[r] \in Statements \ Reading
  BY DEF AuthorCreate, Statements, Reading
<1>2. /\ ~API!NotFound /\ ~API!Dangling /\ ~API!InUse /\ API!SuccessStatus = 201
      /\ API!NameConflict <=>
            \E y \in Present(db.authors) : db.authors[y].name = op[r].name
  <2>1. ~API!NotFound
    BY <1>1, Endpoints, NotFoundMeans
  <2>2. ~API!Dangling
    BY <1>1, Endpoints, DanglingMeans
  <2>3. ~API!InUse
    BY <1>1, Endpoints, InUseMeans
  <2>4. API!SuccessStatus = 201
    BY <1>1, SuccessStatusMeans
  <2>5. API!NameConflict <=>
            \E y \in Present(db.authors) : db.authors[y].name = op[r].name
    BY <1>1, Endpoints, NameConflictMeans
  <2>6. QED
    BY <2>1, <2>2, <2>3, <2>4, <2>5
<1>3. PICK x \in AuthorId \ db.authorIds :
         \/ /\ NameTaken(db.authors, op[r].name, x)
            /\ Answer(r, ErrConflict) /\ NoWrite
         \/ /\ ~NameTaken(db.authors, op[r].name, x)
            /\ CommitThenAnswer(r, InsertAuthor(db, x, AuthorOf(op[r])), Ok(201))
  BY DEF AuthorCreate
<1>4. NameTaken(db.authors, op[r].name, x) <=> API!NameConflict
  BY <1>2, <1>3, Tables DEF NameTaken
<1>5. CASE NameTaken(db.authors, op[r].name, x)
  BY <1>1, <1>2, <1>3, <1>4, <1>5, RefusesAPI
<1>6. CASE ~NameTaken(db.authors, op[r].name, x)
  <2>1. db' = InsertAuthor(db, x, AuthorOf(op[r]))
    BY <1>3, <1>6 DEF CommitThenAnswer, Commit
  <2>2. Effects
    BY <1>1, <1>3, <2>1, AloneType, SameRequests
       DEF Effects, API!CreateEffect, InsertAuthor, AuthorOf
  <2>3. API!Allowed
    BY <1>2, <1>4, <1>6 DEF API!Allowed
  <2>4. QED
    BY <1>1, <1>2, <1>3, <1>6, <2>2, <2>3, AppliesAPI DEF CommitThenAnswer
<1>7. QED
  BY <1>5, <1>6

LEMMA AuthorUpdateAPI ==
    ASSUME NEW r \in Req, Alone(r), op[r] \in UpdateAuthorRequest,
           AuthorNext(r)
    PROVE  APIStep /\ Current(r)'
<1> DEFINE id == op[r].id
<1>1. /\ op[r] \in Ops /\ ans[r] = NoAnswer
      /\ \/ pc[r] = "first"
         \/ pc[r] = "update" /\ id \in Present(db.authors)
  BY Endpoints, AloneType
     DEF Alone, Current, AuthorCurrent, BookCurrent, LibraryCurrent,
         AddBooksCurrent, AuthorNext, AuthorCreate, AuthorUpdateFirst,
         AuthorUpdate, AuthorUpsert, AuthorDeleteFirst, AuthorDelete, First
<1>2. /\ API!NotFound <=> id \notin Present(db.authors)
      /\ API!NameConflict <=> NameTaken(db.authors, op[r].name, id)
      /\ ~API!Dangling /\ ~API!InUse /\ API!SuccessStatus = 200
  <2>1. API!NotFound <=> id \notin Present(db.authors)
    BY Endpoints, NotFoundMeans
  <2>2. ~API!Dangling
    BY Endpoints, DanglingMeans
  <2>3. ~API!InUse
    BY Endpoints, InUseMeans
  <2>4. API!NameConflict <=> NameTaken(db.authors, op[r].name, id)
    BY Endpoints, NameConflictMeans
  <2>5. API!SuccessStatus = 200
    BY SuccessStatusMeans
  <2>6. QED
    BY <2>1, <2>2, <2>3, <2>4, <2>5
<1>3. CASE First(r, db.authors, "update")
  <2>1. ASSUME id \in Present(db.authors), Goto(r, "update"), NoWrite
        PROVE  Current(r)'
    BY <1>1, <2>1, AloneType
       DEF Goto, Continue, NoWrite, Current, AuthorCurrent, Statements
  <2>2. QED
    BY <1>2, <1>3, <2>1, FirstAPI DEF Statements
<1>4. CASE AuthorUpdate(r)
  <2>1. id \in Present(db.authors) /\ pc[r] \in Statements \ Reading
    BY <1>1, <1>4 DEF AuthorUpdate, Statements, Reading
  <2>2. \/ /\ NameTaken(db.authors, op[r].name, id)
           /\ Answer(r, ErrConflict) /\ NoWrite
        \/ /\ ~NameTaken(db.authors, op[r].name, id)
           /\ CommitThenAnswer(r, [db EXCEPT !.authors[id] = AuthorOf(op[r])],
                               Ok(200))
    BY <1>4, <2>1 DEF AuthorUpdate, UpsertDuplicate, AuthorOf, Present
  <2>3. CASE NameTaken(db.authors, op[r].name, id)
    BY <1>2, <2>1, <2>2, <2>3, RefusesAPI
  <2>4. CASE ~NameTaken(db.authors, op[r].name, id)
    <3>1. db' = [db EXCEPT !.authors[id] = AuthorOf(op[r])]
      BY <2>2, <2>4 DEF CommitThenAnswer, Commit
    <3>2. Effects
      BY <3>1, AloneType, SameRequests DEF Effects, API!UpdateEffect, AuthorOf
    <3>3. API!Allowed
      BY <1>2, <2>1, <2>4 DEF API!Allowed
    <3>4. QED
      BY <1>2, <2>1, <2>2, <2>4, <3>2, <3>3, AppliesAPI DEF CommitThenAnswer
  <2>5. QED
    BY <2>3, <2>4
<1>5. QED
  BY <1>1, <1>3, <1>4, Endpoints
     DEF AuthorNext, AuthorCreate, AuthorUpdateFirst, AuthorUpsert,
         AuthorDeleteFirst, AuthorDelete

LEMMA AuthorDeleteAPI ==
    ASSUME NEW r \in Req, Alone(r), op[r] \in DeleteAuthorRequest,
           AuthorNext(r)
    PROVE  APIStep /\ Current(r)'
<1> DEFINE id == op[r].id
<1>1. /\ op[r] \in Ops /\ ans[r] = NoAnswer
      /\ \/ pc[r] = "first"
         \/ pc[r] = "delete" /\ id \in Present(db.authors)
  BY Endpoints, AloneType
     DEF Alone, Current, AuthorCurrent, BookCurrent, LibraryCurrent,
         AddBooksCurrent, AuthorNext, AuthorCreate, AuthorUpdateFirst,
         AuthorUpdate, AuthorUpsert, AuthorDeleteFirst, AuthorDelete, First
<1>2. /\ API!NotFound <=> id \notin Present(db.authors)
      /\ API!InUse <=> AuthorReferenced(db, id)
      /\ ~API!Dangling /\ ~API!NameConflict /\ API!SuccessStatus = 204
  <2>1. API!NotFound <=> id \notin Present(db.authors)
    BY Endpoints, NotFoundMeans
  <2>2. ~API!Dangling
    BY Endpoints, DanglingMeans
  <2>3. API!InUse <=> AuthorReferenced(db, id)
    BY Endpoints, InUseMeans
  <2>4. ~API!NameConflict
    BY Endpoints, NameConflictMeans
  <2>5. API!SuccessStatus = 204
    BY SuccessStatusMeans
  <2>6. QED
    BY <2>1, <2>2, <2>3, <2>4, <2>5
<1>3. CASE First(r, db.authors, "delete")
  <2>1. ASSUME id \in Present(db.authors), Goto(r, "delete"), NoWrite
        PROVE  Current(r)'
    BY <1>1, <2>1, AloneType
       DEF Goto, Continue, NoWrite, Current, AuthorCurrent, Statements
  <2>2. QED
    BY <1>2, <1>3, <2>1, FirstAPI DEF Statements
<1>4. CASE AuthorDelete(r)
  <2>1. id \in Present(db.authors) /\ pc[r] \in Statements \ Reading
    BY <1>1, <1>4 DEF AuthorDelete, Statements, Reading
  <2>2. CASE AuthorReferenced(db, id)
    BY <1>2, <1>4, <2>1, <2>2, RefusesAPI DEF AuthorDelete
  <2>3. CASE ~AuthorReferenced(db, id)
    <3>1. CommitThenAnswer(r, DeleteAuthor(db, id), Ok(204))
      BY <1>4, <2>3 DEF AuthorDelete
    <3>2. Effects
      BY <3>1, AloneType, SameRequests
         DEF Effects, API!DeleteEffect, DeleteAuthor, CommitThenAnswer, Commit
    <3>3. API!Allowed
      BY <1>2, <2>1, <2>3 DEF API!Allowed
    <3>4. QED
      BY <1>2, <2>1, <3>1, <3>2, <3>3, AppliesAPI DEF CommitThenAnswer
  <2>4. QED
    BY <2>2, <2>3
<1>5. QED
  BY <1>3, <1>4, Endpoints
     DEF AuthorNext, AuthorCreate, AuthorUpdateFirst, AuthorUpdate, AuthorUpsert,
         AuthorDeleteFirst

LEMMA AuthorAPI ==
    ASSUME NEW r \in Req, Alone(r), AuthorNext(r)
    PROVE  APIStep /\ Current(r)'
<1>1. \/ op[r] \in UpdateAuthorRequest \/ op[r] \in DeleteAuthorRequest
      \/ AuthorCreate(r)
  BY DEF AuthorNext, AuthorUpdateFirst, AuthorUpdate, AuthorUpsert,
         AuthorDeleteFirst, AuthorDelete
<1>2. QED
  BY <1>1, AuthorCreateAPI, AuthorUpdateAPI, AuthorDeleteAPI

-----------------------------------------------------------------------------
(***************************************************************************)
(* book.go                                                                 *)
(***************************************************************************)
LEMMA CreateBookReasons ==
    ASSUME NEW r \in Req, Alone(r), op[r] \in CreateBookRequest
    PROVE  /\ ~API!NotFound /\ ~API!InUse /\ API!SuccessStatus = 201
           /\ API!Dangling <=> ~AuthorExists(op[r])
           /\ API!NameConflict <=>
                 \E y \in Present(db.books) : db.books[y].name = op[r].name
<1>1. ~API!NotFound
  BY Endpoints, NotFoundMeans
<1>2. API!Dangling <=> ~AuthorExists(op[r])
  BY Endpoints, DanglingMeans
<1>3. ~API!InUse
  BY Endpoints, InUseMeans
<1>4. API!NameConflict <=>
         \E y \in Present(db.books) : db.books[y].name = op[r].name
  BY Endpoints, NameConflictMeans
<1>5. API!SuccessStatus = 201
  BY SuccessStatusMeans
<1>6. QED
  BY <1>1, <1>2, <1>3, <1>4, <1>5

LEMMA UpdateBookReasons ==
    ASSUME NEW r \in Req, Alone(r), op[r] \in UpdateBookRequest
    PROVE  /\ API!NotFound <=> op[r].id \notin Present(db.books)
           /\ API!Dangling <=> ~AuthorExists(op[r])
           /\ API!NameConflict <=> NameTaken(db.books, op[r].name, op[r].id)
           /\ ~API!InUse /\ API!SuccessStatus = 200
<1>1. API!NotFound <=> op[r].id \notin Present(db.books)
  BY Endpoints, NotFoundMeans
<1>2. API!Dangling <=> ~AuthorExists(op[r])
  BY Endpoints, DanglingMeans
<1>3. ~API!InUse
  BY Endpoints, InUseMeans
<1>4. API!NameConflict <=> NameTaken(db.books, op[r].name, op[r].id)
  BY Endpoints, NameConflictMeans
<1>5. API!SuccessStatus = 200
  BY SuccessStatusMeans
<1>6. QED
  BY <1>1, <1>2, <1>3, <1>4, <1>5

LEMMA DeleteBookReasons ==
    ASSUME NEW r \in Req, Alone(r), op[r] \in DeleteBookRequest
    PROVE  /\ API!NotFound <=> op[r].id \notin Present(db.books)
           /\ API!InUse <=> BookReferenced(db, op[r].id)
           /\ ~API!Dangling /\ ~API!NameConflict /\ API!SuccessStatus = 204
<1>1. API!NotFound <=> op[r].id \notin Present(db.books)
  BY Endpoints, NotFoundMeans
<1>2. ~API!Dangling
  BY Endpoints, DanglingMeans
<1>3. API!InUse <=> BookReferenced(db, op[r].id)
  BY Endpoints, InUseMeans
<1>4. ~API!NameConflict
  BY Endpoints, NameConflictMeans
<1>5. API!SuccessStatus = 204
  BY SuccessStatusMeans
<1>6. QED
  BY <1>1, <1>2, <1>3, <1>4, <1>5

(* A request is where its kind says. *)
LEMMA BookAt ==
    ASSUME NEW r \in Req, Alone(r), BookNext(r)
    PROVE  /\ op[r] \in Ops /\ ans[r] = NoAnswer /\ pc[r] \in Statements
           /\ BookCurrent(r, op[r])
<1>1. /\ pc[r] \in Statements
      /\ op[r] \in CreateBookRequest \cup UpdateBookRequest \cup DeleteBookRequest
  BY DEF BookNext, BookCreateCheck, BookCreate, BookCreateReload, BookUpdateFirst,
         BookUpdateCheck, BookUpdate, BookUpsert, BookUpdateReload,
         BookDeleteFirst, BookDelete, BookCheck, BookReload, First, Statements
<1>2. ~AuthorCurrent(r, op[r]) /\ ~LibraryCurrent(r, op[r])
  BY <1>1, Endpoints DEF AuthorCurrent, LibraryCurrent, AddBooksCurrent
<1>3. QED
  BY <1>1, <1>2 DEF Alone, Current, Statements

(* r goes on, and what it knows at s is so. *)
LEMMA GotoAPI ==
    ASSUME NEW r \in Req, Alone(r), NEW s \in Statements, Goto(r, s), NoWrite,
           pc[r] \in Statements, pc'[r] = s => Current(r)'
    PROVE  APIStep /\ Current(r)'
<1>1. pc'[r] = s
  BY AloneType DEF Goto, Continue
<1>2. QED
  BY <1>1, GoesOnAPI DEF Goto, Continue, NoWrite

LEMMA BookCreateAPI ==
    ASSUME NEW r \in Req, Alone(r), op[r] \in CreateBookRequest, BookCreate(r)
    PROVE  APIStep /\ Current(r)'
<1>1. pc[r] \in Statements \ Reading /\ AuthorExists(op[r]) /\ op[r] \in Ops
      /\ ans[r] = NoAnswer
  BY BookAt, Endpoints DEF BookNext, BookCreate, BookCurrent, Statements, Reading
<1>2. PICK x \in BookId \ db.bookIds :
         \/ /\ NameTaken(db.books, op[r].name, x)
            /\ Answer(r, ErrConflict) /\ NoWrite
         \/ /\ ~NameTaken(db.books, op[r].name, x)
            /\ CommitThenKeep(r, InsertBook(db, x, BookOf(op[r])), x, "reload")
  BY <1>1 DEF BookCreate
<1>3. NameTaken(db.books, op[r].name, x) <=> API!NameConflict
  BY <1>2, Tables, CreateBookReasons DEF NameTaken
<1>4. CASE NameTaken(db.books, op[r].name, x)
  BY <1>1, <1>2, <1>3, <1>4, CreateBookReasons, RefusesAPI
<1>5. CASE ~NameTaken(db.books, op[r].name, x)
  <2>1. db' = InsertBook(db, x, BookOf(op[r]))
    BY <1>2, <1>5 DEF CommitThenKeep, Commit
  <2>2. Effects
    BY <1>2, <2>1, AloneType, SameRequests
       DEF Effects, API!CreateEffect, InsertBook, BookOf
  <2>3. API!Allowed
    BY <1>1, <1>3, <1>5, CreateBookReasons DEF API!Allowed
  <2>4. x \in Present(db'.books)
    <3>1. BookOf(op[r]) # NoRow
      <4>1. BookOf(op[r]) \in BookRow
        BY DEF BookOf, BookRow, CreateBookRequest
      <4>2. QED
        BY <4>1, NoRowAssumption
    <3>2. db'.books = [db.books EXCEPT ![x] = BookOf(op[r])]
      BY <2>1, AloneType, DbNow DEF InsertBook, Sound, Database
    <3>3. QED
      BY <1>2, <3>1, <3>2, Tables DEF Present
  <2>5. ASSUME Continue(r, "reload"), key' = [key EXCEPT ![r] = x]
        PROVE  UNCHANGED <<op, ans>> /\ Current(r)'
    <3>1. pc'[r] = "reload" /\ key'[r] = x /\ op' = op /\ ans' = ans
      BY <2>5, AloneType DEF Continue, IInv, TypeOK
    <3>2. QED
      BY <1>1, <2>4, <3>1 DEF Current, BookCurrent, Statements
  <2>6. QED
    BY <1>1, <1>2, <1>5, <2>2, <2>3, <2>5, CreateBookReasons, AppliesAPI
       DEF CommitThenKeep
<1>6. QED
  BY <1>4, <1>5

LEMMA BookCheckAPI ==
    ASSUME NEW r \in Req, Alone(r), op[r] \in CreateBookRequest \cup UpdateBookRequest,
           NEW s \in {"insert", "update"}, BookCheck(r, s), ~API!NotFound,
           API!Dangling <=> ~AuthorExists(op[r]),
           AuthorExists(op[r]) /\ pc'[r] = s /\ op' = op /\ ans' = ans /\ db' = db
              => Current(r)'
    PROVE  APIStep /\ Current(r)'
<1>1. pc[r] \in Statements \ Reading
  BY DEF BookCheck, Statements, Reading
<1>2. CASE AuthorExists(op[r])
  BY <1>1, <1>2, GotoAPI DEF BookCheck, Goto, Continue, NoWrite, Statements
<1>3. CASE ~AuthorExists(op[r])
  BY <1>1, <1>3, RefusesAPI DEF BookCheck
<1>4. QED
  BY <1>2, <1>3

LEMMA BookReloadAPI ==
    ASSUME NEW r \in Req, Alone(r), NEW x \in Present(db.books),
           NEW s \in {200, 201, 204}, API!SuccessStatus = s, BookReload(r, x, s)
    PROVE  APIStep /\ Current(r)'
BY SucceedsAPI DEF BookReload, Reading

LEMMA CreateBookAPI ==
    ASSUME NEW r \in Req, Alone(r), op[r] \in CreateBookRequest, BookNext(r)
    PROVE  APIStep /\ Current(r)'
<1>1. CASE BookCreateCheck(r)
  <2>1. ASSUME AuthorExists(op[r]), pc'[r] = "insert", op' = op, ans' = ans, db' = db
        PROVE  Current(r)'
    BY <1>1, <2>1, BookAt DEF Current, BookCurrent, AuthorExists, Statements
  <2>2. QED
    BY <1>1, <2>1, CreateBookReasons, BookCheckAPI DEF BookCreateCheck
<1>2. CASE BookCreateReload(r)
  <2>1. key[r] \in Present(db.books)
    BY <1>2, BookAt, Endpoints DEF BookCurrent, BookCreateReload, BookReload
  <2>2. QED
    BY <1>2, <2>1, CreateBookReasons, BookReloadAPI DEF BookCreateReload
<1>3. QED
  BY <1>1, <1>2, BookCreateAPI, Endpoints
     DEF BookNext, BookUpdateFirst, BookUpdateCheck, BookUpdate, BookUpsert,
         BookUpdateReload, BookDeleteFirst, BookDelete

LEMMA UpdateBookAPI ==
    ASSUME NEW r \in Req, Alone(r), op[r] \in UpdateBookRequest, BookNext(r)
    PROVE  APIStep /\ Current(r)'
<1> DEFINE id == op[r].id
<1>1. /\ op[r] \in Ops /\ ans[r] = NoAnswer /\ pc[r] \in Statements
      /\ \/ pc[r] = "first"
         \/ /\ id \in Present(db.books)
            /\ \/ pc[r] \in {"check", "reload"}
               \/ pc[r] = "update" /\ AuthorExists(op[r])
  BY BookAt, Endpoints DEF BookCurrent
<1>2. CASE BookUpdateFirst(r)
  <2> DEFINE next == IF id \in Present(db.books) /\ db.books[id].author = op[r].author
                     THEN "update" ELSE "check"
  <2>1. First(r, db.books, next) /\ next \in {"update", "check"}
    BY <1>2 DEF BookUpdateFirst
  <2>2. id \in Present(db.books) /\ next = "update" => AuthorExists(op[r])
    BY Tables DEF AuthorExists
  <2> HIDE DEF next
  <2>3. ASSUME id \in Present(db.books), Goto(r, next), NoWrite
        PROVE  Current(r)'
    <3>1. pc'[r] = next /\ op' = op /\ ans' = ans /\ db' = db
      BY <2>3, AloneType DEF Goto, Continue, NoWrite
    <3>2. QED
      BY <1>1, <2>1, <2>2, <2>3, <3>1
         DEF Current, BookCurrent, AuthorExists, Statements
  <2>4. QED
    BY <2>1, <2>3, UpdateBookReasons, FirstAPI DEF Statements
<1>3. CASE BookUpdateCheck(r)
  <2>1. id \in Present(db.books)
    BY <1>1, <1>3 DEF BookUpdateCheck, BookCheck
  <2>2. ASSUME AuthorExists(op[r]), pc'[r] = "update", op' = op, ans' = ans, db' = db
        PROVE  Current(r)'
    BY <1>1, <2>1, <2>2 DEF Current, BookCurrent, AuthorExists, Statements
  <2>3. QED
    BY <1>3, <2>1, <2>2, UpdateBookReasons, BookCheckAPI DEF BookUpdateCheck
<1>4. CASE BookUpdate(r)
  <2>1. /\ id \in Present(db.books) /\ AuthorExists(op[r])
        /\ pc[r] \in Statements \ Reading
    BY <1>1, <1>4 DEF BookUpdate, Statements, Reading
  <2>2. \/ /\ NameTaken(db.books, op[r].name, id)
           /\ Answer(r, ErrConflict) /\ NoWrite
        \/ /\ ~NameTaken(db.books, op[r].name, id)
           /\ CommitThenGoto(r, [db EXCEPT !.books[id] = BookOf(op[r])], "reload")
    BY <1>4, <2>1 DEF BookUpdate, UpsertDuplicate, BookOf, Present
  <2>3. CASE NameTaken(db.books, op[r].name, id)
    BY <2>1, <2>2, <2>3, UpdateBookReasons, RefusesAPI
  <2>4. CASE ~NameTaken(db.books, op[r].name, id)
    <3>1. db' = [db EXCEPT !.books[id] = BookOf(op[r])]
      BY <2>2, <2>4 DEF CommitThenGoto, Commit
    <3>2. Effects
      BY <3>1, AloneType, SameRequests DEF Effects, API!UpdateEffect, BookOf
    <3>3. API!Allowed
      BY <2>1, <2>4, UpdateBookReasons DEF API!Allowed
    <3>4. id \in Present(db'.books)
      <4>1. BookOf(op[r]) \in BookRow
        BY DEF BookOf, BookRow, UpdateBookRequest
      <4>2. BookOf(op[r]) # NoRow
        BY <4>1, NoRowAssumption
      <4>3. db'.books = [db.books EXCEPT ![id] = BookOf(op[r])]
        BY <3>1, AloneType, DbNow DEF Sound, Database
      <4>4. QED
        BY <2>1, <4>2, <4>3, Tables DEF Present
    <3>5. ASSUME Goto(r, "reload")
          PROVE  UNCHANGED <<op, ans>> /\ Current(r)'
      <4>1. pc'[r] = "reload" /\ op' = op /\ ans' = ans
        BY <3>5, AloneType DEF Goto, Continue
      <4>2. QED
        BY <1>1, <3>4, <4>1 DEF Current, BookCurrent, Statements
    <3>6. QED
      BY <2>1, <2>2, <2>4, <3>2, <3>3, <3>5, UpdateBookReasons, AppliesAPI
         DEF CommitThenGoto
  <2>5. QED
    BY <2>3, <2>4
<1>5. CASE BookUpdateReload(r)
  BY <1>1, <1>5, UpdateBookReasons, BookReloadAPI DEF BookUpdateReload, BookReload
<1>6. ~BookUpsert(r)
  BY <1>1 DEF BookUpsert
<1>7. QED
  BY <1>2, <1>3, <1>4, <1>5, <1>6, Endpoints
     DEF BookNext, BookCreateCheck, BookCreate, BookCreateReload, BookDeleteFirst,
         BookDelete

LEMMA DeleteBookAPI ==
    ASSUME NEW r \in Req, Alone(r), op[r] \in DeleteBookRequest, BookNext(r)
    PROVE  APIStep /\ Current(r)'
<1> DEFINE id == op[r].id
<1>1. /\ op[r] \in Ops /\ ans[r] = NoAnswer /\ pc[r] \in Statements
      /\ pc[r] = "first" \/ (pc[r] = "delete" /\ id \in Present(db.books))
  BY BookAt, Endpoints DEF BookCurrent
<1>2. CASE First(r, db.books, "delete")
  <2>1. ASSUME id \in Present(db.books), Goto(r, "delete"), NoWrite
        PROVE  Current(r)'
    BY <1>1, <2>1, AloneType
       DEF Goto, Continue, NoWrite, Current, BookCurrent, Statements
  <2>2. QED
    BY <1>2, <2>1, DeleteBookReasons, FirstAPI DEF Statements
<1>3. CASE BookDelete(r)
  <2>1. id \in Present(db.books) /\ pc[r] \in Statements \ Reading
    BY <1>1, <1>3 DEF BookDelete, Statements, Reading
  <2>2. CASE BookReferenced(db, id)
    BY <1>3, <2>1, <2>2, DeleteBookReasons, RefusesAPI DEF BookDelete
  <2>3. CASE ~BookReferenced(db, id)
    <3>1. CommitThenAnswer(r, DeleteBook(db, id), Ok(204))
      BY <1>3, <2>3 DEF BookDelete
    <3>2. Effects
      BY <3>1, AloneType, SameRequests
         DEF Effects, API!DeleteEffect, DeleteBook, CommitThenAnswer, Commit
    <3>3. API!Allowed
      BY <2>1, <2>3, DeleteBookReasons DEF API!Allowed
    <3>4. QED
      BY <2>1, <3>1, <3>2, <3>3, DeleteBookReasons, AppliesAPI DEF CommitThenAnswer
  <2>4. QED
    BY <2>2, <2>3
<1>4. QED
  BY <1>2, <1>3, Endpoints
     DEF BookNext, BookCreateCheck, BookCreate, BookCreateReload, BookUpdateFirst,
         BookUpdateCheck, BookUpdate, BookUpsert, BookUpdateReload, BookDeleteFirst

LEMMA BookAPI ==
    ASSUME NEW r \in Req, Alone(r), BookNext(r)
    PROVE  APIStep /\ Current(r)'
<1>1. op[r] \in CreateBookRequest \cup UpdateBookRequest \cup DeleteBookRequest
  BY BookAt DEF BookCurrent
<1>2. QED
  BY <1>1, CreateBookAPI, UpdateBookAPI, DeleteBookAPI

-----------------------------------------------------------------------------
(***************************************************************************)
(* library.go                                                              *)
(***************************************************************************)
(* Association when every book in memory still has its row. *)
LEMMA NothingMissing ==
    ASSUME NEW d \in Database, NEW l \in LibraryId, NEW bs,
           Present(bs) \subseteq Present(d.books)
    PROVE  /\ AppendBooks(d, l, bs) = [d EXCEPT !.links[l] = @ \cup Present(bs)]
           /\ ReplaceBooks(d, l, bs) = [d EXCEPT !.links[l] = Present(bs)]
           /\ LinkFails(d, l, bs) => d.libraries[l] = NoRow
<1>1. Missing(d, bs) = {}
  BY DEF Missing
<1>2. d.books = [b \in BookId |-> d.books[b]]
  BY DEF Database, BookSlice
<1>3. AppendBooks(d, l, bs) = [d EXCEPT !.links[l] = @ \cup Present(bs)]
  BY <1>1, <1>2 DEF AppendBooks, Database
<1>4. ReplaceBooks(d, l, bs) = [d EXCEPT !.links[l] = Present(bs)]
  BY <1>3 DEF ReplaceBooks, Database
<1>5. QED
  BY <1>1, <1>3, <1>4 DEF LinkFails

Linked(d, x, B) == [d EXCEPT !.links[x] = @ \cup B]

LEMMA AddBooksEffect ==
    ASSUME NEW d \in Database, NEW x \in Present(d.libraries),
           NEW bs, Present(bs) \subseteq Present(d.books),
           NEW B, Present(bs) = d.links[x] \cup B
    PROVE  /\ ~LinkFails(d, x, bs)
           /\ AppendBooks(d, x, bs) = Linked(d, x, B)
<1>1. x \in LibraryId /\ d.libraries[x] # NoRow
  BY DEF Present, Database
<1>2. ~LinkFails(d, x, bs)
  BY <1>1, NothingMissing
<1>3. AppendBooks(d, x, bs) = [d EXCEPT !.links[x] = @ \cup Present(bs)]
  BY <1>1, NothingMissing
<1>4. d.links[x] \cup Present(bs) = d.links[x] \cup B
  OBVIOUS
<1>5. QED
  BY <1>2, <1>3, <1>4 DEF Linked

LEMMA CreateLibraryEffect ==
    ASSUME NEW d \in Database, NEW x \in LibraryId, NEW row \in LibraryRow,
           NEW bs, Present(bs) \subseteq Present(d.books)
    PROVE  LET inserted == InsertLibrary(d, x, row) IN
           /\ ~LinkFails(inserted, x, bs)
           /\ ReplaceBooks(inserted, x, bs) =
                 [d EXCEPT !.libraries[x] = row, !.links[x] = Present(bs),
                           !.libraryIds = @ \cup {x}]
<1> DEFINE inserted == InsertLibrary(d, x, row)
<1>1. inserted \in Database /\ inserted.books = d.books
      /\ inserted.libraries[x] = row
  BY DEF InsertLibrary, Database
<1>2. row # NoRow
  BY NoRowAssumption
<1>3. [inserted EXCEPT !.links[x] = Present(bs)] =
         [d EXCEPT !.libraries[x] = row, !.links[x] = Present(bs),
                   !.libraryIds = @ \cup {x}]
  BY DEF InsertLibrary, Database
<1> HIDE DEF inserted
<1>4. QED
  BY <1>1, <1>2, <1>3, NothingMissing DEF inserted

LEMMA UpdateLibraryEffect ==
    ASSUME NEW d \in Database, NEW x \in Present(d.libraries),
           NEW row \in LibraryRow, NEW bs, Present(bs) \subseteq Present(d.books)
    PROVE  LET saved == [d EXCEPT !.libraries = Upsert(@, x, row)] IN
           /\ saved = [d EXCEPT !.libraries[x] = row, !.links[x] = @]
           /\ ~LinkFails(saved, x, bs)
           /\ ReplaceBooks(saved, x, bs) =
                 [d EXCEPT !.libraries[x] = row, !.links[x] = Present(bs)]
           /\ UpsertDuplicate(d.libraries, x, row)
                 <=> NameTaken(d.libraries, row.name, x)
<1> DEFINE saved == [d EXCEPT !.libraries = Upsert(@, x, row)]
<1>1. x \in LibraryId /\ d.libraries[x] # NoRow
  BY DEF Present, Database
<1>2. Upsert(d.libraries, x, row) = [d.libraries EXCEPT ![x] = row]
  BY <1>1 DEF Upsert, UpsertTarget
<1>3. saved = [d EXCEPT !.libraries[x] = row]
  BY <1>2 DEF Database
<1> HIDE DEF saved
<1>4. /\ saved \in Database /\ saved.books = d.books
      /\ saved.libraries[x] = row
      /\ saved = [d EXCEPT !.libraries[x] = row, !.links[x] = @]
  BY <1>1, <1>3 DEF Database
<1>5. row # NoRow
  BY NoRowAssumption
<1>6. [saved EXCEPT !.links[x] = Present(bs)] =
         [d EXCEPT !.libraries[x] = row, !.links[x] = Present(bs)]
  BY <1>3 DEF Database
<1>7. UpsertDuplicate(d.libraries, x, row)
         <=> NameTaken(d.libraries, row.name, x)
  BY <1>1 DEF UpsertDuplicate
<1>8. /\ ~LinkFails(saved, x, bs)
      /\ ReplaceBooks(saved, x, bs) = [saved EXCEPT !.links[x] = Present(bs)]
  <2>1. /\ saved \in Database /\ x \in LibraryId
        /\ Present(bs) \subseteq Present(saved.books)
    BY <1>1, <1>4
  <2>2. /\ LinkFails(saved, x, bs) => saved.libraries[x] = NoRow
        /\ ReplaceBooks(saved, x, bs) = [saved EXCEPT !.links[x] = Present(bs)]
    BY <2>1, NothingMissing
  <2>3. QED
    BY <1>4, <1>5, <2>2
<1>9. QED
  BY <1>4, <1>6, <1>7, <1>8 DEF saved

LEMMA DeleteLibraryEffect ==
    ASSUME NEW d \in Database, NEW x \in LibraryId
    PROVE  /\ ~LibraryReferenced(ClearBooks(d, x), x)
           /\ DeleteLibrary(ClearBooks(d, x), x) =
                 [d EXCEPT !.libraries[x] = NoRow, !.links[x] = {}]
BY DEF LibraryReferenced, ClearBooks, DeleteLibrary, Database

LEMMA CreateLibraryReasons ==
    ASSUME NEW r \in Req, Alone(r), op[r] \in CreateLibraryRequest
    PROVE  /\ ~API!NotFound /\ ~API!InUse /\ API!SuccessStatus = 201
           /\ API!Dangling <=> ~(op[r].bookIds \subseteq Present(db.books))
           /\ API!NameConflict <=>
                 \E y \in Present(db.libraries) : db.libraries[y].name = op[r].name
<1>1. ~API!NotFound
  BY Endpoints, NotFoundMeans
<1>2. API!Dangling <=> ~(op[r].bookIds \subseteq Present(db.books))
  BY Endpoints, DanglingMeans
<1>3. ~API!InUse
  BY Endpoints, InUseMeans
<1>4. API!NameConflict <=>
         \E y \in Present(db.libraries) : db.libraries[y].name = op[r].name
  BY Endpoints, NameConflictMeans
<1>5. API!SuccessStatus = 201
  BY SuccessStatusMeans
<1>6. QED
  BY <1>1, <1>2, <1>3, <1>4, <1>5

LEMMA UpdateLibraryReasons ==
    ASSUME NEW r \in Req, Alone(r), op[r] \in UpdateLibraryRequest
    PROVE  /\ API!NotFound <=> op[r].id \notin Present(db.libraries)
           /\ API!Dangling <=> /\ op[r].bookIds # NilIds
                               /\ ~(op[r].bookIds \subseteq Present(db.books))
           /\ API!NameConflict <=> NameTaken(db.libraries, op[r].name, op[r].id)
           /\ ~API!InUse /\ API!SuccessStatus = 200
<1>1. API!NotFound <=> op[r].id \notin Present(db.libraries)
  BY Endpoints, NotFoundMeans
<1>2. API!Dangling <=> /\ op[r].bookIds # NilIds
                       /\ ~(op[r].bookIds \subseteq Present(db.books))
  BY Endpoints, DanglingMeans
<1>3. ~API!InUse
  BY Endpoints, InUseMeans
<1>4. API!NameConflict <=> NameTaken(db.libraries, op[r].name, op[r].id)
  BY Endpoints, NameConflictMeans
<1>5. API!SuccessStatus = 200
  BY SuccessStatusMeans
<1>6. QED
  BY <1>1, <1>2, <1>3, <1>4, <1>5

LEMMA DeleteLibraryReasons ==
    ASSUME NEW r \in Req, Alone(r), op[r] \in DeleteLibraryRequest
    PROVE  /\ API!NotFound <=> op[r].id \notin Present(db.libraries)
           /\ ~API!Dangling /\ ~API!NameConflict /\ ~API!InUse
           /\ API!SuccessStatus = 204
<1>1. API!NotFound <=> op[r].id \notin Present(db.libraries)
  BY Endpoints, NotFoundMeans
<1>2. ~API!Dangling
  BY Endpoints, DanglingMeans
<1>3. ~API!InUse
  BY Endpoints, InUseMeans
<1>4. ~API!NameConflict
  BY Endpoints, NameConflictMeans
<1>5. API!SuccessStatus = 204
  BY SuccessStatusMeans
<1>6. QED
  BY <1>1, <1>2, <1>3, <1>4, <1>5

LEMMA MemberReasons ==
    ASSUME NEW r \in Req, Alone(r),
           op[r] \in AddBooksRequest \cup RemoveBooksRequest
    PROVE  /\ API!NotFound <=> op[r].id \notin Present(db.libraries)
           /\ API!Dangling <=> /\ op[r] \in AddBooksRequest
                               /\ ~(op[r].bookIds \subseteq Present(db.books))
           /\ ~API!NameConflict /\ ~API!InUse /\ API!SuccessStatus = 200
<1>1. API!NotFound <=> op[r].id \notin Present(db.libraries)
  BY Endpoints, NotFoundMeans
<1>2. API!Dangling <=> /\ op[r] \in AddBooksRequest
                       /\ ~(op[r].bookIds \subseteq Present(db.books))
  BY Endpoints, DanglingMeans
<1>3. ~API!InUse
  BY Endpoints, InUseMeans
<1>4. ~API!NameConflict
  BY Endpoints, NameConflictMeans
<1>5. API!SuccessStatus = 200
  BY SuccessStatusMeans
<1>6. QED
  BY <1>1, <1>2, <1>3, <1>4, <1>5

LEMMA LibraryAt ==
    ASSUME NEW r \in Req, Alone(r), LibraryNext(r)
    PROVE  /\ op[r] \in Ops /\ ans[r] = NoAnswer /\ pc[r] \in Statements
           /\ LibraryCurrent(r, op[r])
<1>1. /\ pc[r] \in Statements
      /\ op[r] \in CreateLibraryRequest \cup UpdateLibraryRequest
                     \cup DeleteLibraryRequest \cup AddBooksRequest
                     \cup RemoveBooksRequest
  BY DEF LibraryNext, LibraryCreateFetch, LibraryCreateTx, LibraryCreateLoad,
         LibraryUpdateFirst, LibraryUpdateFetch, LibraryUpdateTx,
         LibraryUpdateLoad, LibraryDeleteFirst, LibraryDeleteTx, AddBooksFirst,
         AddBooksJoins, AddBooksBooks, AddBooksFetch, AddBooksAppend,
         AddBooksLoad, RemoveBooksFirst, RemoveBooksDelete, RemoveBooksLoad,
         First, FetchBooks, LibraryLoad, Statements
<1>2. ~AuthorCurrent(r, op[r]) /\ ~BookCurrent(r, op[r])
  BY <1>1, Endpoints DEF AuthorCurrent, BookCurrent
<1>3. QED
  BY <1>1, <1>2 DEF Alone, Current, Statements

(* What r holds after the lookup: what it held, and the books it wanted. *)
LEMMA FetchAPI ==
    ASSUME NEW r \in Req, Alone(r), NEW wanted, FetchBooks(r, wanted),
           ~API!NotFound,
           ~(wanted \subseteq Present(db.books)) => API!Dangling,
           ( /\ wanted \subseteq Present(db.books)
             /\ pc'[r] = "tx" /\ op' = op /\ ans' = ans /\ db' = db
             /\ Present(bks'[r]) = Present(bks[r]) \cup wanted )
              => Current(r)'
    PROVE  APIStep /\ Current(r)'
<1>1. CASE wanted \subseteq Present(db.books)
  <2> DEFINE held == [b \in BookId |-> IF b \in wanted THEN db.books[b]
                                                        ELSE bks[r][b]]
  <2>1. /\ bks' = [bks EXCEPT ![r] = held] /\ Continue(r, "tx") /\ NoWrite
    BY <1>1 DEF FetchBooks
  <2>2. /\ bks \in [Req -> BookSlice] /\ bks[r] \in BookSlice
        /\ pc \in [Req -> Statements \cup {"idle", "done"}]
    BY AloneType DEF IInv, TypeOK
  <2>3. Present(held) = Present(bks[r]) \cup wanted
    BY <1>1, <2>2, Tables DEF Present, BookSlice
  <2> HIDE DEF held
  <2>4. pc'[r] = "tx" /\ op' = op /\ ans' = ans /\ db' = db /\ bks'[r] = held
        /\ applied' = applied
    BY <2>1, <2>2 DEF Continue, NoWrite
  <2>5. QED
    BY <1>1, <2>3, <2>4, GoesOnAPI
<1>2. CASE ~(wanted \subseteq Present(db.books))
  BY <1>2, RefusesAPI DEF FetchBooks, Statements, Reading
<1>3. QED
  BY <1>1, <1>2

LEMMA LoadAPI ==
    ASSUME NEW r \in Req, Alone(r), NEW x \in Present(db.libraries),
           NEW s \in {200, 201, 204}, API!SuccessStatus = s, LibraryLoad(r, x, s)
    PROVE  APIStep /\ Current(r)'
BY SucceedsAPI DEF LibraryLoad, Reading

LEMMA LibraryFirstAPI ==
    ASSUME NEW r \in Req, Alone(r), NEW s \in Statements,
           First(r, db.libraries, s), LibraryNext(r),
           \/ /\ op[r] \in UpdateLibraryRequest
              /\ \/ s = "fetch" /\ op[r].bookIds # NilIds
                 \/ s = "tx"
           \/ op[r] \in DeleteLibraryRequest /\ s = "tx"
           \/ op[r] \in AddBooksRequest /\ s = "joins"
           \/ op[r] \in RemoveBooksRequest /\ s = "delete"
    PROVE  APIStep /\ Current(r)'
<1>1. op[r] \in Ops /\ ans[r] = NoAnswer
  BY LibraryAt
<1>2. API!NotFound <=> op[r].id \notin Present(db.libraries)
  BY UpdateLibraryReasons, DeleteLibraryReasons, MemberReasons
<1>3. ASSUME op[r].id \in Present(db.libraries), Goto(r, s), NoWrite
      PROVE  Current(r)'
  <2>1. /\ pc'[r] = s /\ op' = op /\ ans' = ans /\ db' = db /\ bks' = bks
        /\ bks[r] = NoBooks /\ Present(bks[r]) = {}
    BY <1>3, AloneType, NoBooksType DEF Goto, Continue, NoWrite, First, Holds
  <2>2. LibraryCurrent(r, op[r])'
    BY <1>3, <2>1 DEF LibraryCurrent, AddBooksCurrent
  <2>3. QED
    BY <1>1, <2>1, <2>2 DEF Current
<1>4. QED
  BY <1>2, <1>3, FirstAPI

LEMMA CreateLibraryAPI ==
    ASSUME NEW r \in Req, Alone(r), op[r] \in CreateLibraryRequest,
           LibraryNext(r)
    PROVE  APIStep /\ Current(r)'
<1> DEFINE row == LibraryOf(op[r])
<1>1. /\ op[r] \in Ops /\ ans[r] = NoAnswer
      /\ \/ pc[r] = "fetch"
         \/ pc[r] = "tx" /\ Present(bks[r]) \subseteq Present(db.books)
         \/ pc[r] = "load" /\ key[r] \in Present(db.libraries)
  BY LibraryAt, Endpoints DEF LibraryCurrent, AddBooksCurrent
<1>2. /\ pc[r] = "fetch" => bks[r] = NoBooks
      /\ pc[r] = "tx" => Present(bks[r]) = op[r].bookIds
  BY AloneType, NilIdsAssumption DEF Holds, ListedBooks, CreateLibraryRequest
<1>3. CASE LibraryCreateFetch(r)
  <2>1. ASSUME op[r].bookIds \subseteq Present(db.books),
               pc'[r] = "tx", op' = op, ans' = ans, db' = db,
               Present(bks'[r]) = Present(bks[r]) \cup op[r].bookIds
        PROVE  Current(r)'
    <3>1. Present(bks'[r]) = op[r].bookIds
      BY <1>2, <1>3, <2>1, NoBooksType DEF LibraryCreateFetch, FetchBooks
    <3>2. QED
      BY <1>1, <2>1, <3>1 DEF Current, LibraryCurrent, Statements
  <2>2. /\ FetchBooks(r, op[r].bookIds) /\ ~API!NotFound
        /\ ~(op[r].bookIds \subseteq Present(db.books)) => API!Dangling
    BY <1>3, CreateLibraryReasons DEF LibraryCreateFetch
  <2>3. QED
    BY <2>1, <2>2, FetchAPI
<1>4. CASE LibraryCreateTx(r)
  <2>1. /\ pc[r] = "tx" /\ Present(bks[r]) = op[r].bookIds
        /\ op[r].bookIds \subseteq Present(db.books)
        /\ pc[r] \in Statements \ Reading
    BY <1>1, <1>2, <1>4 DEF LibraryCreateTx, Statements, Reading
  <2>2. row \in LibraryRow /\ row # NoRow /\ db \in Database
    <3>1. row \in LibraryRow
      BY DEF LibraryOf, LibraryRow, CreateLibraryRequest
    <3>2. QED
      BY <3>1, NoRowAssumption, AloneType, DbNow DEF Sound
  <2>3. PICK x \in LibraryId \ db.libraryIds :
           LET inserted == InsertLibrary(db, x, row) IN
           \/ /\ NameTaken(db.libraries, op[r].name, x)
              /\ Answer(r, ErrConflict) /\ NoWrite
           \/ /\ ~NameTaken(db.libraries, op[r].name, x)
              /\ LinkFails(inserted, x, bks[r])
           \/ /\ ~NameTaken(db.libraries, op[r].name, x)
              /\ CommitThenKeep(r, ReplaceBooks(inserted, x, bks[r]), x, "load")
    BY <1>4 DEF LibraryCreateTx
  <2> DEFINE written == [db EXCEPT !.libraries[x] = row,
                                   !.links[x] = op[r].bookIds,
                                   !.libraryIds = @ \cup {x}]
  <2>4. /\ ~LinkFails(InsertLibrary(db, x, row), x, bks[r])
        /\ ReplaceBooks(InsertLibrary(db, x, row), x, bks[r]) = written
    <3>1. /\ db \in Database /\ x \in LibraryId /\ row \in LibraryRow
          /\ Present(bks[r]) \subseteq Present(db.books)
      BY <2>1, <2>2, <2>3
    <3>2. LET inserted == InsertLibrary(db, x, row) IN
          /\ ~LinkFails(inserted, x, bks[r])
          /\ ReplaceBooks(inserted, x, bks[r]) =
                [db EXCEPT !.libraries[x] = row, !.links[x] = Present(bks[r]),
                           !.libraryIds = @ \cup {x}]
      <4> HIDE DEF row, written
      <4>1. QED
        BY <3>1, CreateLibraryEffect
    <3>3. QED
      BY <2>1, <3>2
  <2>5. NameTaken(db.libraries, op[r].name, x) <=> API!NameConflict
    BY <2>3, Tables, CreateLibraryReasons DEF NameTaken
  <2> HIDE DEF row, written
  <2>6. CASE NameTaken(db.libraries, op[r].name, x)
    BY <2>1, <2>3, <2>5, <2>6, CreateLibraryReasons, RefusesAPI
  <2>7. CASE ~NameTaken(db.libraries, op[r].name, x)
    <3>1. CommitThenKeep(r, written, x, "load")
      BY <2>3, <2>4, <2>7
    <3>2. db' = written
      BY <3>1 DEF CommitThenKeep, Commit
    <3>3. Effects
      BY <2>3, <3>2, AloneType, SameRequests
         DEF Effects, API!CreateEffect, LibraryOf, row, written
    <3>4. API!Allowed
      BY <2>1, <2>5, <2>7, CreateLibraryReasons DEF API!Allowed
    <3>5. x \in Present(db'.libraries)
      <4>1. db'.libraries = [db.libraries EXCEPT ![x] = row]
        BY <2>2, <3>2 DEF written, Database
      <4>2. QED
        BY <2>2, <2>3, <4>1, Tables DEF Present
    <3>6. ASSUME Continue(r, "load"), key' = [key EXCEPT ![r] = x]
          PROVE  UNCHANGED <<op, ans>> /\ Current(r)'
      <4>1. pc'[r] = "load" /\ key'[r] = x /\ op' = op /\ ans' = ans
        BY <3>6, AloneType DEF Continue, IInv, TypeOK
      <4>2. QED
        BY <1>1, <3>5, <4>1 DEF Current, LibraryCurrent, Statements
    <3>7. QED
      BY <2>1, <3>1, <3>3, <3>4, <3>6, CreateLibraryReasons, AppliesAPI
         DEF CommitThenKeep
  <2>8. QED
    BY <2>6, <2>7
<1>5. CASE LibraryCreateLoad(r)
  <2>1. key[r] \in Present(db.libraries)
    BY <1>1, <1>5 DEF LibraryCreateLoad, LibraryLoad
  <2>2. QED
    BY <1>5, <2>1, CreateLibraryReasons, LoadAPI DEF LibraryCreateLoad
<1>6. QED
  BY <1>3, <1>4, <1>5, Endpoints
     DEF LibraryNext, LibraryUpdateFirst, LibraryUpdateFetch, LibraryUpdateTx,
         LibraryUpdateLoad, LibraryDeleteFirst, LibraryDeleteTx, AddBooksFirst,
         AddBooksJoins, AddBooksBooks, AddBooksFetch, AddBooksAppend,
         AddBooksLoad, RemoveBooksFirst, RemoveBooksDelete, RemoveBooksLoad

LEMMA UpdateLibraryAPI ==
    ASSUME NEW r \in Req, Alone(r), op[r] \in UpdateLibraryRequest,
           LibraryNext(r)
    PROVE  APIStep /\ Current(r)'
<1> DEFINE id == op[r].id
           row == LibraryOf(op[r])
<1>1. /\ op[r] \in Ops /\ ans[r] = NoAnswer
      /\ \/ pc[r] = "first"
         \/ /\ id \in Present(db.libraries)
            /\ \/ pc[r] = "fetch" /\ op[r].bookIds # NilIds
               \/ pc[r] = "tx" /\ Present(bks[r]) \subseteq Present(db.books)
               \/ pc[r] = "load"
  BY LibraryAt, Endpoints DEF LibraryCurrent, AddBooksCurrent
<1>2. /\ pc[r] = "fetch" => bks[r] = NoBooks
      /\ pc[r] = "tx" /\ op[r].bookIds # NilIds
            => Present(bks[r]) = op[r].bookIds
  BY AloneType DEF Holds, ListedBooks
<1>3. CASE LibraryUpdateFirst(r)
  <2>1. PICK s \in {"tx", "fetch"} :
           /\ First(r, db.libraries, s)
           /\ s = "fetch" => op[r].bookIds # NilIds
    BY <1>3 DEF LibraryUpdateFirst
  <2>2. QED
    BY <2>1, LibraryFirstAPI DEF Statements
<1>4. CASE LibraryUpdateFetch(r)
  <2>1. /\ FetchBooks(r, op[r].bookIds) /\ pc[r] = "fetch"
        /\ id \in Present(db.libraries) /\ op[r].bookIds # NilIds
    BY <1>1, <1>4 DEF LibraryUpdateFetch, FetchBooks
  <2>2. ASSUME op[r].bookIds \subseteq Present(db.books),
               pc'[r] = "tx", op' = op, ans' = ans, db' = db,
               Present(bks'[r]) = Present(bks[r]) \cup op[r].bookIds
        PROVE  Current(r)'
    <3>1. Present(bks'[r]) = op[r].bookIds
      BY <1>2, <2>1, <2>2, NoBooksType
    <3>2. QED
      BY <1>1, <2>1, <2>2, <3>1 DEF Current, LibraryCurrent, Statements
  <2>3. /\ ~API!NotFound
        /\ ~(op[r].bookIds \subseteq Present(db.books)) => API!Dangling
    BY <2>1, UpdateLibraryReasons
  <2>4. QED
    BY <2>1, <2>2, <2>3, FetchAPI
<1>5. CASE LibraryUpdateTx(r)
  <2>1. /\ id \in Present(db.libraries)
        /\ Present(bks[r]) \subseteq Present(db.books)
        /\ op[r].bookIds # NilIds => Present(bks[r]) = op[r].bookIds
        /\ pc[r] \in Statements \ Reading
    BY <1>1, <1>2, <1>5 DEF LibraryUpdateTx, Statements, Reading
  <2>2. row \in LibraryRow /\ row.name = op[r].name /\ db \in Database
    BY AloneType, DbNow
       DEF LibraryOf, LibraryRow, UpdateLibraryRequest, Sound
  <2> DEFINE saved == [db EXCEPT !.libraries = Upsert(@, id, row)]
             written == [db EXCEPT !.libraries[id] = row,
                            !.links[id] = IF op[r].bookIds = NilIds THEN @
                                          ELSE op[r].bookIds]
  <2>3. /\ op[r].bookIds = NilIds => saved = written
        /\ op[r].bookIds # NilIds => ReplaceBooks(saved, id, bks[r]) = written
        /\ ~LinkFails(saved, id, bks[r])
        /\ UpsertDuplicate(db.libraries, id, row)
              <=> NameTaken(db.libraries, op[r].name, id)
    <3>1. /\ saved = [db EXCEPT !.libraries[id] = row, !.links[id] = @]
          /\ ~LinkFails(saved, id, bks[r])
          /\ ReplaceBooks(saved, id, bks[r]) =
                [db EXCEPT !.libraries[id] = row, !.links[id] = Present(bks[r])]
          /\ UpsertDuplicate(db.libraries, id, row)
                <=> NameTaken(db.libraries, row.name, id)
      <4> HIDE DEF id, row
      <4>1. QED
        BY <2>1, <2>2, UpdateLibraryEffect
    <3>2. QED
      BY <2>1, <2>2, <3>1
  <2>4. \/ /\ UpsertDuplicate(db.libraries, id, row)
           /\ Answer(r, ErrConflict) /\ NoWrite
        \/ /\ ~UpsertDuplicate(db.libraries, id, row)
           /\ op[r].bookIds = NilIds
           /\ CommitThenGoto(r, saved, "load")
        \/ /\ ~UpsertDuplicate(db.libraries, id, row)
           /\ op[r].bookIds # NilIds
           /\ \/ LinkFails(saved, id, bks[r])
              \/ CommitThenGoto(r, ReplaceBooks(saved, id, bks[r]), "load")
    BY <1>5 DEF LibraryUpdateTx
  <2> HIDE DEF row, saved, written
  <2>5. ~API!NotFound /\ ~API!Dangling
    BY <2>1, UpdateLibraryReasons
  <2>6. CASE NameTaken(db.libraries, op[r].name, id)
    BY <2>1, <2>3, <2>4, <2>5, <2>6, UpdateLibraryReasons, RefusesAPI
  <2>7. CASE ~NameTaken(db.libraries, op[r].name, id)
    <3>1. CommitThenGoto(r, written, "load")
      BY <2>3, <2>4, <2>7
    <3>2. db' = written
      BY <3>1 DEF CommitThenGoto, Commit
    <3>3. Effects
      BY <3>2, AloneType, SameRequests
         DEF Effects, API!UpdateEffect, LibraryOf, row, written
    <3>4. API!Allowed
      BY <2>5, <2>7, UpdateLibraryReasons DEF API!Allowed
    <3>5. id \in Present(db'.libraries)
      <4>1. db'.libraries = [db.libraries EXCEPT ![id] = row]
        BY <2>2, <3>2 DEF written, Database
      <4>2. row # NoRow
        BY <2>2, NoRowAssumption
      <4>3. QED
        BY <2>1, <4>1, <4>2, Tables DEF Present
    <3>6. ASSUME Goto(r, "load")
          PROVE  UNCHANGED <<op, ans>> /\ Current(r)'
      <4>1. pc'[r] = "load" /\ op' = op /\ ans' = ans
        BY <3>6, AloneType DEF Goto, Continue
      <4>2. QED
        BY <1>1, <3>5, <4>1 DEF Current, LibraryCurrent, Statements
    <3>7. QED
      BY <2>1, <3>1, <3>3, <3>4, <3>6, UpdateLibraryReasons, AppliesAPI
         DEF CommitThenGoto
  <2>8. QED
    BY <2>6, <2>7
<1>6. CASE LibraryUpdateLoad(r)
  <2>1. id \in Present(db.libraries)
    BY <1>1, <1>6 DEF LibraryUpdateLoad, LibraryLoad
  <2>2. QED
    BY <1>6, <2>1, UpdateLibraryReasons, LoadAPI DEF LibraryUpdateLoad
<1>7. QED
  BY <1>3, <1>4, <1>5, <1>6, Endpoints
     DEF LibraryNext, LibraryCreateFetch, LibraryCreateTx, LibraryCreateLoad,
         LibraryDeleteFirst, LibraryDeleteTx, AddBooksFirst, AddBooksJoins,
         AddBooksBooks, AddBooksFetch, AddBooksAppend, AddBooksLoad,
         RemoveBooksFirst, RemoveBooksDelete, RemoveBooksLoad

LEMMA DeleteLibraryAPI ==
    ASSUME NEW r \in Req, Alone(r), op[r] \in DeleteLibraryRequest,
           LibraryNext(r)
    PROVE  APIStep /\ Current(r)'
<1> DEFINE id == op[r].id
<1>1. CASE LibraryDeleteFirst(r)
  BY <1>1, LibraryFirstAPI DEF LibraryDeleteFirst, Statements
<1>2. CASE LibraryDeleteTx(r)
  <2>1. id \in Present(db.libraries) /\ pc[r] \in Statements \ Reading
    BY <1>2, LibraryAt, Endpoints
       DEF LibraryCurrent, AddBooksCurrent, LibraryDeleteTx, Statements, Reading
  <2>2. id \in LibraryId /\ db \in Database
    BY AloneType, DbNow DEF Sound, DeleteLibraryRequest
  <2> DEFINE written == [db EXCEPT !.libraries[id] = NoRow, !.links[id] = {}]
  <2>3. CommitThenAnswer(r, written, Ok(204))
    BY <1>2, <2>2, DeleteLibraryEffect DEF LibraryDeleteTx
  <2>4. db' = written
    BY <2>3 DEF CommitThenAnswer, Commit
  <2>5. Effects
    BY <2>4, AloneType, SameRequests DEF Effects, API!DeleteEffect
  <2>6. API!Allowed
    BY <2>1, DeleteLibraryReasons DEF API!Allowed
  <2> HIDE DEF written
  <2>7. QED
    BY <2>1, <2>3, <2>5, <2>6, DeleteLibraryReasons, AppliesAPI
       DEF CommitThenAnswer
<1>3. QED
  BY <1>1, <1>2, Endpoints
     DEF LibraryNext, LibraryCreateFetch, LibraryCreateTx, LibraryCreateLoad,
         LibraryUpdateFirst, LibraryUpdateFetch, LibraryUpdateTx,
         LibraryUpdateLoad, AddBooksFirst, AddBooksJoins, AddBooksBooks,
         AddBooksFetch, AddBooksAppend, AddBooksLoad, RemoveBooksFirst,
         RemoveBooksDelete, RemoveBooksLoad

LEMMA RemoveBooksAPI ==
    ASSUME NEW r \in Req, Alone(r), op[r] \in RemoveBooksRequest,
           LibraryNext(r)
    PROVE  APIStep /\ Current(r)'
<1> DEFINE id == op[r].id
<1>1. /\ op[r] \in Ops /\ ans[r] = NoAnswer
      /\ pc[r] = "first" \/ id \in Present(db.libraries)
  BY LibraryAt, Endpoints DEF LibraryCurrent, AddBooksCurrent
<1>2. CASE RemoveBooksFirst(r)
  BY <1>2, LibraryFirstAPI DEF RemoveBooksFirst, Statements
<1>3. CASE RemoveBooksDelete(r)
  <2>1. id \in Present(db.libraries) /\ pc[r] \in Statements \ Reading
    BY <1>1, <1>3 DEF RemoveBooksDelete, Statements, Reading
  <2> DEFINE written == [db EXCEPT !.links[id] = @ \ op[r].bookIds]
  <2>2. CommitThenGoto(r, written, "load")
    BY <1>3 DEF RemoveBooksDelete, UnlinkBooks
  <2>3. db' = written
    BY <2>2 DEF CommitThenGoto, Commit
  <2>4. Effects
    BY <2>3, AloneType, SameRequests DEF Effects, API!MemberEffect
  <2>5. API!Allowed
    <3>1. op[r] \notin AddBooksRequest
      BY Endpoints
    <3>2. QED
      BY <2>1, <3>1, MemberReasons DEF API!Allowed
  <2>6. db'.libraries = db.libraries
    BY <2>3, AloneType, DbNow DEF Sound, Database
  <2> HIDE DEF written
  <2>7. ASSUME Goto(r, "load")
        PROVE  UNCHANGED <<op, ans>> /\ Current(r)'
    <3>1. pc'[r] = "load" /\ op' = op /\ ans' = ans
      BY <2>7, AloneType DEF Goto, Continue
    <3>2. QED
      BY <1>1, <2>1, <2>6, <3>1 DEF Current, LibraryCurrent, Statements
  <2>8. QED
    BY <2>1, <2>2, <2>4, <2>5, <2>7, MemberReasons, AppliesAPI DEF CommitThenGoto
<1>4. CASE RemoveBooksLoad(r)
  <2>1. id \in Present(db.libraries)
    BY <1>1, <1>4 DEF RemoveBooksLoad, LibraryLoad
  <2>2. QED
    BY <1>4, <2>1, MemberReasons, LoadAPI DEF RemoveBooksLoad
<1>5. QED
  BY <1>2, <1>3, <1>4, Endpoints
     DEF LibraryNext, LibraryCreateFetch, LibraryCreateTx, LibraryCreateLoad,
         LibraryUpdateFirst, LibraryUpdateFetch, LibraryUpdateTx,
         LibraryUpdateLoad, LibraryDeleteFirst, LibraryDeleteTx, AddBooksFirst,
         AddBooksJoins, AddBooksBooks, AddBooksFetch, AddBooksAppend, AddBooksLoad

(* When all the books are linked already, the effect is no change. *)
LEMMA LookupAPI ==
    ASSUME NEW r \in Req, Alone(r), op[r] \in AddBooksRequest,
           op[r].id \in Present(db.libraries), pc[r] \in {"joins", "books"},
           bks'[r] \in BookSlice, Present(bks'[r]) = db.links[op[r].id],
           AddBooksLookup(r, db.links[op[r].id])
    PROVE  APIStep /\ Current(r)'
<1> DEFINE id == op[r].id
           addIds == op[r].bookIds \ db.links[id]
<1>1. /\ pc[r] \in Statements \ Reading /\ op[r] \in Ops /\ ans[r] = NoAnswer
      /\ db.links \in [LibraryId -> SUBSET BookId] /\ id \in LibraryId
      /\ db.links[id] \subseteq Present(db.books)
      /\ ids \in [Req -> SUBSET BookId] /\ db \in Database
  BY AloneType, DbNow, Tables
     DEF Statements, Reading, IInv, TypeOK, AddBooksRequest, Sound
<1>2. /\ ids' = [ids EXCEPT ![r] = addIds]
      /\ IF addIds = {} THEN Continue(r, "load") /\ NothingToWrite(r)
                        ELSE Continue(r, "fetch") /\ NoWrite
  BY DEF AddBooksLookup
<1>3. CASE addIds = {}
  <2>1. /\ Commit(r, db) /\ db' = db /\ pc'[r] = "load" /\ op' = op /\ ans' = ans
    BY <1>2, <1>3, AloneType DEF NothingToWrite, Continue, Commit
  <2>2. db = [db EXCEPT !.links[id] = @ \cup op[r].bookIds]
    <3>1. db.links[id] \cup op[r].bookIds = db.links[id]
      BY <1>3
    <3>2. QED
      BY <1>1, <3>1 DEF Database
  <2>3. Effects
    BY <2>1, <2>2, AloneType, SameRequests DEF Effects, API!MemberEffect
  <2>4. API!Allowed
    BY <1>1, <1>3, MemberReasons DEF API!Allowed
  <2>5. Current(r)'
    BY <1>1, <2>1 DEF Current, LibraryCurrent, AddBooksCurrent, Statements
  <2>6. QED
    BY <1>1, <2>1, <2>3, <2>4, <2>5, MemberReasons, AppliesAPI
<1>4. CASE addIds # {}
  <2>1. /\ db' = db /\ applied' = applied /\ pc'[r] = "fetch" /\ op' = op
        /\ ans' = ans /\ ids'[r] = addIds
    BY <1>1, <1>2, <1>4, AloneType DEF Continue, NoWrite
  <2>2. Current(r)'
    BY <1>1, <2>1 DEF Current, LibraryCurrent, AddBooksCurrent, Statements
  <2>3. QED
    BY <2>1, <2>2, GoesOnAPI
<1>5. QED
  BY <1>3, <1>4

LEMMA AddBooksAPI ==
    ASSUME NEW r \in Req, Alone(r), op[r] \in AddBooksRequest,
           LibraryNext(r)
    PROVE  APIStep /\ Current(r)'
<1> DEFINE id == op[r].id
           linked == db.links[id]
<1>1. /\ op[r] \in Ops /\ ans[r] = NoAnswer /\ AddBooksCurrent(r, op[r])
      /\ id \in LibraryId /\ linked \subseteq Present(db.books)
      /\ db \in Database /\ bks \in [Req -> BookSlice]
      /\ ids \in [Req -> SUBSET BookId]
  BY LibraryAt, Endpoints, AloneType, DbNow, Tables
     DEF LibraryCurrent, AddBooksRequest, Sound, IInv, TypeOK
<1>2. CASE AddBooksFirst(r)
  BY <1>2, LibraryFirstAPI DEF AddBooksFirst, Statements
<1>3. CASE AddBooksJoins(r)
  <2>1. id \in Present(db.libraries) /\ bks[r] = NoBooks /\ bks' = bks
        /\ pc[r] = "joins"
    BY <1>1, <1>3 DEF AddBooksCurrent, AddBooksJoins
  <2>2. CASE linked = {}
    <3>1. AddBooksLookup(r, linked)
      BY <1>3, <2>2 DEF AddBooksJoins
    <3>2. QED
      BY <1>1, <2>1, <2>2, <3>1, NoBooksType, LookupAPI
  <2>3. CASE linked # {}
    <3>1. /\ ids'[r] = linked /\ pc'[r] = "books" /\ op' = op /\ ans' = ans
          /\ db' = db /\ applied' = applied
      BY <1>1, <1>3, <2>3, AloneType DEF AddBooksJoins, Continue, NoWrite
    <3>2. Current(r)'
      BY <1>1, <2>1, <3>1 DEF Current, LibraryCurrent, AddBooksCurrent, Statements
    <3>3. QED
      BY <3>1, <3>2, GoesOnAPI
  <2>4. QED
    BY <2>2, <2>3
<1>4. CASE AddBooksBooks(r)
  <2> DEFINE preloaded == FindBooks(db, linked)
  <2>1. /\ id \in Present(db.libraries) /\ ids[r] = linked /\ pc[r] = "books"
    BY <1>1, <1>4 DEF AddBooksCurrent, AddBooksBooks
  <2>2. preloaded \in BookSlice /\ Present(preloaded) = linked
    BY <1>1 DEF FindBooks, BookSlice, Present, Database
  <2>3. bks' = [bks EXCEPT ![r] = preloaded] /\ AddBooksLookup(r, Present(preloaded))
    BY <1>4, <2>1 DEF AddBooksBooks
  <2> HIDE DEF preloaded
  <2>4. QED
    BY <1>1, <2>1, <2>2, <2>3, LookupAPI
<1>5. CASE AddBooksFetch(r)
  <2>1. /\ FetchBooks(r, ids[r]) /\ id \in Present(db.libraries)
        /\ ids[r] = op[r].bookIds \ linked /\ Present(bks[r]) = linked
    BY <1>1, <1>5 DEF AddBooksCurrent, AddBooksFetch, FetchBooks
  <2>2. ASSUME ids[r] \subseteq Present(db.books),
               pc'[r] = "tx", op' = op, ans' = ans, db' = db,
               Present(bks'[r]) = Present(bks[r]) \cup ids[r]
        PROVE  Current(r)'
    <3>1. /\ Present(bks'[r]) = linked \cup op[r].bookIds
          /\ Present(bks'[r]) \subseteq Present(db.books)
      BY <1>1, <2>1, <2>2
    <3>2. QED
      BY <1>1, <2>1, <2>2, <3>1
         DEF Current, LibraryCurrent, AddBooksCurrent, Statements
  <2>3. /\ ~API!NotFound
        /\ ~(ids[r] \subseteq Present(db.books)) => API!Dangling
    BY <1>1, <2>1, MemberReasons
  <2>4. QED
    BY <2>1, <2>2, <2>3, FetchAPI
<1>6. CASE AddBooksAppend(r)
  <2>1. /\ id \in Present(db.libraries) /\ pc[r] \in Statements \ Reading
        /\ Present(bks[r]) = linked \cup op[r].bookIds
        /\ Present(bks[r]) \subseteq Present(db.books)
    BY <1>1, <1>6 DEF AddBooksCurrent, AddBooksAppend, Statements, Reading
  <2> DEFINE written == [db EXCEPT !.links[id] = @ \cup op[r].bookIds]
  <2>2. /\ ~LinkFails(db, id, bks[r])
        /\ AppendBooks(db, id, bks[r]) = written
    <3>1. /\ db \in Database /\ Present(bks[r]) \subseteq Present(db.books)
          /\ Present(bks[r]) = db.links[id] \cup op[r].bookIds
      BY <1>1, <2>1
    <3> HIDE DEF id, linked
    <3>2. ~LinkFails(db, id, bks[r])
      BY <2>1, <3>1, AddBooksEffect
    <3>3. AppendBooks(db, id, bks[r]) = Linked(db, id, op[r].bookIds)
      BY <2>1, <3>1, AddBooksEffect
    <3>4. QED
      BY <3>2, <3>3 DEF Linked
  <2>4. CommitThenGoto(r, written, "load")
    BY <1>6, <2>2 DEF AddBooksAppend
  <2>5. db' = written
    BY <2>4 DEF CommitThenGoto, Commit
  <2>6. Effects
    BY <2>5, AloneType, SameRequests DEF Effects, API!MemberEffect
  <2>7. API!Allowed
    BY <2>1, MemberReasons DEF API!Allowed
  <2>8. db'.libraries = db.libraries
    BY <1>1, <2>5 DEF Database
  <2> HIDE DEF written
  <2>9. ASSUME Goto(r, "load")
        PROVE  UNCHANGED <<op, ans>> /\ Current(r)'
    <3>1. pc'[r] = "load" /\ op' = op /\ ans' = ans
      BY <2>9, AloneType DEF Goto, Continue
    <3>2. QED
      BY <1>1, <2>1, <2>8, <3>1
         DEF Current, LibraryCurrent, AddBooksCurrent, Statements
  <2>10. QED
    BY <2>1, <2>4, <2>6, <2>7, <2>9, MemberReasons, AppliesAPI DEF CommitThenGoto
<1>7. CASE AddBooksLoad(r)
  <2>1. id \in Present(db.libraries)
    BY <1>1, <1>7 DEF AddBooksCurrent, AddBooksLoad, LibraryLoad
  <2>2. QED
    BY <1>7, <2>1, MemberReasons, LoadAPI DEF AddBooksLoad
<1>8. QED
  BY <1>2, <1>3, <1>4, <1>5, <1>6, <1>7, Endpoints
     DEF LibraryNext, LibraryCreateFetch, LibraryCreateTx, LibraryCreateLoad,
         LibraryUpdateFirst, LibraryUpdateFetch, LibraryUpdateTx,
         LibraryUpdateLoad, LibraryDeleteFirst, LibraryDeleteTx,
         RemoveBooksFirst, RemoveBooksDelete, RemoveBooksLoad

LEMMA LibraryAPI ==
    ASSUME NEW r \in Req, Alone(r), LibraryNext(r)
    PROVE  APIStep /\ Current(r)'
<1>1. op[r] \in CreateLibraryRequest \cup UpdateLibraryRequest
         \cup DeleteLibraryRequest \cup AddBooksRequest \cup RemoveBooksRequest
  BY LibraryAt DEF LibraryCurrent, AddBooksCurrent
<1>2. QED
  BY <1>1, CreateLibraryAPI, UpdateLibraryAPI, DeleteLibraryAPI, AddBooksAPI,
     RemoveBooksAPI

-----------------------------------------------------------------------------
(***************************************************************************)
(* The server's own steps, and the theorem.                                *)
(***************************************************************************)

(* What a handler knows at its first statement is what the request says. *)
LEMMA EntryCurrent ==
    ASSUME NEW r \in Req, NEW o \in Ops, IsRequest(o), bks[r] = NoBooks,
           op'[r] = o, pc'[r] = Entry(o), bks' = bks, ans'[r] = NoAnswer,
           UNCHANGED db
    PROVE  Current(r)'
<1>1. Present(bks[r]) = {}
  BY NoBooksType
<1>2. /\ o \in CreateAuthorRequest => Entry(o) = "insert"
      /\ o \in CreateBookRequest => Entry(o) = "check"
      /\ o \in CreateLibraryRequest => Entry(o) \in {"tx", "fetch"}
      /\ o \notin CreateAuthorRequest \cup CreateBookRequest \cup CreateLibraryRequest
            => Entry(o) = "first"
  BY Endpoints DEF Entry
<1>3. \/ AuthorCurrent(r, o)' \/ BookCurrent(r, o)' \/ LibraryCurrent(r, o)'
  BY <1>1, <1>2, Endpoints
     DEF IsRequest, AuthorCurrent, BookCurrent, LibraryCurrent, AddBooksCurrent
<1>4. Entry(o) \in Statements
  BY DEF Entry, Statements
<1>5. QED
  BY <1>3, <1>4 DEF Current

LEMMA ServerAPI ==
    ASSUME NEW r \in Req, Alone(r),
           Receive(r) \/ Reject(r) \/ DbError(r) \/ Respond(r)
    PROVE  APIStep /\ Current(r)'
<1>1. CASE Receive(r)
  <2>1. PICK o \in Ops : op'[r] = o /\ pc'[r] = Entry(o)
    BY <1>1, AloneType DEF Receive
  <2>2. op[r] = NoOp /\ ans[r] = NoAnswer /\ bks[r] = NoBooks
    BY <1>1, AloneType DEF Receive, Alone, Current, Statements, Holds
  <2>3. API!Call
    BY <1>1, <2>1, <2>2, AloneType, SameAnswers DEF Receive, API!Call
  <2>4. Current(r)'
    BY <1>1, <2>1, <2>2, EntryCurrent, OpsAssumption DEF Receive
  <2>5. QED
    BY <2>3, <2>4 DEF APIStep, API!Next
<1>2. CASE Reject(r)
  <2>1. op[r] = NoOp /\ ans[r] = NoAnswer
    BY <1>2 DEF Reject, Alone, Current, Statements
  <2>2. API!Return(ErrBadRequest) /\ Current(r)'
    BY <1>2, AnswersAPI, AnAnswer DEF Reject
  <2>3. API!BadRequest
    BY <1>2, <2>1, <2>2, AloneType, SameAnswers
       DEF Reject, NoWrite, API!BadRequest, API!Return
  <2>4. QED
    BY <2>2, <2>3 DEF APIStep, API!Next
<1>3. CASE DbError(r)
  BY <1>3, FailsAPI DEF DbError
<1>4. CASE Respond(r)
  <2>1. op[r] = NoOp /\ ans[r] # NoAnswer
    BY <1>4 DEF Respond, Alone, Current, Statements
  <2>2. /\ op'[r] = NoOp /\ ans'[r] = NoAnswer /\ applied'[r] = FALSE
        /\ pc'[r] = "idle" /\ db' = db
    BY <1>4, <2>1, AloneType DEF Respond
  <2>3. API!Finish
    BY <2>1, <2>2, AloneType, SameAnswers DEF API!Finish, API!Reset
  <2>4. QED
    BY <2>2, <2>3 DEF APIStep, API!Next, Current
<1>5. QED
  BY <1>1, <1>2, <1>3, <1>4

LEMMA CrashAPI ==
    ASSUME NEW r \in Req, Alone(r), Crash
    PROVE  APIStep /\ Current(r)'
<1>1. pc[r] # "idle"
  BY DEF Crash, Alone
<1>2. op[r] # NoOp \/ ans[r] # NoAnswer
  BY <1>1, OpsAssumption DEF Alone, Current
<1>3. /\ op'[r] = NoOp /\ ans'[r] = NoAnswer /\ applied'[r] = FALSE
      /\ pc'[r] = "idle" /\ db' = db
  BY DEF Crash
<1>4. API!Finish
  BY <1>2, <1>3, AloneType, SameAnswers DEF API!Finish, API!Reset
<1>5. QED
  BY <1>3, <1>4 DEF APIStep, API!Next, Current

LEMMA AloneStep ==
    ASSUME NEW r \in Req, Alone(r), [Next]_vars
    PROVE  APIStep /\ Current(r)'
<1>1. CASE UNCHANGED vars
  <2>1. Current(r)'
    BY <1>1 DEF vars, reqVars, Alone, Current, AuthorCurrent, BookCurrent,
                LibraryCurrent, AddBooksCurrent, AuthorExists
  <2>2. QED
    BY <1>1, <2>1, GoesOnAPI DEF vars, reqVars
<1>2. CASE Crash
  BY <1>2, CrashAPI
<1>3. CASE Receive(r) \/ Reject(r) \/ Handle(r) \/ DbError(r) \/ Respond(r)
  BY <1>3, AuthorAPI, BookAPI, LibraryAPI, ServerAPI DEF Handle
<1>4. QED
  BY <1>1, <1>2, <1>3 DEF Next, Alone

(* One client at a time sees the atomic API of CatalogAPI: whatever the    *)
(* statements of author.go, book.go and library.go, a request either takes *)
(* effect in one step and succeeds, or is refused for a reason that is in  *)
(* the data at that moment, with the status that reason calls for -- or    *)
(* fails with the database or dies with the server, before its effect or   *)
(* after it.                                                               *)
THEOREM AloneSeesTheAPI ==
    ASSUME NEW r, Req = {r}
    PROVE  Spec => ImplementsAPI
<1>1. r \in Req /\ TheRequest = r
  BY DEF TheRequest
<1>2. Init => API!Init /\ Current(r)
  BY <1>1, SameAnswers DEF Init, API!Init, Current
<1>3. LInv /\ Current(r) /\ [Next]_vars => APIStep /\ Current(r)'
  BY <1>1, AloneStep DEF Alone
<1>4. QED
  BY <1>2, <1>3, BooksListed, PTL DEF Spec, ImplementsAPI, API!Spec, APIStep

-----------------------------------------------------------------------------
(***************************************************************************)
(* What the comments of the code promise, and a single client gets.        *)
(***************************************************************************)
LEMMA StepsApply ==
    ASSUME APIStep
    PROVE  db' = db \/ (API!Allowed /\ Effects)
BY DEF APIStep, API!vars, API!Next, API!Call, API!BadRequest, API!Refuse,
       API!Apply, API!Succeed, API!Fail, API!Finish, Effects

(* What an effect does to the authors and to the links. *)
LEMMA EffectOnAuthors ==
    ASSUME NEW r \in Req, Alone(r), API!Allowed, Effects
    PROVE  \/ db'.authors = db.authors
           \/ \E x \in AuthorId \ db.authorIds : \E row :
                 db'.authors = [db.authors EXCEPT ![x] = row]
           \/ /\ op[r] \in UpdateAuthorRequest \cup DeleteAuthorRequest
              /\ op[r].id \in Present(db.authors)
              /\ \E row : db'.authors = [db.authors EXCEPT ![op[r].id] = row]
<1>1. db \in Database
  BY AloneType DEF IInv, TypeOK
<1>2. CASE API!CreateEffect
  BY <1>1, <1>2, AloneType, SameRequests DEF API!CreateEffect, Database
<1>3. CASE API!UpdateEffect
  <2>1. CASE op[r] \in UpdateAuthorRequest
    <3>1. op[r].id \in Present(db.authors)
      BY <2>1, Endpoints, NotFoundMeans DEF API!Allowed
    <3>2. db' = [db EXCEPT !.authors[op[r].id] = AuthorOf(op[r])]
      BY <1>3, <2>1, AloneType, SameRequests, Endpoints DEF API!UpdateEffect, AuthorOf
    <3>3. db'.authors = [db.authors EXCEPT ![op[r].id] = AuthorOf(op[r])]
      BY <1>1, <3>2 DEF Database
    <3>4. QED
      BY <2>1, <3>1, <3>3
  <2>2. CASE op[r] \notin UpdateAuthorRequest
    BY <1>1, <1>3, <2>2, AloneType, SameRequests DEF API!UpdateEffect, Database
  <2>3. QED
    BY <2>1, <2>2
<1>4. CASE API!DeleteEffect
  <2>1. CASE op[r] \in DeleteAuthorRequest
    <3>1. op[r].id \in Present(db.authors)
      BY <2>1, Endpoints, NotFoundMeans DEF API!Allowed
    <3>2. db' = [db EXCEPT !.authors[op[r].id] = NoRow]
      BY <1>4, <2>1, AloneType, SameRequests, Endpoints DEF API!DeleteEffect
    <3>3. db'.authors = [db.authors EXCEPT ![op[r].id] = NoRow]
      BY <1>1, <3>2 DEF Database
    <3>4. QED
      BY <2>1, <3>1, <3>3
  <2>2. CASE op[r] \notin DeleteAuthorRequest
    BY <1>1, <1>4, <2>2, AloneType, SameRequests DEF API!DeleteEffect, Database
  <2>3. QED
    BY <2>1, <2>2
<1>5. CASE API!MemberEffect
  BY <1>1, <1>5, AloneType, SameRequests DEF API!MemberEffect, Database
<1>6. QED
  BY <1>2, <1>3, <1>4, <1>5 DEF Effects

LEMMA EffectOnLinks ==
    ASSUME NEW r \in Req, Alone(r), Effects,
           NEW l \in LibraryId, NEW b \in db'.links[l] \ db.links[l]
    PROVE  Adds(op[r], l, b)
<1>1. db \in Database
  BY AloneType DEF IInv, TypeOK
<1>2. CASE API!CreateEffect
  <2>1. \/ db'.links = db.links
        \/ /\ op[r] \in CreateLibraryRequest
           /\ \E x \in LibraryId :
                 db'.links = [db.links EXCEPT ![x] = op[r].bookIds]
    <3>1. CASE op[r] \in CreateLibraryRequest
      <4>1. PICK x \in LibraryId :
               db' = [db EXCEPT !.libraries[x] = [name |-> op[r].name],
                                !.links[x] = op[r].bookIds,
                                !.libraryIds = @ \cup {x}]
        BY <1>2, <3>1, AloneType, SameRequests, Endpoints DEF API!CreateEffect
      <4>2. db'.links = [db.links EXCEPT ![x] = op[r].bookIds]
        BY <1>1, <4>1 DEF Database
      <4>3. QED
        BY <3>1, <4>2
    <3>2. CASE op[r] \notin CreateLibraryRequest
      BY <1>1, <1>2, <3>2, AloneType, SameRequests DEF API!CreateEffect, Database
    <3>3. QED
      BY <3>1, <3>2
  <2>2. QED
    BY <1>1, <2>1 DEF Database, Adds
<1>3. CASE API!UpdateEffect
  <2>1. \/ db'.links = db.links
        \/ /\ op[r] \in UpdateLibraryRequest /\ op[r].bookIds # NilIds
           /\ db'.links = [db.links EXCEPT ![op[r].id] = op[r].bookIds]
    <3>1. CASE op[r] \in UpdateLibraryRequest
      <4>1. db' = [db EXCEPT
                !.libraries[op[r].id] = [name |-> op[r].name],
                !.links[op[r].id] = IF op[r].bookIds = NilIds THEN @
                                    ELSE op[r].bookIds]
        BY <1>3, <3>1, AloneType, SameRequests, Endpoints DEF API!UpdateEffect
      <4>2. db'.links = [db.links EXCEPT
                ![op[r].id] = IF op[r].bookIds = NilIds THEN @ ELSE op[r].bookIds]
        BY <1>1, <4>1 DEF Database
      <4>3. op[r].bookIds = NilIds => db'.links = db.links
        BY <1>1, <4>2 DEF Database
      <4>4. QED
        BY <3>1, <4>2, <4>3
    <3>2. CASE op[r] \notin UpdateLibraryRequest
      BY <1>1, <1>3, <3>2, AloneType, SameRequests DEF API!UpdateEffect, Database
    <3>3. QED
      BY <3>1, <3>2
  <2>2. QED
    BY <1>1, <2>1 DEF Database, Adds
<1>4. CASE API!DeleteEffect
  <2>1. \/ db'.links = db.links
        \/ db'.links = [db.links EXCEPT ![op[r].id] = {}]
    BY <1>1, <1>4, AloneType, SameRequests DEF API!DeleteEffect, Database
  <2>2. QED
    BY <1>1, <2>1 DEF Database
<1>5. CASE API!MemberEffect
  <2>1. CASE op[r] \in AddBooksRequest
    <3>1. op[r].bookIds \in SUBSET BookId
      BY <2>1 DEF AddBooksRequest
    <3>2. db' = [db EXCEPT !.links[op[r].id] = @ \cup op[r].bookIds]
      BY <1>5, <2>1, AloneType, SameRequests, Endpoints DEF API!MemberEffect
    <3>3. db'.links = [db.links EXCEPT ![op[r].id] = @ \cup op[r].bookIds]
      BY <1>1, <3>2 DEF Database
    <3>4. QED
      BY <1>1, <2>1, <3>1, <3>3, NilIdsAssumption DEF Database, Adds
  <2>2. CASE op[r] \notin AddBooksRequest
    <3>1. db' = [db EXCEPT !.links[op[r].id] = @ \ op[r].bookIds]
      BY <1>5, <2>2, AloneType, SameRequests DEF API!MemberEffect
    <3>2. db'.links = [db.links EXCEPT ![op[r].id] = @ \ op[r].bookIds]
      BY <1>1, <3>1 DEF Database
    <3>3. QED
      BY <1>1, <3>2 DEF Database
  <2>3. QED
    BY <2>1, <2>2
<1>6. QED
  BY <1>2, <1>3, <1>4, <1>5 DEF Effects

(* With one client at a time the promises hold that interleavings break:   *)
(* Update of author.go brings no deleted author back and changes no row    *)
(* but its own, and AddBooks of library.go adds no book but the given.     *)
THEOREM AloneKeepsThePromises ==
    ASSUME NEW c, Req = {c}
    PROVE  Spec => /\ DeletedAuthorStaysDeleted
                   /\ UpdateTouchesOwnAuthor
                   /\ AddsOnlyGivenBooks
<1>1. c \in Req /\ TheRequest = c
  BY DEF TheRequest
<1>2. Init => Current(c)
  BY <1>1 DEF Init, Current
<1>3. ASSUME LInv, Current(c), [Next]_vars
      PROVE  /\ Alone(c) /\ Current(c)' /\ db \in Database
             /\ Present(db.authors) \subseteq db.authorIds
             /\ db' = db \/ (API!Allowed /\ Effects)
  <2>1. Alone(c)
    BY <1>1, <1>3 DEF Alone
  <2>2. db \in Database /\ Present(db.authors) \subseteq db.authorIds
    BY <2>1, <1>1, AloneType DEF IInv, TypeOK, DbIntegrity, OnlyIssuedIds
  <2>3. QED
    BY <1>1, <1>3, <2>1, <2>2, AloneStep, StepsApply
<1>4. LInv /\ Current(c) /\ [Next]_vars => Current(c)'
  BY <1>3
<1>5. LInv /\ Current(c) /\ [Next]_vars =>
         [\A x \in Present(db'.authors) \ Present(db.authors) :
             x \notin db.authorIds]_vars
  BY <1>1, <1>3, EffectOnAuthors DEF Present, Database
<1>6. ASSUME LInv, Current(c), [Next]_vars,
             NEW x \in Present(db.authors), db'.authors[x] # db.authors[x]
      PROVE  op[c] \in UpdateAuthorRequest \cup DeleteAuthorRequest /\ op[c].id = x
  <2>1. /\ Alone(c) /\ db \in Database /\ x \in AuthorId \cap db.authorIds
        /\ API!Allowed /\ Effects
    BY <1>3, <1>6 DEF Present, Database
  <2>2. PICK y \in AuthorId :
           /\ \E row : db'.authors = [db.authors EXCEPT ![y] = row]
           /\ y \in db.authorIds =>
                 op[c] \in UpdateAuthorRequest \cup DeleteAuthorRequest /\ op[c].id = y
    BY <1>1, <1>6, <2>1, EffectOnAuthors DEF Present, Database
  <2>3. QED
    BY <1>6, <2>1, <2>2 DEF Database
<1>7. LInv /\ Current(c) /\ [Next]_vars =>
         [\A x \in Present(db.authors) :
             db'.authors[x] # db.authors[x] =>
                \E r \in Req : /\ op[r] \in UpdateAuthorRequest \cup DeleteAuthorRequest
                               /\ op[r].id = x]_vars
  BY <1>1, <1>6
<1>8. LInv /\ Current(c) /\ [Next]_vars =>
         [\A l \in LibraryId : \A b \in db'.links[l] \ db.links[l] :
             \E r \in Req : Adds(op[r], l, b)]_vars
  BY <1>1, <1>3, EffectOnLinks
<1>9. QED
  BY <1>2, <1>4, <1>5, <1>7, <1>8, BooksListed, PTL
     DEF Spec, DeletedAuthorStaysDeleted, UpdateTouchesOwnAuthor, AddsOnlyGivenBooks
=============================================================================
