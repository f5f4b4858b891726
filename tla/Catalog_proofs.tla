--------------------------- MODULE Catalog_proofs ---------------------------
(***************************************************************************)
(* Type correctness and integrity of the catalogue, for any number of      *)
(* requests and any workload.  The invariant that makes integrity          *)
(* inductive says what a handler still knows, at each statement, of the    *)
(* rows it read before: their keys were handed out, if no more than that.  *)
(***************************************************************************)
EXTENDS Catalog, CatalogDB_proofs

(* What r's handler knows at statement pc[r]. *)
Locals(r) ==
    /\ Present(bks[r]) \subseteq db.bookIds
    /\ op[r] \in UpdateAuthorRequest /\ pc[r] \in {"update", "upsert"}
          => op[r].id \in db.authorIds
    /\ op[r] \in UpdateBookRequest /\ pc[r] \in {"check", "update", "upsert"}
          => op[r].id \in db.bookIds
    /\ op[r] \in UpdateLibraryRequest /\ pc[r] \in {"fetch", "tx"}
          => op[r].id \in db.libraryIds
    /\ pc[r] # "done" => (applied[r] <=> pc[r] \in {"reload", "load"})

IInv ==
    /\ TypeOK
    /\ DbIntegrity(db)
    /\ \A r \in Req : Locals(r)

LocalsType ==
    /\ pc \in [Req -> Statements \cup {"idle", "done"}]
    /\ op \in [Req -> Ops \cup {NoOp}]
    /\ key \in [Req -> BookId \cup LibraryId \cup {NoRow}]
    /\ ids \in [Req -> SUBSET BookId]
    /\ bks \in [Req -> BookSlice]
    /\ ans \in [Req -> Answers]

Same(q) ==
    /\ pc'[q] = pc[q] /\ op'[q] = op[q] /\ bks'[q] = bks[q]
    /\ applied'[q] = applied[q]

(* Only r moves, to statement s, or returns. *)
Moves(r, s) ==
    /\ LocalsType'
    /\ \A q \in Req \ {r} : pc'[q] = pc[q] /\ op'[q] = op[q] /\ bks'[q] = bks[q]
    /\ pc'[r] = s /\ op'[r] = op[r]

Returns(r) ==
    /\ LocalsType'
    /\ \A q \in Req \ {r} : pc'[q] = pc[q] /\ op'[q] = op[q] /\ bks'[q] = bks[q]
    /\ pc'[r] = "done" /\ op'[r] = NoOp /\ bks'[r] = NoBooks

LEMMA NoBooksType == NoBooks \in BookSlice /\ Present(NoBooks) = {}
BY DEF NoBooks, BookSlice, Present

LEMMA GotoMoves ==
    ASSUME LocalsType, NEW r \in Req, NEW s \in Statements, Goto(r, s)
    PROVE  Moves(r, s) /\ bks' = bks
BY DEF LocalsType, Goto, Continue, Moves

LEMMA AnswerReturns ==
    ASSUME LocalsType, NEW r \in Req, NEW a \in Answers, Answer(r, a)
    PROVE  Returns(r)
BY NoBooksType DEF LocalsType, Answer, DropLocals, Returns

LEMMA AnswersType ==
    /\ ErrBadRequest \in Answers /\ ErrValidation \in Answers
    /\ ErrNotFound \in Answers /\ ErrConflict \in Answers
    /\ \A s \in {200, 201, 204} : Ok(s) \in Answers
    /\ \A c \in {"missing", "fk", "db"} : ErrInternal(c) \in Answers
    /\ NoAnswer \in Answers
BY DEF Answers

-----------------------------------------------------------------------------
(***************************************************************************)
(* What a step of r must establish.                                        *)
(***************************************************************************)
Kept(r) ==
    /\ TypeOK'
    /\ Sound(db') /\ KeepsIds(db, db')
    /\ \A q \in Req \ {r} : Same(q)
    /\ Locals(r)'

(* r answers without a write. *)
LEMMA ReturnKept ==
    ASSUME IInv, NEW r \in Req, NEW a \in Answers, Answer(r, a), NoWrite
    PROVE  Kept(r)
<1>1. Returns(r)
  BY AnswerReturns DEF IInv, TypeOK, LocalsType
<1>2. QED
  BY <1>1, NoBooksType
     DEF IInv, TypeOK, LocalsType, Returns, NoWrite, Kept, Sound, KeepsIds,
         Same, Locals

(* r writes a sound database and answers. *)
LEMMA CommitReturnKept ==
    ASSUME IInv, NEW r \in Req, NEW a \in Answers, NEW d,
           Sound(d), KeepsIds(db, d), CommitThenAnswer(r, d, a)
    PROVE  Kept(r)
<1>1. Returns(r)
  BY AnswerReturns, AnswersType DEF IInv, TypeOK, LocalsType, CommitThenAnswer
<1>2. QED
  BY <1>1, NoBooksType
     DEF IInv, TypeOK, LocalsType, Returns, CommitThenAnswer, Commit, Kept,
         Sound, KeepsIds, Same, Locals

(* r writes a sound database and goes on to load its answer. *)
LEMMA CommitGotoKept ==
    ASSUME IInv, NEW r \in Req, NEW s \in {"reload", "load"}, NEW d,
           Sound(d), KeepsIds(db, d), CommitThenGoto(r, d, s)
    PROVE  Kept(r)
<1>1. \/ Returns(r)
      \/ Moves(r, s) /\ bks' = bks
  BY AnswerReturns, AnswersType, GotoMoves
     DEF IInv, TypeOK, LocalsType, CommitThenGoto, Statements
<1>2. QED
  BY <1>1, NoBooksType
     DEF IInv, TypeOK, LocalsType, Returns, Moves, CommitThenGoto, Commit, Kept,
         Sound, KeepsIds, Same, Locals

LEMMA CommitKeepKept ==
    ASSUME IInv, NEW r \in Req, NEW s \in {"reload", "load"}, NEW d,
           NEW x \in BookId \cup LibraryId,
           Sound(d), KeepsIds(db, d), CommitThenKeep(r, d, x, s)
    PROVE  Kept(r)
<1>1. \/ Returns(r)
      \/ Moves(r, s) /\ bks' = bks
  BY AnswerReturns, AnswersType
     DEF IInv, TypeOK, LocalsType, CommitThenKeep, Continue, Moves, Statements
<1>2. QED
  BY <1>1, NoBooksType
     DEF IInv, TypeOK, LocalsType, Returns, Moves, CommitThenKeep, Commit, Kept,
         Sound, KeepsIds, Same, Locals

(* r goes on to s, knowing there what s needs. *)
LEMMA GotoKept ==
    ASSUME IInv, NEW r \in Req, NEW s \in Statements \ {"reload", "load"},
           pc[r] \in Statements \ {"reload", "load"}, Goto(r, s), NoWrite,
           op[r] \in UpdateAuthorRequest /\ s \in {"update", "upsert"}
              => op[r].id \in db.authorIds,
           op[r] \in UpdateBookRequest /\ s \in {"check", "update", "upsert"}
              => op[r].id \in db.bookIds,
           op[r] \in UpdateLibraryRequest /\ s \in {"fetch", "tx"}
              => op[r].id \in db.libraryIds
    PROVE  Kept(r)
<1>1. Moves(r, s) /\ bks' = bks
  BY GotoMoves DEF IInv, TypeOK, LocalsType
<1>2. QED
  BY <1>1 DEF IInv, TypeOK, LocalsType, Moves, NoWrite, Kept, Sound, KeepsIds,
              Same, Locals, Statements

LEMMA FirstKept ==
    ASSUME IInv, NEW r \in Req, NEW table,
           NEW s \in Statements \ {"reload", "load"}, First(r, table, s),
           op[r] \in UpdateAuthorRequest => Present(table) \subseteq db.authorIds,
           op[r] \in UpdateBookRequest => Present(table) \subseteq db.bookIds,
           op[r] \in UpdateLibraryRequest => Present(table) \subseteq db.libraryIds
    PROVE  Kept(r)
<1>1. CASE op[r].id \in Present(table)
  BY <1>1, GotoKept DEF First, Statements
<1>2. CASE op[r].id \notin Present(table)
  BY <1>2, ReturnKept, AnswersType DEF First
<1>3. QED
  BY <1>1, <1>2

(* Integrity of the current database, in the parts the steps use. *)
LEMMA DbNow ==
    ASSUME IInv
    PROVE  /\ Sound(db)
           /\ Present(db.authors) \subseteq db.authorIds
           /\ Present(db.books) \subseteq db.bookIds
           /\ Present(db.libraries) \subseteq db.libraryIds
           /\ db.authorIds \subseteq AuthorId
           /\ db.bookIds \subseteq BookId
           /\ db.libraryIds \subseteq LibraryId
           /\ db.links \in [LibraryId -> SUBSET BookId]
           /\ db.authors \in [AuthorId -> AuthorRow \cup {NoRow}]
           /\ db.books \in BookSlice
           /\ db.libraries \in [LibraryId -> LibraryRow \cup {NoRow}]
BY DEF IInv, TypeOK, Sound, DbIntegrity, OnlyIssuedIds, Database

-----------------------------------------------------------------------------
(***************************************************************************)
(* author.go                                                               *)
(***************************************************************************)
LEMMA AuthorStep ==
    ASSUME IInv, NEW r \in Req, AuthorNext(r)
    PROVE  Kept(r)
<1> USE DbNow
<1>1. CASE AuthorCreate(r)
  <2>1. PICK x \in AuthorId \ db.authorIds :
           IF NameTaken(db.authors, op[r].name, x)
           THEN Answer(r, ErrConflict) /\ NoWrite
           ELSE CommitThenAnswer(r, InsertAuthor(db, x, AuthorOf(op[r])), Ok(201))
    BY <1>1 DEF AuthorCreate
  <2>2. CASE NameTaken(db.authors, op[r].name, x)
    BY <2>1, <2>2, ReturnKept, AnswersType
  <2>3. CASE ~NameTaken(db.authors, op[r].name, x)
    <3>1. AuthorOf(op[r]) \in AuthorRow /\ AuthorOf(op[r]).name = op[r].name
      BY <1>1 DEF AuthorCreate, CreateAuthorRequest, AuthorOf, AuthorRow
    <3>2. LET e == InsertAuthor(db, x, AuthorOf(op[r])) IN
          Sound(e) /\ KeepsIds(db, e)
      BY <2>3, <3>1, InsertAuthorSound
    <3>3. QED
      BY <2>1, <2>3, <3>2, CommitReturnKept, AnswersType
  <2>4. QED
    BY <2>2, <2>3
<1>2. CASE AuthorUpdateFirst(r)
  BY <1>2, FirstKept
     DEF AuthorUpdateFirst, UpdateAuthorRequest, UpdateBookRequest,
         UpdateLibraryRequest, Statements
<1>3. CASE AuthorUpdate(r)
  <2> DEFINE row == AuthorOf(op[r])
  <2>1. /\ row \in AuthorRow /\ row.name = op[r].name
        /\ op[r] \in UpdateAuthorRequest /\ op[r].id \in db.authorIds
        /\ pc[r] = "update"
    BY <1>3 DEF AuthorUpdate, UpdateAuthorRequest, AuthorOf, AuthorRow, IInv, Locals
  <2>2. CASE Goto(r, "upsert") /\ NoWrite
    BY <2>1, <2>2, GotoKept
       DEF UpdateAuthorRequest, UpdateBookRequest, UpdateLibraryRequest, Statements
  <2>3. CASE Answer(r, ErrConflict) /\ NoWrite
    BY <2>3, ReturnKept, AnswersType
  <2>4. CASE /\ ~NameTaken(db.authors, op[r].name, op[r].id)
             /\ CommitThenAnswer(r, [db EXCEPT !.authors[op[r].id] = row], Ok(200))
    <3>1. LET e == [db EXCEPT !.authors[op[r].id] = row] IN
          Sound(e) /\ KeepsIds(db, e)
      BY <2>1, <2>4, PutAuthorSound
    <3>2. QED
      BY <2>4, <3>1, CommitReturnKept, AnswersType
  <2>5. QED
    BY <1>3, <2>2, <2>3, <2>4 DEF AuthorUpdate
<1>4. CASE AuthorUpsert(r)
  <2> DEFINE row == AuthorOf(op[r])
  <2>1. row \in AuthorRow /\ op[r].id \in db.authorIds
    BY <1>4 DEF AuthorUpsert, UpdateAuthorRequest, AuthorOf, AuthorRow, IInv, Locals
  <2>2. CASE UpsertDuplicate(db.authors, op[r].id, row)
    BY <1>4, <2>2, ReturnKept, AnswersType DEF AuthorUpsert
  <2>3. CASE ~UpsertDuplicate(db.authors, op[r].id, row)
    <3>1. LET e == [db EXCEPT !.authors = Upsert(@, op[r].id, row)] IN
          Sound(e) /\ KeepsIds(db, e)
      BY <2>1, <2>3, UpsertAuthorSound
    <3>2. QED
      BY <1>4, <2>3, <3>1, CommitReturnKept, AnswersType DEF AuthorUpsert
  <2>4. QED
    BY <2>2, <2>3
<1>5. CASE AuthorDeleteFirst(r)
  BY <1>5, FirstKept
     DEF AuthorDeleteFirst, DeleteAuthorRequest, UpdateAuthorRequest,
         UpdateBookRequest, UpdateLibraryRequest, Statements
<1>6. CASE AuthorDelete(r)
  <2>1. op[r].id \in AuthorId
    BY <1>6 DEF AuthorDelete, DeleteAuthorRequest
  <2>2. CASE AuthorReferenced(db, op[r].id)
    BY <1>6, <2>2, ReturnKept, AnswersType DEF AuthorDelete
  <2>3. CASE ~AuthorReferenced(db, op[r].id)
    BY <1>6, <2>1, <2>3, DeleteAuthorSound, CommitReturnKept, AnswersType
       DEF AuthorDelete
  <2>4. QED
    BY <2>2, <2>3
<1>7. QED
  BY <1>1, <1>2, <1>3, <1>4, <1>5, <1>6 DEF AuthorNext

-----------------------------------------------------------------------------
(***************************************************************************)
(* book.go                                                                 *)
(***************************************************************************)
LEMMA BookCheckKept ==
    ASSUME IInv, NEW r \in Req, NEW s \in {"insert", "update"}, BookCheck(r, s),
           op[r] \in CreateBookRequest \cup UpdateBookRequest
    PROVE  Kept(r)
<1>1. CASE AuthorExists(op[r])
  BY <1>1, GotoKept
     DEF BookCheck, Statements, CreateBookRequest, UpdateAuthorRequest,
         UpdateBookRequest, UpdateLibraryRequest, IInv, Locals
<1>2. CASE ~AuthorExists(op[r])
  BY <1>2, ReturnKept, AnswersType DEF BookCheck
<1>3. QED
  BY <1>1, <1>2

LEMMA BookReloadKept ==
    ASSUME IInv, NEW r \in Req, NEW x, NEW s \in {200, 201}, BookReload(r, x, s)
    PROVE  Kept(r)
BY ReturnKept, AnswersType DEF BookReload

LEMMA BookStep ==
    ASSUME IInv, NEW r \in Req, BookNext(r)
    PROVE  Kept(r)
<1> USE DbNow
<1>1. CASE BookCreateCheck(r)
  BY <1>1, BookCheckKept DEF BookCreateCheck
<1>2. CASE BookCreate(r)
  <2> DEFINE row == BookOf(op[r])
  <2>1. /\ row \in BookRow /\ row.name = op[r].name
        /\ AuthorExists(op[r]) => row.author \in Present(db.authors)
    BY <1>2 DEF BookCreate, CreateBookRequest, BookOf, BookRow, AuthorExists
  <2>2. PICK x \in BookId \ db.bookIds :
           \/ Answer(r, ErrConflict) /\ NoWrite
           \/ Answer(r, ErrInternal("fk")) /\ NoWrite
           \/ /\ ~NameTaken(db.books, op[r].name, x) /\ AuthorExists(op[r])
              /\ CommitThenKeep(r, InsertBook(db, x, row), x, "reload")
    BY <1>2 DEF BookCreate
  <2>3. CASE (Answer(r, ErrConflict) \/ Answer(r, ErrInternal("fk"))) /\ NoWrite
    BY <2>3, ReturnKept, AnswersType
  <2>4. CASE /\ ~NameTaken(db.books, op[r].name, x) /\ AuthorExists(op[r])
             /\ CommitThenKeep(r, InsertBook(db, x, row), x, "reload")
    <3>1. LET e == InsertBook(db, x, row) IN Sound(e) /\ KeepsIds(db, e)
      BY <2>1, <2>4, InsertBookSound
    <3>2. QED
      BY <2>4, <3>1, CommitKeepKept
  <2>5. QED
    BY <2>2, <2>3, <2>4
<1>3. CASE BookCreateReload(r)
  BY <1>3, BookReloadKept DEF BookCreateReload
<1>4. CASE BookUpdateFirst(r)
  BY <1>4, FirstKept
     DEF BookUpdateFirst, UpdateAuthorRequest, UpdateBookRequest,
         UpdateLibraryRequest, Statements
<1>5. CASE BookUpdateCheck(r)
  BY <1>5, BookCheckKept DEF BookUpdateCheck
<1>6. CASE BookUpdate(r)
  <2> DEFINE row == BookOf(op[r])
  <2>1. /\ row \in BookRow /\ row.name = op[r].name
        /\ op[r] \in UpdateBookRequest /\ op[r].id \in db.bookIds
        /\ pc[r] = "update"
        /\ AuthorExists(op[r]) => row.author \in Present(db.authors)
    BY <1>6 DEF BookUpdate, UpdateBookRequest, BookOf, BookRow, AuthorExists,
                IInv, Locals
  <2>2. CASE Goto(r, "upsert") /\ NoWrite
    BY <2>1, <2>2, GotoKept
       DEF UpdateAuthorRequest, UpdateBookRequest, UpdateLibraryRequest, Statements
  <2>3. CASE (Answer(r, ErrConflict) \/ Answer(r, ErrInternal("fk"))) /\ NoWrite
    BY <2>3, ReturnKept, AnswersType
  <2>4. CASE /\ AuthorExists(op[r]) /\ ~NameTaken(db.books, op[r].name, op[r].id)
             /\ CommitThenGoto(r, [db EXCEPT !.books[op[r].id] = row], "reload")
    <3>1. LET e == [db EXCEPT !.books[op[r].id] = row] IN
          Sound(e) /\ KeepsIds(db, e)
      BY <2>1, <2>4, PutBookSound
    <3>2. QED
      BY <2>4, <3>1, CommitGotoKept
  <2>5. QED
    BY <1>6, <2>2, <2>3, <2>4 DEF BookUpdate
<1>7. CASE BookUpsert(r)
  <2> DEFINE row == BookOf(op[r])
  <2>1. /\ row \in BookRow /\ op[r].id \in db.bookIds
        /\ AuthorExists(op[r]) => row.author \in Present(db.authors)
    BY <1>7 DEF BookUpsert, UpdateBookRequest, BookOf, BookRow, AuthorExists,
                IInv, Locals
  <2>2. CASE (Answer(r, ErrConflict) \/ Answer(r, ErrInternal("fk"))) /\ NoWrite
    BY <2>2, ReturnKept, AnswersType
  <2>3. CASE /\ ~UpsertDuplicate(db.books, op[r].id, row) /\ AuthorExists(op[r])
             /\ CommitThenGoto(r,
                   [db EXCEPT !.books = Upsert(@, op[r].id, row)], "reload")
    <3>1. LET e == [db EXCEPT !.books = Upsert(@, op[r].id, row)] IN
          Sound(e) /\ KeepsIds(db, e)
      BY <2>1, <2>3, UpsertBookSound
    <3>2. QED
      BY <2>3, <3>1, CommitGotoKept
  <2>4. QED
    BY <1>7, <2>2, <2>3 DEF BookUpsert
<1>8. CASE BookUpdateReload(r)
  BY <1>8, BookReloadKept DEF BookUpdateReload
<1>9. CASE BookDeleteFirst(r)
  BY <1>9, FirstKept
     DEF BookDeleteFirst, DeleteBookRequest, UpdateAuthorRequest,
         UpdateBookRequest, UpdateLibraryRequest, Statements
<1>10. CASE BookDelete(r)
  <2>1. op[r].id \in BookId
    BY <1>10 DEF BookDelete, DeleteBookRequest
  <2>2. CASE BookReferenced(db, op[r].id)
    BY <1>10, <2>2, ReturnKept, AnswersType DEF BookDelete
  <2>3. CASE ~BookReferenced(db, op[r].id)
    BY <1>10, <2>1, <2>3, DeleteBookSound, CommitReturnKept, AnswersType
       DEF BookDelete
  <2>4. QED
    BY <2>2, <2>3
<1>11. QED
  BY <1>1, <1>2, <1>3, <1>4, <1>5, <1>6, <1>7, <1>8, <1>9, <1>10 DEF BookNext

-----------------------------------------------------------------------------
(***************************************************************************)
(* library.go                                                              *)
(***************************************************************************)
LEMMA FetchKept ==
    ASSUME IInv, NEW r \in Req, NEW wanted, FetchBooks(r, wanted),
           op[r] \notin UpdateAuthorRequest \cup UpdateBookRequest
    PROVE  Kept(r)
<1> USE DbNow
<1>1. CASE wanted \subseteq Present(db.books)
  <2> DEFINE held == [b \in BookId |-> IF b \in wanted THEN db.books[b]
                                                        ELSE bks[r][b]]
  <2>1. bks[r] \in BookSlice /\ Present(bks[r]) \subseteq db.bookIds
    BY DEF IInv, TypeOK, Locals
  <2>2. held \in BookSlice
    BY <2>1 DEF BookSlice
  <2>3. Present(held) \subseteq db.bookIds
    BY <2>1 DEF Present, BookSlice
  <2>4. /\ bks' = [bks EXCEPT ![r] = held]
        /\ Continue(r, "tx") /\ UNCHANGED <<key, ids>> /\ NoWrite
        /\ pc[r] = "fetch"
    BY <1>1 DEF FetchBooks
  <2> HIDE DEF held
  <2>5. QED
    BY <2>2, <2>3, <2>4
       DEF IInv, TypeOK, Continue, NoWrite, Kept, Sound, KeepsIds, Same, Locals,
           Statements
<1>2. CASE ~(wanted \subseteq Present(db.books))
  BY <1>2, ReturnKept, AnswersType DEF FetchBooks
<1>3. QED
  BY <1>1, <1>2

LEMMA LoadKept ==
    ASSUME IInv, NEW r \in Req, NEW x, NEW s \in {200, 201}, LibraryLoad(r, x, s)
    PROVE  Kept(r)
BY ReturnKept, AnswersType DEF LibraryLoad

LEMMA LibraryCreateStep ==
    ASSUME IInv, NEW r \in Req, LibraryCreateTx(r)
    PROVE  Kept(r)
<1> USE DbNow
<1>1. /\ LibraryOf(op[r]) \in LibraryRow /\ LibraryOf(op[r]).name = op[r].name
      /\ bks[r] \in BookSlice /\ Present(bks[r]) \subseteq db.bookIds
  BY DEF LibraryCreateTx, CreateLibraryRequest, LibraryOf, LibraryRow, IInv,
         TypeOK, Locals
<1>2. PICK x \in LibraryId \ db.libraryIds :
         LET inserted == InsertLibrary(db, x, LibraryOf(op[r])) IN
         \/ Answer(r, ErrConflict) /\ NoWrite
         \/ Answer(r, ErrInternal("fk")) /\ NoWrite
         \/ /\ ~NameTaken(db.libraries, op[r].name, x)
            /\ ~LinkFails(inserted, x, bks[r])
            /\ CommitThenKeep(r, ReplaceBooks(inserted, x, bks[r]), x, "load")
  BY DEF LibraryCreateTx
<1> DEFINE inserted == InsertLibrary(db, x, LibraryOf(op[r]))
<1>3. CASE (Answer(r, ErrConflict) \/ Answer(r, ErrInternal("fk"))) /\ NoWrite
  BY <1>3, ReturnKept, AnswersType
<1>4. CASE /\ ~NameTaken(db.libraries, op[r].name, x)
           /\ ~LinkFails(inserted, x, bks[r])
           /\ CommitThenKeep(r, ReplaceBooks(inserted, x, bks[r]), x, "load")
  <2>1. Sound(inserted) /\ KeepsIds(db, inserted)
    BY <1>1, <1>4, InsertLibrarySound
  <2> HIDE DEF inserted
  <2>2. LET e == ReplaceBooks(inserted, x, bks[r]) IN
        Sound(e) /\ KeepsIds(inserted, e)
    BY <1>1, <1>4, <2>1, ReplaceBooksSound DEF KeepsIds
  <2>3. KeepsIds(db, ReplaceBooks(inserted, x, bks[r]))
    BY <2>1, <2>2 DEF KeepsIds
  <2>4. QED
    BY <1>4, <2>2, <2>3, CommitKeepKept
<1>5. QED
  BY <1>2, <1>3, <1>4

LEMMA LibraryUpdateStep ==
    ASSUME IInv, NEW r \in Req, LibraryUpdateTx(r)
    PROVE  Kept(r)
<1> USE DbNow
<1> DEFINE id == op[r].id
           row == LibraryOf(op[r])
           saved == [db EXCEPT !.libraries = Upsert(@, id, row)]
<1>1. /\ row \in LibraryRow /\ id \in db.libraryIds
      /\ bks[r] \in BookSlice /\ Present(bks[r]) \subseteq db.bookIds
  BY DEF LibraryUpdateTx, UpdateLibraryRequest, LibraryOf, LibraryRow, IInv,
         TypeOK, Locals
<1>2. \/ Answer(r, ErrConflict) /\ NoWrite
      \/ Answer(r, ErrInternal("fk")) /\ NoWrite
      \/ /\ ~UpsertDuplicate(db.libraries, id, row)
         /\ CommitThenGoto(r, saved, "load")
      \/ /\ ~UpsertDuplicate(db.libraries, id, row)
         /\ ~LinkFails(saved, id, bks[r])
         /\ CommitThenGoto(r, ReplaceBooks(saved, id, bks[r]), "load")
  BY DEF LibraryUpdateTx
<1>3. CASE (Answer(r, ErrConflict) \/ Answer(r, ErrInternal("fk"))) /\ NoWrite
  BY <1>3, ReturnKept, AnswersType
<1>4. ASSUME ~UpsertDuplicate(db.libraries, id, row)
      PROVE  Sound(saved) /\ KeepsIds(db, saved)
  BY <1>1, <1>4, UpsertLibrarySound
<1> HIDE DEF saved
<1>5. CASE /\ ~UpsertDuplicate(db.libraries, id, row)
           /\ CommitThenGoto(r, saved, "load")
  BY <1>4, <1>5, CommitGotoKept
<1>6. CASE /\ ~UpsertDuplicate(db.libraries, id, row)
           /\ ~LinkFails(saved, id, bks[r])
           /\ CommitThenGoto(r, ReplaceBooks(saved, id, bks[r]), "load")
  <2>1. LET e == ReplaceBooks(saved, id, bks[r]) IN
        Sound(e) /\ KeepsIds(saved, e)
    BY <1>1, <1>4, <1>6, ReplaceBooksSound DEF KeepsIds
  <2>2. KeepsIds(db, ReplaceBooks(saved, id, bks[r]))
    BY <1>4, <1>6, <2>1 DEF KeepsIds
  <2>3. QED
    BY <1>6, <2>1, <2>2, CommitGotoKept
<1>7. QED
  BY <1>2, <1>3, <1>5, <1>6

LEMMA LibraryDeleteStep ==
    ASSUME IInv, NEW r \in Req, LibraryDeleteTx(r)
    PROVE  Kept(r)
<1> USE DbNow
<1> DEFINE id == op[r].id
           cleared == ClearBooks(db, id)
<1>1. id \in LibraryId
  BY DEF LibraryDeleteTx, DeleteLibraryRequest
<1>2. Sound(cleared) /\ KeepsIds(db, cleared)
  BY <1>1, FewerLinksSound DEF ClearBooks
<1>3. \/ Answer(r, ErrInternal("fk")) /\ NoWrite
      \/ /\ ~LibraryReferenced(cleared, id)
         /\ CommitThenAnswer(r, DeleteLibrary(cleared, id), Ok(204))
  BY DEF LibraryDeleteTx
<1> HIDE DEF cleared
<1>4. CASE Answer(r, ErrInternal("fk")) /\ NoWrite
  BY <1>4, ReturnKept, AnswersType
<1>5. CASE /\ ~LibraryReferenced(cleared, id)
           /\ CommitThenAnswer(r, DeleteLibrary(cleared, id), Ok(204))
  <2>1. LET e == DeleteLibrary(cleared, id) IN Sound(e) /\ KeepsIds(cleared, e)
    BY <1>1, <1>2, <1>5, DeleteLibrarySound
  <2>2. KeepsIds(db, DeleteLibrary(cleared, id))
    BY <1>2, <2>1 DEF KeepsIds
  <2>3. QED
    BY <1>5, <2>1, <2>2, CommitReturnKept, AnswersType
<1>6. QED
  BY <1>3, <1>4, <1>5

(* What AddBooks has found linked, it does not look up again. *)
LEMMA LookupKept ==
    ASSUME IInv, NEW r \in Req, NEW linked, AddBooksLookup(r, linked),
           op[r] \in AddBooksRequest, pc[r] \in {"joins", "books"},
           bks' \in [Req -> BookSlice], Present(bks'[r]) \subseteq db.bookIds,
           \A q \in Req \ {r} : bks'[q] = bks[q]
    PROVE  Kept(r)
<1> DEFINE addIds == op[r].bookIds \ linked
<1>1. addIds \in SUBSET BookId
  BY DEF AddBooksRequest
<1>2. /\ ids' = [ids EXCEPT ![r] = addIds] /\ UNCHANGED <<key, op, ans, db>>
      /\ \/ /\ pc' = [pc EXCEPT ![r] = "load"]
            /\ applied' = [applied EXCEPT ![r] = TRUE]
         \/ pc' = [pc EXCEPT ![r] = "fetch"] /\ UNCHANGED applied
  BY DEF AddBooksLookup, Continue, NothingToWrite, NoWrite
<1> HIDE DEF addIds
<1>3. /\ op[r] \notin UpdateAuthorRequest /\ op[r] \notin UpdateBookRequest
      /\ op[r] \notin UpdateLibraryRequest
  BY DEF AddBooksRequest, UpdateAuthorRequest, UpdateBookRequest,
         UpdateLibraryRequest
<1>4. QED
  BY <1>1, <1>2, <1>3
     DEF IInv, TypeOK, Kept, Sound, KeepsIds, Same, Locals, Statements

LEMMA AddBooksStep ==
    ASSUME IInv, NEW r \in Req,
           AddBooksJoins(r) \/ AddBooksBooks(r) \/ AddBooksAppend(r)
    PROVE  Kept(r)
<1> USE DbNow
<1>1. /\ op[r] \in AddBooksRequest /\ op[r].id \in LibraryId
      /\ op[r] \notin UpdateAuthorRequest /\ op[r] \notin UpdateBookRequest
      /\ op[r] \notin UpdateLibraryRequest
      /\ bks \in [Req -> BookSlice] /\ Present(bks[r]) \subseteq db.bookIds
  BY DEF AddBooksJoins, AddBooksBooks, AddBooksAppend, AddBooksRequest,
         UpdateAuthorRequest, UpdateBookRequest, UpdateLibraryRequest, IInv,
         TypeOK, Locals
<1>2. CASE AddBooksJoins(r)
  <2> DEFINE linked == db.links[op[r].id]
  <2>1. CASE linked = {}
    BY <1>1, <1>2, <2>1, LookupKept DEF AddBooksJoins
  <2>2. CASE linked # {}
    <3>1. linked \in SUBSET BookId
      BY <1>1
    <3>2. /\ ids' = [ids EXCEPT ![r] = linked] /\ Continue(r, "books")
          /\ NoWrite /\ UNCHANGED <<key, bks>> /\ pc[r] = "joins"
      BY <1>2, <2>2 DEF AddBooksJoins
    <3> HIDE DEF linked
    <3>3. QED
      BY <1>1, <3>1, <3>2
         DEF IInv, TypeOK, Continue, NoWrite, Kept, Sound, KeepsIds, Same,
             Locals, Statements
  <2>3. QED
    BY <2>1, <2>2
<1>3. CASE AddBooksBooks(r)
  <2> DEFINE preloaded == FindBooks(db, ids[r])
  <2>1. preloaded \in BookSlice /\ Present(preloaded) \subseteq db.bookIds
    BY DEF FindBooks, BookSlice, Present
  <2>2. /\ bks' = [bks EXCEPT ![r] = preloaded] /\ pc[r] = "books"
        /\ AddBooksLookup(r, Present(preloaded))
    BY <1>3 DEF AddBooksBooks
  <2> HIDE DEF preloaded
  <2>3. QED
    BY <1>1, <2>1, <2>2, LookupKept
<1>4. CASE AddBooksAppend(r)
  <2>1. CASE LinkFails(db, op[r].id, bks[r])
    BY <1>4, <2>1, ReturnKept, AnswersType DEF AddBooksAppend
  <2>2. CASE ~LinkFails(db, op[r].id, bks[r])
    <3>1. LET e == AppendBooks(db, op[r].id, bks[r]) IN
          Sound(e) /\ KeepsIds(db, e)
      BY <1>1, <2>2, AppendBooksSound
    <3>2. QED
      BY <1>4, <2>2, <3>1, CommitGotoKept DEF AddBooksAppend
  <2>3. QED
    BY <2>1, <2>2
<1>5. QED
  BY <1>2, <1>3, <1>4

LEMMA RemoveBooksStep ==
    ASSUME IInv, NEW r \in Req, RemoveBooksDelete(r)
    PROVE  Kept(r)
<1> USE DbNow
<1>1. op[r].id \in LibraryId
  BY DEF RemoveBooksDelete, RemoveBooksRequest
<1>2. LET e == UnlinkBooks(db, op[r].id, op[r].bookIds) IN
      Sound(e) /\ KeepsIds(db, e)
  BY <1>1, FewerLinksSound DEF UnlinkBooks
<1>3. QED
  BY <1>2, CommitGotoKept DEF RemoveBooksDelete

LEMMA LibraryLoadStep ==
    ASSUME IInv, NEW r \in Req,
           \/ LibraryCreateLoad(r) \/ LibraryUpdateLoad(r)
           \/ AddBooksLoad(r) \/ RemoveBooksLoad(r)
    PROVE  Kept(r)
<1>1. CASE LibraryCreateLoad(r)
  BY <1>1, LoadKept DEF LibraryCreateLoad
<1>2. CASE LibraryUpdateLoad(r)
  BY <1>2, LoadKept DEF LibraryUpdateLoad
<1>3. CASE AddBooksLoad(r)
  BY <1>3, LoadKept DEF AddBooksLoad
<1>4. CASE RemoveBooksLoad(r)
  BY <1>4, LoadKept DEF RemoveBooksLoad
<1>5. QED
  BY <1>1, <1>2, <1>3, <1>4

LEMMA LibraryStep ==
    ASSUME IInv, NEW r \in Req, LibraryNext(r)
    PROVE  Kept(r)
<1> USE DbNow
<1> USE DEF CreateLibraryRequest, UpdateLibraryRequest, DeleteLibraryRequest,
            AddBooksRequest, RemoveBooksRequest, UpdateAuthorRequest,
            UpdateBookRequest, Statements
<1>1. CASE LibraryUpdateFirst(r)
  BY <1>1, FirstKept DEF LibraryUpdateFirst
<1>2. CASE LibraryDeleteFirst(r)
  BY <1>2, FirstKept DEF LibraryDeleteFirst
<1>3. CASE AddBooksFirst(r)
  BY <1>3, FirstKept DEF AddBooksFirst
<1>4. CASE RemoveBooksFirst(r)
  BY <1>4, FirstKept DEF RemoveBooksFirst
<1>5. CASE LibraryCreateFetch(r) \/ LibraryUpdateFetch(r) \/ AddBooksFetch(r)
  BY <1>5, FetchKept DEF LibraryCreateFetch, LibraryUpdateFetch, AddBooksFetch
<1>6. CASE \/ LibraryCreateLoad(r) \/ LibraryUpdateLoad(r)
           \/ AddBooksLoad(r) \/ RemoveBooksLoad(r)
  BY <1>6, LibraryLoadStep
<1>7. QED
  BY <1>1, <1>2, <1>3, <1>4, <1>5, <1>6, LibraryCreateStep, LibraryUpdateStep,
     LibraryDeleteStep, AddBooksStep, RemoveBooksStep
     DEF LibraryNext

-----------------------------------------------------------------------------
(***************************************************************************)
(* The server's own steps, and the theorems.                               *)
(***************************************************************************)
LEMMA ServerStep ==
    ASSUME IInv, NEW r \in Req,
           Receive(r) \/ Reject(r) \/ DbError(r) \/ Respond(r)
    PROVE  Kept(r)
<1>1. CASE Reject(r) \/ DbError(r)
  BY <1>1, ReturnKept, AnswersType DEF Reject, DbError
<1>2. CASE Receive(r)
  <2>1. PICK o \in Ops : /\ op' = [op EXCEPT ![r] = o]
                         /\ pc' = [pc EXCEPT ![r] = Entry(o)]
    BY <1>2 DEF Receive
  <2>2. /\ Entry(o) \in {"insert", "check", "tx", "fetch", "first"}
        /\ o \in UpdateAuthorRequest => Entry(o) = "first"
        /\ o \in UpdateBookRequest => Entry(o) = "first"
        /\ o \in UpdateLibraryRequest => Entry(o) = "first"
    BY DEF Entry, CreateAuthorRequest, CreateBookRequest, CreateLibraryRequest,
           UpdateAuthorRequest, UpdateBookRequest, UpdateLibraryRequest
  <2>3. QED
    BY <1>2, <2>1, <2>2
       DEF Receive, IInv, TypeOK, Kept, Sound, KeepsIds, Same, Locals, Statements
<1>3. CASE Respond(r)
  BY <1>3, AnswersType
     DEF Respond, IInv, TypeOK, Kept, Sound, KeepsIds, Same, Locals, Statements
<1>4. QED
  BY <1>1, <1>2, <1>3

(* What the others know stays true: keys stay handed out. *)
LEMMA OthersKept ==
    ASSUME IInv, NEW r \in Req, Kept(r)
    PROVE  IInv'
<1>1. ASSUME NEW q \in Req \ {r}
      PROVE  Locals(q)'
  BY DEF IInv, Kept, KeepsIds, Same, Locals
<1>2. QED
  BY <1>1 DEF IInv, Kept, Sound

LEMMA Initially == Init => IInv
<1> SUFFICES ASSUME Init PROVE IInv
  OBVIOUS
<1>1. db \in Database /\ DbIntegrity(db)
  BY NoBooksType
     DEF Init, Database, DbIntegrity, UniqueNames, BooksHaveAuthors,
         LinksHaveEnds, OnlyIssuedIds, Present
<1>2. TypeOK
  BY <1>1, NoBooksType, AnswersType DEF Init, TypeOK
<1>3. \A r \in Req : Locals(r)
  BY NoBooksType DEF Init, Locals
<1>4. QED
  BY <1>1, <1>2, <1>3 DEF IInv

LEMMA CrashKept ==
    ASSUME IInv, Crash
    PROVE  IInv'
BY NoBooksType, AnswersType DEF Crash, IInv, TypeOK, Locals, Statements

LEMMA Inductive == IInv /\ [Next]_vars => IInv'
<1> SUFFICES ASSUME IInv, [Next]_vars PROVE IInv'
  OBVIOUS
<1>1. CASE Next
  <2>1. CASE Crash
    BY <2>1, CrashKept
  <2>2. ASSUME NEW r \in Req,
               Receive(r) \/ Reject(r) \/ Handle(r) \/ DbError(r) \/ Respond(r)
        PROVE  IInv'
    BY <2>2, AuthorStep, BookStep, LibraryStep, ServerStep, OthersKept DEF Handle
  <2>3. QED
    BY <1>1, <2>1, <2>2 DEF Next
<1>2. CASE UNCHANGED vars
  BY <1>2 DEF vars, reqVars, IInv, TypeOK, Locals
<1>3. QED
  BY <1>1, <1>2

THEOREM Invariance == Spec => []IInv
BY Initially, Inductive, PTL DEF Spec

(* Every handler local, answer and table stays of its type, through every  *)
(* handler of author.go, book.go and library.go.                           *)
THEOREM TypeCorrect == Spec => []TypeOK
BY Invariance, PTL DEF IInv

(* Whatever the handlers read before they write, and whatever happens in   *)
(* between, the tables keep the integrity of the schema.                   *)
THEOREM IntegrityHolds == Spec => []Integrity
<1>1. IInv => Integrity
  BY DEF IInv, Integrity
<1>2. QED
  BY <1>1, Invariance, PTL

-----------------------------------------------------------------------------
(***************************************************************************)
(* The links.  Between its lookup and its transaction a Create or an       *)
(* Update holds the books of its body and nothing else, so that what it    *)
(* writes is the list it was given.                                        *)
(***************************************************************************)
ListedBooks(o) == IF o.bookIds = NilIds THEN {} ELSE o.bookIds

Holds(r) ==
    /\ pc[r] \in {"idle", "first", "done"} => bks[r] = NoBooks
    /\ op[r] \in CreateLibraryRequest \cup UpdateLibraryRequest =>
          /\ pc[r] = "fetch" => bks[r] = NoBooks
          /\ pc[r] = "tx" => Present(bks[r]) = ListedBooks(op[r])

LInv == IInv /\ \A r \in Req : Holds(r)

LEMMA AnswerHolds ==
    ASSUME IInv, NEW r \in Req, NEW a, Answer(r, a)
    PROVE  Holds(r)'
BY DEF Answer, DropLocals, IInv, TypeOK, Holds

LEMMA GotoHolds ==
    ASSUME IInv, NEW r \in Req, NEW s \in Statements \ {"first"}, Goto(r, s),
           op[r] \notin CreateLibraryRequest \cup UpdateLibraryRequest
              \/ s \notin {"fetch", "tx"}
    PROVE  Holds(r)'
BY DEF Goto, Continue, IInv, TypeOK, Holds, Statements

LEMMA FirstHolds ==
    ASSUME IInv, NEW r \in Req, Holds(r), NEW table,
           NEW s \in Statements \ {"first"}, First(r, table, s),
           op[r] \in CreateLibraryRequest \cup UpdateLibraryRequest /\ s = "tx"
              => ListedBooks(op[r]) = {}
    PROVE  Holds(r)'
<1>1. CASE op[r].id \in Present(table)
  BY <1>1, NoBooksType
     DEF First, Goto, Continue, IInv, TypeOK, Holds, Statements
<1>2. CASE op[r].id \notin Present(table)
  BY <1>2, AnswerHolds DEF First
<1>3. QED
  BY <1>1, <1>2

LEMMA FetchHolds ==
    ASSUME IInv, NEW r \in Req, Holds(r), NEW wanted, FetchBooks(r, wanted),
           op[r] \in CreateLibraryRequest \cup UpdateLibraryRequest
              => wanted = op[r].bookIds
    PROVE  Holds(r)'
<1>1. CASE wanted \subseteq Present(db.books)
  <2> DEFINE held == [b \in BookId |-> IF b \in wanted THEN db.books[b]
                                                        ELSE bks[r][b]]
  <2>1. /\ bks' = [bks EXCEPT ![r] = held] /\ Continue(r, "tx") /\ pc[r] = "fetch"
    BY <1>1 DEF FetchBooks
  <2>2. ASSUME bks[r] = NoBooks
        PROVE  Present(held) = wanted
    BY <1>1, <2>2, DbNow DEF NoBooks, Present, BookSlice
  <2>3. wanted # NilIds
    BY <1>1, DbNow, NilIdsAssumption DEF Present, BookSlice
  <2> HIDE DEF held
  <2>4. QED
    BY <2>1, <2>2, <2>3 DEF Continue, IInv, TypeOK, Holds, ListedBooks
<1>2. CASE ~(wanted \subseteq Present(db.books))
  BY <1>2, AnswerHolds DEF FetchBooks
<1>3. QED
  BY <1>1, <1>2

LEMMA AuthorHolds ==
    ASSUME IInv, NEW r \in Req, Holds(r), AuthorNext(r)
    PROVE  Holds(r)'
<1> USE DEF CreateAuthorRequest, UpdateAuthorRequest, DeleteAuthorRequest,
            CreateLibraryRequest, UpdateLibraryRequest, Statements
<1>1. CASE AuthorUpdateFirst(r) \/ AuthorDeleteFirst(r)
  BY <1>1, FirstHolds DEF AuthorUpdateFirst, AuthorDeleteFirst
<1>2. CASE AuthorCreate(r) \/ AuthorUpdate(r) \/ AuthorUpsert(r) \/ AuthorDelete(r)
  <2>1. \/ \E a : Answer(r, a)
        \/ Goto(r, "upsert") /\ op[r] \in UpdateAuthorRequest
    BY <1>2 DEF AuthorCreate, AuthorUpdate, AuthorUpsert, AuthorDelete,
                CommitThenAnswer
  <2>2. QED
    BY <2>1, AnswerHolds, GotoHolds
<1>3. QED
  BY <1>1, <1>2 DEF AuthorNext

LEMMA BookHolds ==
    ASSUME IInv, NEW r \in Req, Holds(r), BookNext(r)
    PROVE  Holds(r)'
<1> USE DEF CreateBookRequest, UpdateBookRequest, DeleteBookRequest,
            CreateLibraryRequest, UpdateLibraryRequest, Statements
<1>1. CASE BookUpdateFirst(r) \/ BookDeleteFirst(r)
  BY <1>1, FirstHolds DEF BookUpdateFirst, BookDeleteFirst
<1>2. CASE BookCreate(r)
  <2>1. \/ \E a : Answer(r, a)
        \/ Continue(r, "reload") /\ UNCHANGED bks
    BY <1>2 DEF BookCreate, CommitThenKeep
  <2>2. op[r] \in CreateBookRequest
    BY <1>2 DEF BookCreate
  <2>3. QED
    BY <2>1, <2>2, AnswerHolds DEF Continue, IInv, TypeOK, Holds
<1>3. CASE \/ BookCreateCheck(r) \/ BookCreateReload(r) \/ BookUpdateCheck(r)
           \/ BookUpdate(r) \/ BookUpsert(r) \/ BookUpdateReload(r) \/ BookDelete(r)
  <2>1. /\ op[r] \in CreateBookRequest \cup UpdateBookRequest \cup DeleteBookRequest
        /\ \/ \E a : Answer(r, a)
           \/ \E s \in {"insert", "update", "upsert", "reload"} : Goto(r, s)
    BY <1>3 DEF BookCreateCheck, BookCreateReload, BookUpdateCheck, BookUpdate,
                BookUpsert, BookUpdateReload, BookDelete, BookCheck, BookReload,
                CommitThenAnswer, CommitThenGoto
  <2>2. QED
    BY <2>1, AnswerHolds, GotoHolds
<1>4. QED
  BY <1>1, <1>2, <1>3 DEF BookNext

LEMMA LibraryHolds ==
    ASSUME IInv, NEW r \in Req, Holds(r), LibraryNext(r)
    PROVE  Holds(r)'
<1> USE DEF CreateLibraryRequest, UpdateLibraryRequest, DeleteLibraryRequest,
            AddBooksRequest, RemoveBooksRequest, Statements
<1>1. CASE LibraryUpdateFirst(r) \/ LibraryDeleteFirst(r)
  BY <1>1, FirstHolds DEF LibraryUpdateFirst, LibraryDeleteFirst, ListedBooks
<1>2. CASE AddBooksFirst(r) \/ RemoveBooksFirst(r)
  BY <1>2, FirstHolds DEF AddBooksFirst, RemoveBooksFirst
<1>3. CASE LibraryCreateFetch(r) \/ LibraryUpdateFetch(r) \/ AddBooksFetch(r)
  BY <1>3, FetchHolds DEF LibraryCreateFetch, LibraryUpdateFetch, AddBooksFetch
<1>4. CASE AddBooksJoins(r) \/ AddBooksBooks(r)
  <2>1. /\ op[r] \in AddBooksRequest
        /\ \E s \in {"books", "load", "fetch"} : Continue(r, s)
    BY <1>4 DEF AddBooksJoins, AddBooksBooks, AddBooksLookup
  <2>2. QED
    BY <2>1 DEF Continue, IInv, TypeOK, Holds
<1>5. CASE LibraryCreateTx(r)
  <2>1. \/ \E a : Answer(r, a)
        \/ Continue(r, "load") /\ UNCHANGED bks
    BY <1>5 DEF LibraryCreateTx, CommitThenKeep
  <2>2. QED
    BY <2>1, AnswerHolds DEF Continue, IInv, TypeOK, Holds
<1>6. CASE \/ LibraryUpdateTx(r) \/ LibraryDeleteTx(r) \/ AddBooksAppend(r)
           \/ RemoveBooksDelete(r)
  <2>1. (\E a : Answer(r, a)) \/ Goto(r, "load")
    BY <1>6 DEF LibraryUpdateTx, LibraryDeleteTx, AddBooksAppend,
                RemoveBooksDelete, CommitThenAnswer, CommitThenGoto
  <2>2. QED
    BY <2>1, AnswerHolds, GotoHolds
<1>7. CASE \/ LibraryCreateLoad(r) \/ LibraryUpdateLoad(r)
           \/ AddBooksLoad(r) \/ RemoveBooksLoad(r)
  <2>1. \E a : Answer(r, a)
    BY <1>7 DEF LibraryCreateLoad, LibraryUpdateLoad, AddBooksLoad,
                RemoveBooksLoad, LibraryLoad
  <2>2. QED
    BY <2>1, AnswerHolds
<1>8. QED
  BY <1>1, <1>2, <1>3, <1>4, <1>5, <1>6, <1>7 DEF LibraryNext

LEMMA ServerHolds ==
    ASSUME IInv, NEW r \in Req, Holds(r),
           Receive(r) \/ Reject(r) \/ DbError(r) \/ Respond(r)
    PROVE  Holds(r)'
<1>1. CASE Reject(r) \/ DbError(r)
  BY <1>1, AnswerHolds DEF Reject, DbError
<1>2. CASE Receive(r)
  <2>1. PICK o \in Ops : op'[r] = o /\ pc'[r] = Entry(o)
    BY <1>2 DEF Receive, IInv, TypeOK
  <2>2. /\ o \in CreateLibraryRequest /\ Entry(o) = "tx" => ListedBooks(o) = {}
        /\ o \in UpdateLibraryRequest => Entry(o) # "tx"
    BY DEF Entry, CreateAuthorRequest, CreateBookRequest, CreateLibraryRequest,
           UpdateLibraryRequest, ListedBooks
  <2>3. bks'[r] = NoBooks
    BY <1>2 DEF Receive, Holds
  <2>4. QED
    BY <2>1, <2>2, <2>3, NoBooksType DEF Holds
<1>3. CASE Respond(r)
  BY <1>3 DEF Respond, IInv, TypeOK, Holds
<1>4. QED
  BY <1>1, <1>2, <1>3

LEMMA LInvInductive == LInv /\ [Next]_vars => LInv'
<1> SUFFICES ASSUME LInv, [Next]_vars PROVE LInv'
  OBVIOUS
<1>1. IInv /\ IInv' /\ \A r \in Req : Holds(r)
  BY Inductive DEF LInv
<1>2. ASSUME NEW r \in Req,
             Receive(r) \/ Reject(r) \/ Handle(r) \/ DbError(r) \/ Respond(r)
      PROVE  \A q \in Req : Holds(q)'
  <2>1. \A q \in Req \ {r} : Same(q)
    BY <1>1, <1>2, AuthorStep, BookStep, LibraryStep, ServerStep DEF Handle, Kept
  <2>2. \A q \in Req \ {r} : Holds(q)'
    BY <1>1, <2>1 DEF Same, Holds
  <2>3. Holds(r)'
    BY <1>1, <1>2, AuthorHolds, BookHolds, LibraryHolds, ServerHolds DEF Handle
  <2>4. QED
    BY <2>2, <2>3
<1>3. CASE Crash
  BY <1>1, <1>3 DEF Crash, Holds, LInv
<1>4. CASE UNCHANGED vars
  BY <1>1, <1>4 DEF vars, reqVars, Holds, LInv
<1>5. QED
  BY <1>1, <1>2, <1>3, <1>4 DEF Next, LInv

LEMMA BooksListed == Spec => []LInv
<1>1. Init => LInv
  BY Initially DEF Init, LInv, Holds
<1>2. QED
  BY <1>1, LInvInductive, PTL DEF Spec

(***************************************************************************)
(* What a step of r makes of the links, by the kind of its request.        *)
(***************************************************************************)
Idles(r) == db'.links = db.links /\ (applied'[r] => applied[r])

WritesLinks(r) ==
    \/ /\ op[r] \in CreateLibraryRequest
       /\ \E l \in Present(db'.libraries) \ Present(db.libraries) :
             db'.links = [db.links EXCEPT ![l] = op[r].bookIds]
    \/ /\ op[r] \in UpdateLibraryRequest
       /\ db'.links = IF op[r].bookIds = NilIds THEN db.links
                      ELSE [db.links EXCEPT ![op[r].id] = op[r].bookIds]
    \/ /\ op[r] \in DeleteLibraryRequest
       /\ db'.links = [db.links EXCEPT ![op[r].id] = {}]
    \/ /\ op[r] \in RemoveBooksRequest
       /\ db'.links = [db.links EXCEPT ![op[r].id] = @ \ op[r].bookIds]
    \/ /\ op[r] \notin CreateLibraryRequest \cup UpdateLibraryRequest
       /\ \A l \in LibraryId : db.links[l] \subseteq db'.links[l]

LinkStep(r) == Idles(r) \/ WritesLinks(r)

LEMMA NoWriteIdles ==
    ASSUME NEW r \in Req, NoWrite
    PROVE  LinkStep(r)
BY DEF NoWrite, LinkStep, Idles

(* Authors and books are written without a look at the join table. *)
LEMMA AuthorLinks ==
    ASSUME IInv, NEW r \in Req, AuthorNext(r)
    PROVE  LinkStep(r)
<1> USE DEF CommitThenAnswer, Commit, Sound, Database
<1>1. NoWrite \/ db'.links = db.links
  <2> USE DbNow
  <2>1. CASE AuthorCreate(r)
    BY <2>1 DEF AuthorCreate, InsertAuthor
  <2>2. CASE AuthorUpdateFirst(r) \/ AuthorDeleteFirst(r)
    BY <2>2 DEF AuthorUpdateFirst, AuthorDeleteFirst, First
  <2>3. CASE AuthorUpdate(r)
    BY <2>3 DEF AuthorUpdate
  <2>4. CASE AuthorUpsert(r)
    BY <2>4 DEF AuthorUpsert
  <2>5. CASE AuthorDelete(r)
    BY <2>5 DEF AuthorDelete, DeleteAuthor
  <2>6. QED
    BY <2>1, <2>2, <2>3, <2>4, <2>5 DEF AuthorNext
<1>2. op[r] \in CreateAuthorRequest \cup UpdateAuthorRequest \cup DeleteAuthorRequest
  BY DEF AuthorNext, AuthorCreate, AuthorUpdateFirst, AuthorUpdate, AuthorUpsert,
         AuthorDeleteFirst, AuthorDelete
<1>3. op[r] \notin CreateLibraryRequest \cup UpdateLibraryRequest
  BY <1>2 DEF CreateAuthorRequest, UpdateAuthorRequest, DeleteAuthorRequest,
              CreateLibraryRequest, UpdateLibraryRequest
<1>4. QED
  BY <1>1, <1>3, NoWriteIdles DEF LinkStep, WritesLinks

LEMMA BookLinks ==
    ASSUME IInv, NEW r \in Req, BookNext(r)
    PROVE  LinkStep(r)
<1> USE DEF CommitThenAnswer, CommitThenGoto, CommitThenKeep, Commit, Sound,
            Database
<1>1. NoWrite \/ db'.links = db.links
  <2> USE DbNow
  <2>1. CASE BookCreate(r)
    BY <2>1 DEF BookCreate, InsertBook
  <2>2. CASE \/ BookUpdateFirst(r) \/ BookDeleteFirst(r) \/ BookCreateCheck(r)
             \/ BookUpdateCheck(r) \/ BookCreateReload(r) \/ BookUpdateReload(r)
    BY <2>2 DEF BookUpdateFirst, BookDeleteFirst, BookCreateCheck,
                BookUpdateCheck, BookCreateReload, BookUpdateReload, BookCheck,
                BookReload, First
  <2>3. CASE BookUpdate(r)
    BY <2>3 DEF BookUpdate
  <2>4. CASE BookUpsert(r)
    BY <2>4 DEF BookUpsert
  <2>5. CASE BookDelete(r)
    BY <2>5 DEF BookDelete, DeleteBook
  <2>6. QED
    BY <2>1, <2>2, <2>3, <2>4, <2>5 DEF BookNext
<1>2. op[r] \in CreateBookRequest \cup UpdateBookRequest \cup DeleteBookRequest
  BY DEF BookNext, BookCreateCheck, BookCreate, BookCreateReload, BookUpdateFirst,
         BookUpdateCheck, BookUpdate, BookUpsert, BookUpdateReload,
         BookDeleteFirst, BookDelete
<1>3. op[r] \notin CreateLibraryRequest \cup UpdateLibraryRequest
  BY <1>2 DEF CreateBookRequest, UpdateBookRequest, DeleteBookRequest,
              CreateLibraryRequest, UpdateLibraryRequest
<1>4. QED
  BY <1>1, <1>3, NoWriteIdles DEF LinkStep, WritesLinks

LEMMA LibraryCreateLinks ==
    ASSUME IInv, NEW r \in Req, Holds(r), LibraryCreateTx(r)
    PROVE  LinkStep(r)
<1> USE DbNow
<1>1. /\ op[r] \in CreateLibraryRequest /\ pc[r] = "tx"
      /\ LibraryOf(op[r]) \in LibraryRow /\ LibraryOf(op[r]).name = op[r].name
      /\ bks[r] \in BookSlice /\ Present(bks[r]) \subseteq db.bookIds
  BY DEF LibraryCreateTx, CreateLibraryRequest, LibraryOf, LibraryRow, IInv,
         TypeOK, Locals
<1>2. Present(bks[r]) = op[r].bookIds
  BY <1>1, NilIdsAssumption DEF Holds, ListedBooks, CreateLibraryRequest
<1>3. PICK x \in LibraryId \ db.libraryIds :
         LET inserted == InsertLibrary(db, x, LibraryOf(op[r])) IN
         \/ NoWrite
         \/ /\ ~NameTaken(db.libraries, op[r].name, x)
            /\ ~LinkFails(inserted, x, bks[r])
            /\ db' = ReplaceBooks(inserted, x, bks[r])
  BY DEF LibraryCreateTx, CommitThenKeep, Commit
<1> DEFINE inserted == InsertLibrary(db, x, LibraryOf(op[r]))
<1>4. CASE /\ ~NameTaken(db.libraries, op[r].name, x)
           /\ ~LinkFails(inserted, x, bks[r])
           /\ db' = ReplaceBooks(inserted, x, bks[r])
  <2>1. Sound(inserted) /\ KeepsIds(db, inserted)
    BY <1>1, <1>4, InsertLibrarySound
  <2>2. inserted.links = db.links /\ inserted.libraries[x] = LibraryOf(op[r])
    BY DEF InsertLibrary, Sound, Database
  <2>3. ReplaceBooks(inserted, x, bks[r]).libraries = inserted.libraries
    BY DEF ReplaceBooks, AppendBooks, InsertLibrary
  <2> HIDE DEF inserted
  <2>4. db'.links = [db.links EXCEPT ![x] = op[r].bookIds]
    BY <1>1, <1>2, <1>4, <2>1, <2>2, ReplaceBooksSound DEF KeepsIds
  <2>5. x \in Present(db'.libraries) \ Present(db.libraries)
    BY <1>1, <1>4, <2>1, <2>2, <2>3, NoRowAssumption DEF Present, Sound, Database
  <2>6. QED
    BY <1>1, <2>4, <2>5 DEF LinkStep, WritesLinks
<1>5. QED
  BY <1>3, <1>4, NoWriteIdles

LEMMA LibraryUpdateLinks ==
    ASSUME IInv, NEW r \in Req, Holds(r), LibraryUpdateTx(r)
    PROVE  LinkStep(r)
<1> USE DbNow
<1> DEFINE id == op[r].id
           row == LibraryOf(op[r])
           saved == [db EXCEPT !.libraries = Upsert(@, id, row)]
<1>1. /\ op[r] \in UpdateLibraryRequest /\ pc[r] = "tx"
      /\ row \in LibraryRow /\ id \in db.libraryIds
      /\ bks[r] \in BookSlice /\ Present(bks[r]) \subseteq db.bookIds
  BY DEF LibraryUpdateTx, UpdateLibraryRequest, LibraryOf, LibraryRow, IInv,
         TypeOK, Locals
<1>2. saved.links = db.links
  BY DEF Sound, Database
<1>3. \/ NoWrite
      \/ op[r].bookIds = NilIds /\ db' = saved
      \/ /\ op[r].bookIds # NilIds
         /\ ~UpsertDuplicate(db.libraries, id, row)
         /\ ~LinkFails(saved, id, bks[r])
         /\ db' = ReplaceBooks(saved, id, bks[r])
  BY DEF LibraryUpdateTx, CommitThenGoto, Commit
<1>4. CASE op[r].bookIds = NilIds /\ db' = saved
  BY <1>1, <1>2, <1>4 DEF LinkStep, WritesLinks
<1>5. CASE /\ op[r].bookIds # NilIds
           /\ ~UpsertDuplicate(db.libraries, id, row)
           /\ ~LinkFails(saved, id, bks[r])
           /\ db' = ReplaceBooks(saved, id, bks[r])
  <2>1. Sound(saved) /\ KeepsIds(db, saved)
    BY <1>1, <1>5, UpsertLibrarySound
  <2>2. Present(bks[r]) = op[r].bookIds
    BY <1>1, <1>5 DEF Holds, ListedBooks
  <2> HIDE DEF saved
  <2>3. db'.links = [db.links EXCEPT ![id] = op[r].bookIds]
    BY <1>1, <1>2, <1>5, <2>1, <2>2, ReplaceBooksSound DEF KeepsIds
  <2>4. QED
    BY <1>1, <1>5, <2>3 DEF LinkStep, WritesLinks
<1>6. QED
  BY <1>3, <1>4, <1>5, NoWriteIdles

LEMMA LibraryDeleteLinks ==
    ASSUME IInv, NEW r \in Req, LibraryDeleteTx(r)
    PROVE  LinkStep(r)
<1>1. NoWrite \/ db' = DeleteLibrary(ClearBooks(db, op[r].id), op[r].id)
  BY DEF LibraryDeleteTx, CommitThenAnswer, Commit
<1>2. op[r] \in DeleteLibraryRequest
  BY DEF LibraryDeleteTx
<1>3. DeleteLibrary(ClearBooks(db, op[r].id), op[r].id).links
         = [db.links EXCEPT ![op[r].id] = {}]
  BY DbNow DEF DeleteLibrary, ClearBooks, Sound, Database
<1>4. QED
  BY <1>1, <1>2, <1>3, NoWriteIdles DEF LinkStep, WritesLinks

(* AddBooks only adds, whatever it holds by then. *)
LEMMA AddBooksLinks ==
    ASSUME IInv, NEW r \in Req,
           AddBooksJoins(r) \/ AddBooksBooks(r) \/ AddBooksAppend(r)
    PROVE  LinkStep(r)
<1> USE DbNow
<1>1. /\ op[r] \in AddBooksRequest /\ op[r].id \in LibraryId
      /\ op[r] \notin CreateLibraryRequest \cup UpdateLibraryRequest
      /\ bks[r] \in BookSlice /\ Present(bks[r]) \subseteq db.bookIds
  BY DEF AddBooksJoins, AddBooksBooks, AddBooksAppend, AddBooksRequest,
         CreateLibraryRequest, UpdateLibraryRequest, IInv, TypeOK, Locals
<1>2. CASE AddBooksJoins(r) \/ AddBooksBooks(r)
  <2>1. db' = db
    BY <1>2 DEF AddBooksJoins, AddBooksBooks, AddBooksLookup, NoWrite,
                NothingToWrite
  <2>2. QED
    BY <1>1, <2>1 DEF LinkStep, WritesLinks
<1>3. CASE AddBooksAppend(r)
  <2>1. CASE LinkFails(db, op[r].id, bks[r])
    BY <1>3, <2>1, NoWriteIdles DEF AddBooksAppend
  <2>2. CASE ~LinkFails(db, op[r].id, bks[r])
    <3>1. db'.links = [db.links EXCEPT ![op[r].id] = @ \cup Present(bks[r])]
      BY <1>1, <1>3, <2>2, AppendBooksSound
         DEF AddBooksAppend, CommitThenGoto, Commit
    <3>2. QED
      BY <1>1, <3>1 DEF LinkStep, WritesLinks
  <2>3. QED
    BY <2>1, <2>2
<1>4. QED
  BY <1>2, <1>3

LEMMA LibraryLinks ==
    ASSUME IInv, NEW r \in Req, Holds(r), LibraryNext(r)
    PROVE  LinkStep(r)
<1>1. CASE \/ LibraryUpdateFirst(r) \/ LibraryDeleteFirst(r)
           \/ AddBooksFirst(r) \/ RemoveBooksFirst(r)
  BY <1>1, NoWriteIdles
     DEF LibraryUpdateFirst, LibraryDeleteFirst, AddBooksFirst, RemoveBooksFirst,
         First
<1>2. CASE LibraryCreateFetch(r) \/ LibraryUpdateFetch(r) \/ AddBooksFetch(r)
  BY <1>2, NoWriteIdles
     DEF LibraryCreateFetch, LibraryUpdateFetch, AddBooksFetch, FetchBooks
<1>3. CASE \/ LibraryCreateLoad(r) \/ LibraryUpdateLoad(r)
           \/ AddBooksLoad(r) \/ RemoveBooksLoad(r)
  BY <1>3, NoWriteIdles
     DEF LibraryCreateLoad, LibraryUpdateLoad, AddBooksLoad, RemoveBooksLoad,
         LibraryLoad
<1>4. CASE RemoveBooksDelete(r)
  <2>1. db'.links = [db.links EXCEPT ![op[r].id] = @ \ op[r].bookIds]
    BY <1>4, DbNow
       DEF RemoveBooksDelete, CommitThenGoto, Commit, UnlinkBooks, Sound, Database
  <2>2. QED
    BY <1>4, <2>1 DEF RemoveBooksDelete, LinkStep, WritesLinks
<1>5. QED
  BY <1>1, <1>2, <1>3, <1>4, LibraryCreateLinks, LibraryUpdateLinks,
     LibraryDeleteLinks, AddBooksLinks DEF LibraryNext

LEMMA ServerLinks ==
    ASSUME IInv, NEW r \in Req,
           Receive(r) \/ Reject(r) \/ DbError(r) \/ Respond(r)
    PROVE  LinkStep(r)
BY DEF Receive, Reject, DbError, Respond, NoWrite, IInv, TypeOK, LinkStep, Idles

(* A step of the whole server is one request's, or touches no link. *)
LEMMA LinkSteps ==
    ASSUME LInv, [Next]_vars
    PROVE  \/ db'.links = db.links /\ \A q \in Req : applied'[q] => applied[q]
           \/ \E r \in Req : /\ WritesLinks(r)
                             /\ \A q \in Req \ {r} : applied'[q] = applied[q]
<1>1. ASSUME NEW r \in Req,
             Receive(r) \/ Reject(r) \/ Handle(r) \/ DbError(r) \/ Respond(r)
      PROVE  LinkStep(r) /\ \A q \in Req \ {r} : applied'[q] = applied[q]
  <2>1. Kept(r)
    BY <1>1, AuthorStep, BookStep, LibraryStep, ServerStep DEF Handle, LInv
  <2>2. LinkStep(r)
    BY <1>1, AuthorLinks, BookLinks, LibraryLinks, ServerLinks DEF Handle, LInv
  <2>3. QED
    BY <2>1, <2>2 DEF Kept, Same
<1>2. CASE Crash
  BY <1>2 DEF Crash
<1>3. CASE UNCHANGED vars
  BY <1>3 DEF vars, reqVars
<1>4. QED
  BY <1>1, <1>2, <1>3 DEF Next, LinkStep, Idles

LEMMA KindsOfLinkRequests ==
    ASSUME NEW o
    PROVE  /\ o \in CreateLibraryRequest => o \notin UpdateLibraryRequest
           /\ o \in CreateLibraryRequest \cup UpdateLibraryRequest =>
                 o \notin DeleteLibraryRequest \cup RemoveBooksRequest
           /\ o \in UpdateLibraryRequest \cup DeleteLibraryRequest
                      \cup RemoveBooksRequest => o.id \in LibraryId
BY DEF CreateLibraryRequest, UpdateLibraryRequest, DeleteLibraryRequest,
       RemoveBooksRequest

(* No interleaving undoes a link behind the clients' backs: a join row     *)
(* goes away only in the write of a request that asks for it -- a Remove,  *)
(* a full replace, a Delete of library.go.                                 *)
THEOREM LinksGoOnDemand == Spec => UnlinkedOnDemand
<1>1. ASSUME LInv, [Next]_vars,
             NEW l \in LibraryId, NEW b \in db.links[l] \ db'.links[l]
      PROVE  \E r \in Req : Unlinks(op[r], l, b)
  <2>1. PICK r \in Req : WritesLinks(r)
    BY <1>1, LinkSteps
  <2>2. /\ db.links \in [LibraryId -> SUBSET BookId]
        /\ \A x \in LibraryId \ Present(db.libraries) : db.links[x] = {}
    BY <1>1, DbNow DEF LInv, Sound, DbIntegrity, LinksHaveEnds
  <2>3. CASE op[r] \in CreateLibraryRequest
    <3>1. PICK x \in Present(db'.libraries) \ Present(db.libraries) :
             db'.links = [db.links EXCEPT ![x] = op[r].bookIds]
      BY <2>1, <2>3, KindsOfLinkRequests DEF WritesLinks
    <3>2. QED
      BY <1>1, <2>2, <3>1
  <2>4. CASE op[r] \in UpdateLibraryRequest
    BY <1>1, <2>1, <2>2, <2>4, KindsOfLinkRequests DEF WritesLinks, Unlinks
  <2>5. CASE op[r] \notin CreateLibraryRequest \cup UpdateLibraryRequest
    BY <1>1, <2>1, <2>2, <2>5, KindsOfLinkRequests DEF WritesLinks, Unlinks
  <2>6. QED
    BY <2>3, <2>4, <2>5
<1>2. LInv /\ [Next]_vars =>
         [\A l \in LibraryId : \A b \in db.links[l] \ db'.links[l] :
             \E r \in Req : Unlinks(op[r], l, b)]_vars
  BY <1>1
<1>3. QED
  BY <1>2, BooksListed, PTL DEF Spec, UnlinkedOnDemand

(* PUT replaces the whole list, POST starts with it: the links a Create or *)
(* an Update of library.go leaves at its commit are those of its body,     *)
(* although the books were read before the transaction.                    *)
THEOREM WritesTheListAsked == Spec => LinksAsRequested
<1> DEFINE Asked(r) ==
        /\ op[r] \in CreateLibraryRequest =>
              \E l \in Present(db'.libraries) \ Present(db.libraries) :
                  db'.links = [db.links EXCEPT ![l] = op[r].bookIds]
        /\ op[r] \in UpdateLibraryRequest =>
              db'.links = IF op[r].bookIds = NilIds THEN db.links
                          ELSE [db.links EXCEPT ![op[r].id] = op[r].bookIds]
<1>1. ASSUME LInv, [Next]_vars, NEW q \in Req, applied'[q] /\ ~applied[q]
      PROVE  Asked(q)
  <2>1. WritesLinks(q)
    BY <1>1, LinkSteps
  <2>2. QED
    BY <2>1, KindsOfLinkRequests DEF WritesLinks
<1>2. LInv /\ [Next]_vars =>
         [\A r \in Req : applied'[r] /\ ~applied[r] => Asked(r)]_vars
  BY <1>1
<1>3. QED
  BY <1>2, BooksListed, PTL DEF Spec, LinksAsRequested
=============================================================================
