---------------------------- MODULE BookHandler ----------------------------
(***************************************************************************)
(* internal/handler/book.go: the handlers that write books, one action per *)
(* SQL statement.                                                          *)
(***************************************************************************)
EXTENDS Requests

(* Mutant: the handler forgets book.AuthorID = req.AuthorID. *)
BookOfForgotten(o) == [author |-> NoRow, name |-> o.name]

BookOf(o) == [author |-> o.author, name |-> o.name]

AuthorExists(o) == o.author \in Present(db.authors)

(* authorExists before an INSERT, or before an UPDATE that moves the book. *)
BookCheck(r, next) ==
    /\ pc[r] = "check"
    /\ IF AuthorExists(op[r]) THEN Goto(r, next) ELSE Answer(r, ErrValidation)
    /\ NoWrite

BookCreateCheck(r) == op[r] \in CreateBookRequest /\ BookCheck(r, "insert")

(* The new key stays in book.ID; MySQL may report either violation first. *)
BookCreate(r) ==
    /\ pc[r] = "insert" /\ op[r] \in CreateBookRequest
    /\ \E x \in BookId \ db.bookIds :
        \/ /\ NameTaken(db.books, op[r].name, x)
           /\ Answer(r, ErrConflict) /\ NoWrite
        \/ /\ ~AuthorExists(op[r])
           /\ Answer(r, ErrInternal("fk")) /\ NoWrite
        \/ /\ ~NameTaken(db.books, op[r].name, x)
           /\ AuthorExists(op[r])
           /\ CommitThenKeep(r, InsertBook(db, x, BookOf(op[r])), x, "reload")

BookUpdateFirst(r) ==
    /\ op[r] \in UpdateBookRequest
    /\ First(r, db.books,
             IF op[r].id \in Present(db.books)
                  /\ db.books[op[r].id].author = op[r].author
             THEN "update" ELSE "check")

BookUpdateCheck(r) == op[r] \in UpdateBookRequest /\ BookCheck(r, "update")

(* Save, first statement: UPDATE books SET ... WHERE id = ? *)
BookUpdate(r) ==
    /\ pc[r] = "update" /\ op[r] \in UpdateBookRequest
    /\ \/ /\ db.books[op[r].id] = NoRow         \* RowsAffected = 0
          /\ Goto(r, "upsert") /\ NoWrite
       \/ /\ UpsertDuplicate(db.books, op[r].id, BookOf(op[r]))
          /\ Answer(r, ErrConflict) /\ NoWrite
       \/ /\ db.books[op[r].id] # NoRow /\ ~AuthorExists(op[r])
          /\ Answer(r, ErrInternal("fk")) /\ NoWrite
       \/ /\ db.books[op[r].id] # NoRow /\ AuthorExists(op[r])
          /\ ~NameTaken(db.books, op[r].name, op[r].id)
          /\ CommitThenGoto(r,
                [db EXCEPT !.books[op[r].id] = BookOf(op[r])], "reload")

(* Save, second statement: INSERT ... ON DUPLICATE KEY UPDATE *)
BookUpsert(r) ==
    /\ pc[r] = "upsert" /\ op[r] \in UpdateBookRequest
    /\ \/ /\ UpsertDuplicate(db.books, op[r].id, BookOf(op[r]))
          /\ Answer(r, ErrConflict) /\ NoWrite
       \/ /\ ~AuthorExists(op[r])
          /\ Answer(r, ErrInternal("fk")) /\ NoWrite
       \/ /\ ~UpsertDuplicate(db.books, op[r].id, BookOf(op[r]))
          /\ AuthorExists(op[r])
          /\ CommitThenGoto(r,
                [db EXCEPT !.books = Upsert(@, op[r].id, BookOf(op[r]))],
                "reload")

(* Mutant: a row that is gone at the reload is a 404, as in Get. *)
BookReload404(r, x, status) ==
    /\ pc[r] = "reload"
    /\ IF x \in Present(db.books) THEN Answer(r, Ok(status))
                                  ELSE Answer(r, ErrNotFound)
    /\ NoWrite

(* db.Preload("Author").First(&book, book.ID) for the response. *)
BookReload(r, x, status) ==
    /\ pc[r] = "reload"
    /\ IF x \in Present(db.books) THEN Answer(r, Ok(status))
                                  ELSE Answer(r, ErrInternal("missing"))
    /\ NoWrite

BookCreateReload(r) ==
    op[r] \in CreateBookRequest /\ BookReload(r, key[r], 201)

BookUpdateReload(r) ==
    op[r] \in UpdateBookRequest /\ BookReload(r, op[r].id, 200)

BookDeleteFirst(r) ==
    op[r] \in DeleteBookRequest /\ First(r, db.books, "delete")

BookDelete(r) ==
    /\ pc[r] = "delete" /\ op[r] \in DeleteBookRequest
    /\ IF BookReferenced(db, op[r].id)
       THEN Answer(r, ErrInternal("fk")) /\ NoWrite
       ELSE CommitThenAnswer(r, DeleteBook(db, op[r].id), Ok(204))

BookNext(r) ==
    \/ BookCreateCheck(r) \/ BookCreate(r) \/ BookCreateReload(r)
    \/ BookUpdateFirst(r) \/ BookUpdateCheck(r) \/ BookUpdate(r)
    \/ BookUpsert(r) \/ BookUpdateReload(r)
    \/ BookDeleteFirst(r) \/ BookDelete(r)
=============================================================================
