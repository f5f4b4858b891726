--------------------------- MODULE LibraryHandler ---------------------------
(***************************************************************************)
(* internal/handler/library.go: the handlers that write libraries and      *)
(* their books, one action per SQL statement or transaction.               *)
(***************************************************************************)
EXTENDS Requests

LibraryOf(o) == [name |-> o.name]

(* fetchBooksByIDs: every id is a book, or the answer is 400. *)
FetchBooks(r, wanted) ==
    /\ pc[r] = "fetch"
    /\ IF wanted \subseteq Present(db.books)
       THEN /\ bks' = [bks EXCEPT ![r] =
                          [b \in BookId |-> IF b \in wanted THEN db.books[b]
                                                            ELSE bks[r][b]]]
            /\ Continue(r, "tx")
            /\ UNCHANGED <<key, ids>>
       ELSE Answer(r, ErrValidation)
    /\ NoWrite

(* loadLibraryWithBooks for the response. *)
LibraryLoad(r, x, status) ==
    /\ pc[r] = "load"
    /\ IF x \in Present(db.libraries) THEN Answer(r, Ok(status))
                                      ELSE Answer(r, ErrInternal("missing"))
    /\ NoWrite

-----------------------------------------------------------------------------
LibraryCreateFetch(r) ==
    op[r] \in CreateLibraryRequest /\ FetchBooks(r, op[r].bookIds)

(* Mutant: Create and Replace without db.Transaction around them. *)
LibraryCreateNoTx(r) ==
    /\ pc[r] = "tx" /\ op[r] \in CreateLibraryRequest
    /\ \E x \in LibraryId \ db.libraryIds :
        LET inserted == InsertLibrary(db, x, LibraryOf(op[r])) IN
        IF NameTaken(db.libraries, op[r].name, x)
        THEN Answer(r, ErrConflict) /\ NoWrite
        ELSE IF LinkFails(inserted, x, bks[r])
        THEN Answer(r, ErrInternal("fk")) /\ Commit(r, inserted)
        ELSE CommitThenKeep(r, ReplaceBooks(inserted, x, bks[r]), x, "load")

LibraryCreateTx(r) ==
    /\ pc[r] = "tx" /\ op[r] \in CreateLibraryRequest
    /\ \E x \in LibraryId \ db.libraryIds :
        LET inserted == InsertLibrary(db, x, LibraryOf(op[r])) IN
        \/ /\ NameTaken(db.libraries, op[r].name, x)
           /\ Answer(r, ErrConflict) /\ NoWrite
        \/ /\ ~NameTaken(db.libraries, op[r].name, x)
           /\ LinkFails(inserted, x, bks[r])
           /\ Answer(r, ErrInternal("fk")) /\ NoWrite
        \/ /\ ~NameTaken(db.libraries, op[r].name, x)
           /\ ~LinkFails(inserted, x, bks[r])
           /\ CommitThenKeep(r, ReplaceBooks(inserted, x, bks[r]), x, "load")

LibraryCreateLoad(r) ==
    op[r] \in CreateLibraryRequest /\ LibraryLoad(r, key[r], 201)

-----------------------------------------------------------------------------
(* No book list, or an empty one, needs no lookup. *)
LibraryUpdateFirst(r) ==
    /\ op[r] \in UpdateLibraryRequest
    /\ First(r, db.libraries,
             IF op[r].bookIds \in {NilIds, {}} THEN "tx" ELSE "fetch")

LibraryUpdateFetch(r) ==
    op[r] \in UpdateLibraryRequest /\ FetchBooks(r, op[r].bookIds)

(* Save of the row, then Replace unless the body has no book list. *)
LibraryUpdateTx(r) ==
    LET id == op[r].id
        saved == [db EXCEPT !.libraries = Upsert(@, id, LibraryOf(op[r]))]
    IN
    /\ pc[r] = "tx" /\ op[r] \in UpdateLibraryRequest
    /\ \/ /\ UpsertDuplicate(db.libraries, id, LibraryOf(op[r]))
          /\ Answer(r, ErrConflict) /\ NoWrite
       \/ /\ ~UpsertDuplicate(db.libraries, id, LibraryOf(op[r]))
          /\ op[r].bookIds = NilIds
          /\ CommitThenGoto(r, saved, "load")
       \/ /\ ~UpsertDuplicate(db.libraries, id, LibraryOf(op[r]))
          /\ op[r].bookIds # NilIds
          /\ IF LinkFails(saved, id, bks[r])
             THEN Answer(r, ErrInternal("fk")) /\ NoWrite
             ELSE CommitThenGoto(r, ReplaceBooks(saved, id, bks[r]), "load")

LibraryUpdateLoad(r) ==
    op[r] \in UpdateLibraryRequest /\ LibraryLoad(r, op[r].id, 200)

-----------------------------------------------------------------------------
LibraryDeleteFirst(r) ==
    op[r] \in DeleteLibraryRequest /\ First(r, db.libraries, "tx")

(* Clear the join rows, then delete the library. *)
LibraryDeleteTx(r) ==
    LET cleared == ClearBooks(db, op[r].id) IN
    /\ pc[r] = "tx" /\ op[r] \in DeleteLibraryRequest
    /\ IF LibraryReferenced(cleared, op[r].id)
       THEN Answer(r, ErrInternal("fk")) /\ NoWrite
       ELSE CommitThenAnswer(r, DeleteLibrary(cleared, op[r].id), Ok(204))

-----------------------------------------------------------------------------
(***************************************************************************)
(* AddBooks reads the library, its join rows and their books with three    *)
(* queries, looks up the ids that are not linked, and appends ALL the      *)
(* books it holds: those it found linked and those it was asked for.       *)
(***************************************************************************)
AddBooksFirst(r) == op[r] \in AddBooksRequest /\ First(r, db.libraries, "joins")

AddBooksLookup(r, linked) ==
    LET addIds == op[r].bookIds \ linked IN
    /\ ids' = [ids EXCEPT ![r] = addIds]
    /\ IF addIds = {} THEN Continue(r, "load") /\ NothingToWrite(r)
                      ELSE Continue(r, "fetch") /\ NoWrite
    /\ UNCHANGED key

AddBooksJoins(r) ==
    /\ pc[r] = "joins" /\ op[r] \in AddBooksRequest
    /\ LET linked == db.links[op[r].id] IN
       IF linked = {}
       THEN AddBooksLookup(r, {})
       ELSE /\ ids' = [ids EXCEPT ![r] = linked]
            /\ Continue(r, "books") /\ NoWrite /\ UNCHANGED key
    /\ UNCHANGED bks

AddBooksBooks(r) ==
    /\ pc[r] = "books" /\ op[r] \in AddBooksRequest
    /\ LET preloaded == FindBooks(db, ids[r]) IN
        /\ bks' = [bks EXCEPT ![r] = preloaded]
        /\ AddBooksLookup(r, Present(preloaded))

AddBooksFetch(r) == op[r] \in AddBooksRequest /\ FetchBooks(r, ids[r])

(* Mutant: Association.Replace in place of Append. *)
AddBooksReplace(r) ==
    /\ pc[r] = "tx" /\ op[r] \in AddBooksRequest
    /\ IF LinkFails(db, op[r].id, bks[r])
       THEN Answer(r, ErrInternal("fk")) /\ NoWrite
       ELSE CommitThenGoto(r, ReplaceBooks(db, op[r].id, bks[r]), "load")

AddBooksAppend(r) ==
    /\ pc[r] = "tx" /\ op[r] \in AddBooksRequest
    /\ IF LinkFails(db, op[r].id, bks[r])
       THEN Answer(r, ErrInternal("fk")) /\ NoWrite
       ELSE CommitThenGoto(r, AppendBooks(db, op[r].id, bks[r]), "load")

AddBooksLoad(r) == op[r] \in AddBooksRequest /\ LibraryLoad(r, op[r].id, 200)

-----------------------------------------------------------------------------
RemoveBooksFirst(r) ==
    op[r] \in RemoveBooksRequest /\ First(r, db.libraries, "delete")

RemoveBooksDelete(r) ==
    /\ pc[r] = "delete" /\ op[r] \in RemoveBooksRequest
    /\ CommitThenGoto(r, UnlinkBooks(db, op[r].id, op[r].bookIds), "load")

RemoveBooksLoad(r) ==
    op[r] \in RemoveBooksRequest /\ LibraryLoad(r, op[r].id, 200)

LibraryNext(r) ==
    \/ LibraryCreateFetch(r) \/ LibraryCreateTx(r) \/ LibraryCreateLoad(r)
    \/ LibraryUpdateFirst(r) \/ LibraryUpdateFetch(r)
    \/ LibraryUpdateTx(r) \/ LibraryUpdateLoad(r)
    \/ LibraryDeleteFirst(r) \/ LibraryDeleteTx(r)
    \/ AddBooksFirst(r) \/ AddBooksJoins(r) \/ AddBooksBooks(r)
    \/ AddBooksFetch(r) \/ AddBooksAppend(r) \/ AddBooksLoad(r)
    \/ RemoveBooksFirst(r) \/ RemoveBooksDelete(r) \/ RemoveBooksLoad(r)
=============================================================================
