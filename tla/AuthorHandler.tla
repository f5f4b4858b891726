--------------------------- MODULE AuthorHandler ---------------------------
(***************************************************************************)
(* internal/handler/author.go: the handlers that write authors, one action *)
(* per SQL statement.                                                      *)
(***************************************************************************)
EXTENDS Requests

AuthorOf(o) == [name |-> o.name, description |-> o.description]

AuthorCreate(r) ==
    /\ pc[r] = "insert" /\ op[r] \in CreateAuthorRequest
    /\ \E x \in AuthorId \ db.authorIds :
        IF NameTaken(db.authors, op[r].name, x)
        THEN Answer(r, ErrConflict) /\ NoWrite
        ELSE CommitThenAnswer(r, InsertAuthor(db, x, AuthorOf(op[r])), Ok(201))

(* Mutant: Update saves without the First that answers 404. *)
AuthorUpdateBlind(r) ==
    /\ pc[r] = "first" /\ op[r] \in UpdateAuthorRequest
    /\ Goto(r, "update") /\ NoWrite

AuthorUpdateFirst(r) ==
    op[r] \in UpdateAuthorRequest /\ First(r, db.authors, "update")

(* Save, first statement: UPDATE authors SET ... WHERE id = ? *)
AuthorUpdate(r) ==
    /\ pc[r] = "update" /\ op[r] \in UpdateAuthorRequest
    /\ \/ /\ db.authors[op[r].id] = NoRow       \* RowsAffected = 0
          /\ Goto(r, "upsert") /\ NoWrite
       \/ /\ UpsertDuplicate(db.authors, op[r].id, AuthorOf(op[r]))
          /\ Answer(r, ErrConflict) /\ NoWrite
       \/ /\ db.authors[op[r].id] # NoRow
          /\ ~NameTaken(db.authors, op[r].name, op[r].id)
          /\ CommitThenAnswer(r,
                [db EXCEPT !.authors[op[r].id] = AuthorOf(op[r])], Ok(200))

(* Save, second statement: INSERT ... ON DUPLICATE KEY UPDATE *)
AuthorUpsert(r) ==
    /\ pc[r] = "upsert" /\ op[r] \in UpdateAuthorRequest
    /\ IF UpsertDuplicate(db.authors, op[r].id, AuthorOf(op[r]))
       THEN Answer(r, ErrConflict) /\ NoWrite
       ELSE CommitThenAnswer(r,
                [db EXCEPT !.authors = Upsert(@, op[r].id, AuthorOf(op[r]))],
                Ok(200))

AuthorDeleteFirst(r) ==
    op[r] \in DeleteAuthorRequest /\ First(r, db.authors, "delete")

(* A DELETE that finds no row is no error. *)
AuthorDelete(r) ==
    /\ pc[r] = "delete" /\ op[r] \in DeleteAuthorRequest
    /\ IF AuthorReferenced(db, op[r].id)
       THEN Answer(r, ErrInternal("fk")) /\ NoWrite
       ELSE CommitThenAnswer(r, DeleteAuthor(db, op[r].id), Ok(204))

AuthorNext(r) ==
    \/ AuthorCreate(r)
    \/ AuthorUpdateFirst(r) \/ AuthorUpdate(r) \/ AuthorUpsert(r)
    \/ AuthorDeleteFirst(r) \/ AuthorDelete(r)
=============================================================================
