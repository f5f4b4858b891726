------------------------------ MODULE Catalog ------------------------------
(***************************************************************************)
(* The catalogue: the author, book and library handlers over one database, *)
(* with any number of requests in flight, statement failures and crashes.  *)
(***************************************************************************)
EXTENDS AuthorHandler, BookHandler, LibraryHandler

Handle(r) == AuthorNext(r) \/ BookNext(r) \/ LibraryNext(r)

Next ==
    \/ \E r \in Req : Receive(r) \/ Reject(r) \/ Handle(r) \/ DbError(r)
                      \/ Respond(r)
    \/ Crash

Spec == Init /\ [][Next]_vars

-----------------------------------------------------------------------------
(***************************************************************************)
(* State invariants.                                                       *)
(***************************************************************************)

(* The tables satisfy the schema after every statement of every handler,   *)
(* whatever the handlers read earlier has become: unique names, books with *)
(* an author, links with both ends, and no row under a key that INSERT     *)
(* never handed out -- Save must not make a row out of a client's id.      *)
Integrity == DbIntegrity(db)

-----------------------------------------------------------------------------
(***************************************************************************)
(* Action properties.                                                      *)
(***************************************************************************)

(* A link disappears only when some request asks for it: RemoveBooks       *)
(* naming the book, an Update with a list that leaves it out, or a Delete  *)
(* of the library.  No stale read of another handler undoes a link.        *)
Unlinks(o, l, b) ==
    \/ o \in DeleteLibraryRequest /\ o.id = l
    \/ o \in RemoveBooksRequest /\ o.id = l /\ b \in o.bookIds
    \/ o \in UpdateLibraryRequest /\ o.id = l /\ o.bookIds # NilIds
       /\ b \notin o.bookIds

UnlinkedOnDemand ==
    [][\A l \in LibraryId : \A b \in db.links[l] \ db'.links[l] :
          \E r \in Req : Unlinks(op[r], l, b)]_vars

(* What Create and Update promise of the book list (PUT is a full          *)
(* replace): when the write of such a request commits, the library's links *)
(* are exactly the list of the body; without a list they are untouched.    *)
LinksAsRequested ==
    [][\A r \in Req : applied'[r] /\ ~applied[r] =>
          /\ op[r] \in CreateLibraryRequest =>
                \E l \in Present(db'.libraries) \ Present(db.libraries) :
                    db'.links = [db.links EXCEPT ![l] = op[r].bookIds]
          /\ op[r] \in UpdateLibraryRequest =>
                db'.links = IF op[r].bookIds = NilIds THEN db.links
                            ELSE [db.links EXCEPT ![op[r].id] = op[r].bookIds]
      ]_vars

-----------------------------------------------------------------------------
(***************************************************************************)
(* What the comments of the code promise and interleavings break.          *)
(***************************************************************************)

(* "First fetch the row: if there is none, 404 (so that Save does not      *)
(* create it from scratch)", says author.go of Update.  A deleted author   *)
(* would then stay deleted, for AUTO_INCREMENT reuses no key.              *)
DeletedAuthorStaysDeleted ==
    [][\A x \in Present(db'.authors) \ Present(db.authors) :
          x \notin db.authorIds]_vars

(* "Collided with another author's Name", says author.go of the conflict   *)
(* that Save reports: Update answers 409 and leaves that other row alone.  *)
(* So a row changes only by an Update or a Delete of that very row.        *)
UpdateTouchesOwnAuthor ==
    [][\A x \in Present(db.authors) :
          db'.authors[x] # db.authors[x] =>
             \E r \in Req : /\ op[r] \in UpdateAuthorRequest \cup DeleteAuthorRequest
                            /\ op[r].id = x]_vars

(* AddBooks "adds the given books to the library": a link appears only     *)
(* when a request in flight names the library and the book.                *)
Adds(o, l, b) ==
    \/ o \in CreateLibraryRequest /\ b \in o.bookIds
    \/ /\ o \in UpdateLibraryRequest \cup AddBooksRequest
       /\ o.id = l /\ o.bookIds # NilIds /\ b \in o.bookIds

AddsOnlyGivenBooks ==
    [][\A l \in LibraryId : \A b \in db'.links[l] \ db.links[l] :
          \E r \in Req : Adds(op[r], l, b)]_vars

-----------------------------------------------------------------------------
(***************************************************************************)
(* The handlers keep the contract of RequestContract: a request takes      *)
(* effect at most once and atomically, a refused one (4xx, or a constraint *)
(* behind a 500) has no effect at all, a success is durable.               *)
(***************************************************************************)
Phase(r) ==
    IF pc[r] = "idle" THEN "idle"
    ELSE IF pc[r] # "done" THEN "running"
    ELSE IF ans[r].cause = "none" THEN "succeeded"
    ELSE IF ans[r] \in {ErrInternal("db"), ErrInternal("missing")} THEN "failed"
    ELSE "refused"

Contract == INSTANCE RequestContract WITH
    store   <- db,
    phase   <- [r \in Req |-> Phase(r)],
    applied <- applied

KeepsContract == Contract!Spec

-----------------------------------------------------------------------------
(***************************************************************************)
(* With one request in flight the handlers are the atomic API of           *)
(* CatalogAPI: what one statement reads still holds at the next one.       *)
(***************************************************************************)
TheRequest == CHOOSE r \in Req : TRUE

API == INSTANCE CatalogAPI WITH
    store   <- db,
    todo    <- op[TheRequest],
    applied <- applied[TheRequest],
    result  <- ans[TheRequest]

(* One client at a time, the statements of each handler in author.go,      *)
(* book.go and library.go amount to one atomic effect or one refusal, with *)
(* the status that the reason in the data calls for.                       *)
ImplementsAPI == API!Spec
=============================================================================
