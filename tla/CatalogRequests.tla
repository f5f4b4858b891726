--------------------------- MODULE CatalogRequests ---------------------------
(***************************************************************************)
(* The requests that write the catalogue and the answers they get.         *)
(***************************************************************************)
EXTENDS CatalogDB, Integers

CONSTANTS
    Ops,        \* the requests clients send
    NoOp,       \* no request
    NilIds      \* a *[]uint that is nil: the body has no book list

-----------------------------------------------------------------------------
(***************************************************************************)
(* The path parameters and request bodies (internal/dto) that pass         *)
(* parseID, Bind and validator.  A BookIDs slice is a set, since every     *)
(* handler passes it through dedupeUints.                                  *)
(***************************************************************************)
CreateAuthorRequest ==
    [endpoint : {"POST authors"}, name : Name, description : Description]
UpdateAuthorRequest ==
    [endpoint : {"PUT authors"}, id : AuthorId, name : Name,
     description : Description]
DeleteAuthorRequest == [endpoint : {"DELETE authors"}, id : AuthorId]

CreateBookRequest ==
    [endpoint : {"POST books"}, author : AuthorId, name : Name]
UpdateBookRequest ==
    [endpoint : {"PUT books"}, id : BookId, author : AuthorId, name : Name]
DeleteBookRequest == [endpoint : {"DELETE books"}, id : BookId]

CreateLibraryRequest ==
    [endpoint : {"POST libraries"}, name : Name, bookIds : SUBSET BookId]
UpdateLibraryRequest ==
    [endpoint : {"PUT libraries"}, id : LibraryId, name : Name,
     bookIds : {NilIds} \cup SUBSET BookId]
DeleteLibraryRequest == [endpoint : {"DELETE libraries"}, id : LibraryId]
AddBooksRequest ==
    [endpoint : {"POST libraries/books"}, id : LibraryId,
     bookIds : (SUBSET BookId) \ {{}}]
RemoveBooksRequest ==
    [endpoint : {"DELETE libraries/books"}, id : LibraryId,
     bookIds : (SUBSET BookId) \ {{}}]

IsRequest(o) ==
    \/ o \in CreateAuthorRequest  \/ o \in UpdateAuthorRequest
    \/ o \in DeleteAuthorRequest  \/ o \in CreateBookRequest
    \/ o \in UpdateBookRequest    \/ o \in DeleteBookRequest
    \/ o \in CreateLibraryRequest \/ o \in UpdateLibraryRequest
    \/ o \in DeleteLibraryRequest \/ o \in AddBooksRequest
    \/ o \in RemoveBooksRequest

ASSUME OpsAssumption == (\A o \in Ops : IsRequest(o)) /\ NoOp \notin Ops
ASSUME NilIdsAssumption == \A s \in SUBSET BookId : NilIds # s

-----------------------------------------------------------------------------
(***************************************************************************)
(* Answers.  status is the HTTP status; cause is the error an AppError     *)
(* carries: none, an invalid input, a missing row, a duplicate name, a     *)
(* foreign key, or a failure of the database itself.                       *)
(***************************************************************************)
NoAnswer == [status |-> 0, cause |-> "none"]
Ok(status) == [status |-> status, cause |-> "none"]
ErrBadRequest == [status |-> 400, cause |-> "invalid"]
ErrValidation == [status |-> 400, cause |-> "missing"]
ErrNotFound == [status |-> 404, cause |-> "missing"]
ErrConflict == [status |-> 409, cause |-> "duplicate"]
ErrInternal(cause) == [status |-> 500, cause |-> cause]

Answers ==
    {NoAnswer, ErrBadRequest, ErrValidation, ErrNotFound, ErrConflict}
        \cup {Ok(s) : s \in {200, 201, 204}}
        \cup {ErrInternal(c) : c \in {"missing", "fk", "db"}}
=============================================================================
