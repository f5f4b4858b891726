----------------------------- MODULE CatalogAPI -----------------------------
(***************************************************************************)
(* The write API of the catalogue as a client alone with the server sees   *)
(* it: a request is refused for a reason that is in the data, or it takes  *)
(* effect atomically and succeeds.  The handlers, with one request in      *)
(* flight, implement this module; with several they do not, and Catalog    *)
(* says what is left.                                                      *)
(***************************************************************************)
EXTENDS CatalogRequests

VARIABLES
    store,      \* the tables
    todo,       \* the request being served, or NoOp
    applied,    \* its effect is in the store
    result      \* the answer being sent, or NoAnswer

vars == <<store, todo, applied, result>>

HasRow(table, x) == table[x] # NoRow
NameHeld(table, name) == \E x \in DOMAIN table : HasRow(table, x) /\ table[x].name = name
HeldByOther(table, name, x) ==
    \E y \in DOMAIN table \ {x} : HasRow(table, y) /\ table[y].name = name

-----------------------------------------------------------------------------
(***************************************************************************)
(* Reasons to refuse, in the order in which the API looks at them.         *)
(***************************************************************************)
NotFound ==
    \/ /\ todo \in UpdateAuthorRequest \cup DeleteAuthorRequest
       /\ ~HasRow(store.authors, todo.id)
    \/ /\ todo \in UpdateBookRequest \cup DeleteBookRequest
       /\ ~HasRow(store.books, todo.id)
    \/ /\ todo \in UpdateLibraryRequest \cup DeleteLibraryRequest
                     \cup AddBooksRequest \cup RemoveBooksRequest
       /\ ~HasRow(store.libraries, todo.id)

(* The body names an author or a book that does not exist. *)
Dangling ==
    \/ /\ todo \in CreateBookRequest \cup UpdateBookRequest
       /\ ~HasRow(store.authors, todo.author)
    \/ /\ \/ todo \in CreateLibraryRequest \cup AddBooksRequest
          \/ todo \in UpdateLibraryRequest /\ todo.bookIds # NilIds
       /\ \E b \in todo.bookIds : ~HasRow(store.books, b)

NameConflict ==
    \/ todo \in CreateAuthorRequest /\ NameHeld(store.authors, todo.name)
    \/ todo \in CreateBookRequest /\ NameHeld(store.books, todo.name)
    \/ todo \in CreateLibraryRequest /\ NameHeld(store.libraries, todo.name)
    \/ todo \in UpdateAuthorRequest
         /\ HeldByOther(store.authors, todo.name, todo.id)
    \/ todo \in UpdateBookRequest
         /\ HeldByOther(store.books, todo.name, todo.id)
    \/ todo \in UpdateLibraryRequest
         /\ HeldByOther(store.libraries, todo.name, todo.id)

(* An author with books, a book in a library.  A library is never in use. *)
InUse ==
    \/ /\ todo \in DeleteAuthorRequest
       /\ \E b \in BookId : HasRow(store.books, b) /\ store.books[b].author = todo.id
    \/ /\ todo \in DeleteBookRequest
       /\ \E l \in LibraryId : todo.id \in store.links[l]

Allowed == ~NotFound /\ ~Dangling /\ ~NameConflict /\ ~InUse

-----------------------------------------------------------------------------
(***************************************************************************)
(* Effects.                                                                *)
(***************************************************************************)
CreateEffect ==
    \/ /\ todo \in CreateAuthorRequest
       /\ \E x \in AuthorId \ store.authorIds :
            store' = [store EXCEPT
                !.authors[x] = [name |-> todo.name, description |-> todo.description],
                !.authorIds = @ \cup {x}]
    \/ /\ todo \in CreateBookRequest
       /\ \E x \in BookId \ store.bookIds :
            store' = [store EXCEPT
                !.books[x] = [author |-> todo.author, name |-> todo.name],
                !.bookIds = @ \cup {x}]
    \/ /\ todo \in CreateLibraryRequest
       /\ \E x \in LibraryId \ store.libraryIds :
            store' = [store EXCEPT
                !.libraries[x] = [name |-> todo.name],
                !.links[x] = todo.bookIds,
                !.libraryIds = @ \cup {x}]

UpdateEffect ==
    \/ /\ todo \in UpdateAuthorRequest
       /\ store' = [store EXCEPT !.authors[todo.id] =
                        [name |-> todo.name, description |-> todo.description]]
    \/ /\ todo \in UpdateBookRequest
       /\ store' = [store EXCEPT !.books[todo.id] =
                        [author |-> todo.author, name |-> todo.name]]
    \/ /\ todo \in UpdateLibraryRequest
       /\ store' = [store EXCEPT
                !.libraries[todo.id] = [name |-> todo.name],
                !.links[todo.id] = IF todo.bookIds = NilIds THEN @ ELSE todo.bookIds]

DeleteEffect ==
    \/ /\ todo \in DeleteAuthorRequest
       /\ store' = [store EXCEPT !.authors[todo.id] = NoRow]
    \/ /\ todo \in DeleteBookRequest
       /\ store' = [store EXCEPT !.books[todo.id] = NoRow]
    \/ /\ todo \in DeleteLibraryRequest
       /\ store' = [store EXCEPT !.libraries[todo.id] = NoRow,
                                 !.links[todo.id] = {}]

MemberEffect ==
    \/ /\ todo \in AddBooksRequest
       /\ store' = [store EXCEPT !.links[todo.id] = @ \cup todo.bookIds]
    \/ /\ todo \in RemoveBooksRequest
       /\ store' = [store EXCEPT !.links[todo.id] = @ \ todo.bookIds]

SuccessStatus ==
    CASE todo \in CreateAuthorRequest \cup CreateBookRequest
                    \cup CreateLibraryRequest -> 201
      [] todo \in DeleteAuthorRequest \cup DeleteBookRequest
                    \cup DeleteLibraryRequest -> 204
      [] OTHER -> 200

-----------------------------------------------------------------------------
Init ==
    /\ todo = NoOp
    /\ applied = FALSE
    /\ result = NoAnswer

Call ==
    /\ todo = NoOp /\ result = NoAnswer
    /\ todo' \in Ops
    /\ UNCHANGED <<store, applied, result>>

BadRequest ==
    /\ todo = NoOp /\ result = NoAnswer
    /\ result' = ErrBadRequest
    /\ UNCHANGED <<store, todo, applied>>

Return(answer) == todo' = NoOp /\ result' = answer

Refuse ==
    /\ todo # NoOp /\ ~applied
    /\ \/ NotFound /\ Return(ErrNotFound)
       \/ ~NotFound /\ Dangling /\ Return(ErrValidation)
       \/ ~NotFound /\ ~Dangling /\ NameConflict /\ Return(ErrConflict)
       \/ ~NotFound /\ InUse /\ Return(ErrInternal("fk"))
    /\ UNCHANGED <<store, applied>>

Apply ==
    /\ todo # NoOp /\ ~applied /\ Allowed
    /\ CreateEffect \/ UpdateEffect \/ DeleteEffect \/ MemberEffect
    /\ applied' = TRUE
    /\ \/ UNCHANGED <<todo, result>>
       \/ Return(Ok(SuccessStatus))
       \/ Return(ErrInternal("db"))

Succeed ==
    /\ todo # NoOp /\ applied
    /\ Return(Ok(SuccessStatus))
    /\ UNCHANGED <<store, applied>>

(* The database fails: the only 500 that is not about the data. *)
Fail ==
    /\ todo # NoOp
    /\ Return(ErrInternal("db"))
    /\ UNCHANGED <<store, applied>>

Reset == todo' = NoOp /\ applied' = FALSE /\ result' = NoAnswer

(* The answer is sent, or the server dies. *)
Finish == (todo # NoOp \/ result # NoAnswer) /\ Reset /\ UNCHANGED store

Next ==
    Call \/ BadRequest \/ Refuse \/ Apply \/ Succeed \/ Fail \/ Finish

Spec == Init /\ [][Next]_vars
=============================================================================
