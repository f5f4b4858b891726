------------------------------ MODULE MCReads ------------------------------
(* Workloads for the run of Reads: keys and names are small numbers. *)
EXTENDS Reads

WriteOps ==
    CreateAuthorRequest \cup DeleteAuthorRequest
        \cup {o \in UpdateAuthorRequest : o.id = 1}
        \cup {o \in CreateBookRequest : o.name = o.author}
        \cup {o \in UpdateBookRequest : o.name = o.id} \cup DeleteBookRequest
        \cup {o \in CreateLibraryRequest : o.name = 1 /\ o.bookIds # {}}
        \cup {o \in RemoveBooksRequest : Cardinality(o.bookIds) = 1}

List(table, page, size, field) ==
    [table |-> table, page |-> page, size |-> size, field |-> field,
     asc |-> TRUE, like |-> Name, author |-> NoRow]

ListAsks ==
    {List("authors", 1, 1, "id"), List("authors", NoNumber, 9, "name"),
     List("authors", 3, 2, "id"), List("authors", 9, 2, "password"),
     List("books", 0, NoNumber, "author_id")}

(* Three rows at most: three authors, two authors and a book that moves,   *)
(* or an author with two books.  Keys come without gaps, but the second    *)
(* author may commit before the first.                                     *)
FewRows ==
    /\ Cardinality(db.authorIds) + Cardinality(db.bookIds) <= 3
    /\ db.bookIds = 1 .. Cardinality(db.bookIds)
    /\ \/ db.authorIds = 1 .. Cardinality(db.authorIds)
       \/ db.authorIds = {2} /\ db.bookIds = {}

(* Pages of authors are read while there is no book; and with books, the   *)
(* authors keep their first names.                                         *)
Apart ==
    db.bookIds # {} =>
        /\ \A x \in Present(db.authors) : db.authors[x].name = x
        /\ \A c \in Client : reads[c].at # "idle" => reads[c].ask.table # "authors"
        /\ \A r \in Req : op[r] \notin CreateAuthorRequest \cup UpdateAuthorRequest

GetAsks == {[table |-> "libraries", id |-> 1], [table |-> "books", id |-> 1]}
=============================================================================
