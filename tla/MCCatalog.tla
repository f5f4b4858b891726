----------------------------- MODULE MCCatalog -----------------------------
(* Workloads and symmetry for the runs of Catalog. *)
EXTENDS Catalog, TLC

CONSTANTS n1, d1, d2    \* members of Name and Description

(* Authors and their books. *)
ShelfOps ==
    CreateAuthorRequest \cup UpdateAuthorRequest \cup DeleteAuthorRequest
        \cup CreateBookRequest \cup UpdateBookRequest \cup DeleteBookRequest

ShelfSymmetry ==
    Permutations(Req) \cup Permutations(AuthorId) \cup Permutations(BookId)
        \cup Permutations(Name)

(* Libraries over the books of one author, created and deleted.  Keeping   *)
(* the author's name apart leaves the other names interchangeable.         *)
LibraryOps ==
    {o \in CreateAuthorRequest : o.name = n1}
        \cup {o \in CreateBookRequest : o.name # n1} \cup DeleteBookRequest
        \cup {o \in CreateLibraryRequest : o.name # n1}
        \cup {o \in UpdateLibraryRequest : o.name # n1}
        \cup DeleteLibraryRequest
        \cup {o \in AddBooksRequest : Cardinality(o.bookIds) = 1}
        \cup {o \in RemoveBooksRequest : Cardinality(o.bookIds) = 1}

LibrarySymmetry ==
    Permutations(Req) \cup Permutations(BookId) \cup Permutations(LibraryId)
        \cup Permutations(Name \ {n1})

(* Every kind of request, for one client at a time. *)
AllOps ==
    ShelfOps
        \cup CreateLibraryRequest \cup UpdateLibraryRequest
        \cup DeleteLibraryRequest \cup AddBooksRequest \cup RemoveBooksRequest

SequentialSymmetry ==
    Permutations(AuthorId) \cup Permutations(BookId)
        \cup Permutations(LibraryId) \cup Permutations(Name)

-----------------------------------------------------------------------------
(* Small workloads for the runs that look for a counterexample. *)
ReviveOps ==
    {o \in CreateAuthorRequest : o.name = n1 /\ o.description = d1}
        \cup {o \in UpdateAuthorRequest : o.name = n1 /\ o.description = d2}
        \cup DeleteAuthorRequest

ReaddOps ==
    {o \in CreateAuthorRequest : o.name = n1}
        \cup {o \in CreateBookRequest : TRUE}
        \cup {o \in CreateLibraryRequest : o.name = n1 /\ o.bookIds = {}}
        \cup {o \in AddBooksRequest : Cardinality(o.bookIds) = 1}
        \cup {o \in RemoveBooksRequest : Cardinality(o.bookIds) = 1}
=============================================================================
