----------------------------- MODULE CatalogDB -----------------------------
(***************************************************************************)
(* The catalogue tables of libra_management and the SQL statements that    *)
(* GORM sends for them.  A database is a VALUE, a record d of type         *)
(* Database, and every statement is an operator from databases to          *)
(* databases, so that a transaction is a composition of statements and a   *)
(* rollback is the database one started from.                              *)
(*                                                                         *)
(* Tables, columns and constraints come from internal/model.  What a       *)
(* statement does (ON DUPLICATE KEY UPDATE, foreign keys, AUTO_INCREMENT)  *)
(* is GORM's and MySQL's behaviour, which the handlers rely on.            *)
(***************************************************************************)
EXTENDS FiniteSets

CONSTANTS
    AuthorId, BookId, LibraryId,    \* primary keys of the three tables
    Name,                           \* names, unique per table
    Description,                    \* payload of an author
    NoRow                           \* "no row has this primary key"

AuthorRow  == [name : Name, description : Description]
BookRow    == [author : AuthorId, name : Name]
LibraryRow == [name : Name]

ASSUME NoRowAssumption == NoRow \notin AuthorRow \cup BookRow \cup LibraryRow

(***************************************************************************)
(* The many2many table library_books is the function links: links[l] is    *)
(* the set of books of library l.  The xxxIds fields are the keys          *)
(* AUTO_INCREMENT has handed out; it never hands out one twice.            *)
(***************************************************************************)
BookSlice == [BookId -> BookRow \cup {NoRow}]    \* also a []model.Book

Database ==
    [authors    : [AuthorId -> AuthorRow \cup {NoRow}],
     books      : BookSlice,
     libraries  : [LibraryId -> LibraryRow \cup {NoRow}],
     links      : [LibraryId -> SUBSET BookId],
     authorIds  : SUBSET AuthorId,
     bookIds    : SUBSET BookId,
     libraryIds : SUBSET LibraryId]

Present(table) == {x \in DOMAIN table : table[x] # NoRow}

(* Some row other than x holds the name: MySQL error 1062 for x. *)
NameTaken(table, name, x) ==
    \E y \in Present(table) \ {x} : table[y].name = name

-----------------------------------------------------------------------------
(***************************************************************************)
(* Integrity: what the schema promises.                                    *)
(***************************************************************************)
UniqueNames(table) ==
    \A x, y \in Present(table) : table[x].name = table[y].name => x = y

BooksHaveAuthors(d) ==
    \A b \in Present(d.books) : d.books[b].author \in Present(d.authors)

LinksHaveEnds(d) ==
    \A l \in LibraryId :
        /\ d.links[l] \subseteq Present(d.books)
        /\ d.links[l] # {} => l \in Present(d.libraries)

OnlyIssuedIds(d) ==
    /\ Present(d.authors) \subseteq d.authorIds
    /\ Present(d.books) \subseteq d.bookIds
    /\ Present(d.libraries) \subseteq d.libraryIds

DbIntegrity(d) ==
    /\ UniqueNames(d.authors)
    /\ UniqueNames(d.books)
    /\ UniqueNames(d.libraries)
    /\ BooksHaveAuthors(d)
    /\ LinksHaveEnds(d)
    /\ OnlyIssuedIds(d)

-----------------------------------------------------------------------------
(***************************************************************************)
(* INSERT with a fresh key, DELETE by key, UPDATE by key.                  *)
(***************************************************************************)
InsertAuthor(d, x, row) ==
    [d EXCEPT !.authors[x] = row, !.authorIds = @ \cup {x}]

InsertBook(d, x, row) ==
    [d EXCEPT !.books[x] = row, !.bookIds = @ \cup {x}]

InsertLibrary(d, x, row) ==
    [d EXCEPT !.libraries[x] = row, !.libraryIds = @ \cup {x}]

DeleteAuthor(d, x)  == [d EXCEPT !.authors[x] = NoRow]
DeleteBook(d, x)    == [d EXCEPT !.books[x] = NoRow]
DeleteLibrary(d, x) == [d EXCEPT !.libraries[x] = NoRow]

(* ON DELETE is RESTRICT, MySQL's default: error 1451. *)
AuthorReferenced(d, x) == \E b \in Present(d.books) : d.books[b].author = x
BookUnguarded(d, x)    == FALSE     \* mutant: library_books without foreign keys
BookReferenced(d, x)   == \E l \in LibraryId : x \in d.links[l]
LibraryReferenced(d, x) == d.links[x] # {}

(***************************************************************************)
(* INSERT ... ON DUPLICATE KEY UPDATE, the second statement of Save: a     *)
(* row with the key is updated; otherwise a row that holds the NAME is     *)
(* updated in its place; otherwise the row is inserted under the old key.  *)
(***************************************************************************)
UpsertTarget(table, x, row) ==
    IF table[x] = NoRow /\ NameTaken(table, row.name, x)
    THEN CHOOSE y \in Present(table) : table[y].name = row.name
    ELSE x

Upsert(table, x, row) == [table EXCEPT ![UpsertTarget(table, x, row)] = row]

UpsertDuplicate(table, x, row) ==
    table[x] # NoRow /\ NameTaken(table, row.name, x)

-----------------------------------------------------------------------------
(***************************************************************************)
(* Association("Books") of library l, with the in-memory books bs.         *)
(*                                                                         *)
(* Append and Replace first INSERT the books themselves, doing nothing on  *)
(* a duplicate key, and then the join rows, likewise.  A book that was     *)
(* deleted since it was read is therefore INSERTED again; when it cannot   *)
(* be (name taken, author gone) its join row has no parent: error 1452.    *)
(***************************************************************************)
Missing(d, bs) == Present(bs) \ Present(d.books)

LinkFails(d, l, bs) ==
    /\ Present(bs) # {}
    /\ \/ d.libraries[l] = NoRow
       \/ \E b \in Missing(d, bs) :
             \/ NameTaken(d.books, bs[b].name, b)
             \/ d.authors[bs[b].author] = NoRow
             \/ \E c \in Missing(d, bs) \ {b} : bs[c].name = bs[b].name

AppendBooks(d, l, bs) ==
    [d EXCEPT !.books = [b \in BookId |-> IF b \in Missing(d, bs) THEN bs[b]
                                                                   ELSE d.books[b]],
              !.links[l] = @ \cup Present(bs)]

(* Mutant: Replace never deletes the join rows it leaves out. *)
ReplaceByAppend(d, l, bs) == AppendBooks(d, l, bs)

ReplaceBooks(d, l, bs) ==
    [AppendBooks(d, l, bs) EXCEPT !.links[l] = Present(bs)]

(* Association.Delete and Clear touch join rows only. *)
UnlinkBooks(d, l, bookIds) == [d EXCEPT !.links[l] = @ \ bookIds]
ClearNothing(d, l) == d     \* mutant: Delete without Association.Clear
ClearBooks(d, l) == [d EXCEPT !.links[l] = {}]

(* SELECT ... FROM books WHERE id IN ids, as a []model.Book. *)
FindBooks(d, ids) == [b \in BookId |-> IF b \in ids THEN d.books[b] ELSE NoRow]

NoBooks == [b \in BookId |-> NoRow]
=============================================================================
