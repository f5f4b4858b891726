-------------------------- MODULE CatalogDB_proofs --------------------------
(***************************************************************************)
(* Every statement of CatalogDB turns a sound database (typed, and with    *)
(* integrity) into a sound database, under the conditions MySQL checks.    *)
(***************************************************************************)
EXTENDS CatalogDB, TLAPS

Sound(d) == d \in Database /\ DbIntegrity(d)

(* The keys handed out stay handed out. *)
KeepsIds(d, e) ==
    /\ d.authorIds \subseteq e.authorIds
    /\ d.bookIds \subseteq e.bookIds
    /\ d.libraryIds \subseteq e.libraryIds

-----------------------------------------------------------------------------
(***************************************************************************)
(* Tables: a row written under a name that no other row holds.             *)
(***************************************************************************)
LEMMA PutRow ==
    ASSUME NEW S, NEW R, NoRow \notin R,
           NEW t \in [S -> R \cup {NoRow}], NEW x \in S, NEW row \in R,
           UniqueNames(t), ~NameTaken(t, row.name, x)
    PROVE  LET u == [t EXCEPT ![x] = row] IN
           /\ u \in [S -> R \cup {NoRow}]
           /\ Present(u) = Present(t) \cup {x}
           /\ UniqueNames(u)
<1> DEFINE u == [t EXCEPT ![x] = row]
<1>1. u \in [S -> R \cup {NoRow}]
  OBVIOUS
<1>2. Present(u) = Present(t) \cup {x}
  BY DEF Present
<1>3. UniqueNames(u)
  BY <1>2 DEF UniqueNames, NameTaken, Present
<1>4. QED
  BY <1>1, <1>2, <1>3

LEMMA DropRow ==
    ASSUME NEW S, NEW R,
           NEW t \in [S -> R \cup {NoRow}], NEW x \in S, UniqueNames(t)
    PROVE  LET u == [t EXCEPT ![x] = NoRow] IN
           /\ u \in [S -> R \cup {NoRow}]
           /\ Present(u) = Present(t) \ {x}
           /\ UniqueNames(u)
BY DEF Present, UniqueNames

(* ON DUPLICATE KEY UPDATE writes one row, under the key it was given or   *)
(* over an existing row, and under a name no other row holds.              *)
LEMMA UpsertRow ==
    ASSUME NEW S, NEW R, NoRow \notin R,
           NEW t \in [S -> R \cup {NoRow}], NEW x \in S, NEW row \in R,
           UniqueNames(t), ~UpsertDuplicate(t, x, row)
    PROVE  LET y == UpsertTarget(t, x, row) IN
           /\ y \in S
           /\ y = x \/ y \in Present(t)
           /\ ~NameTaken(t, row.name, y)
<1>1. CASE t[x] = NoRow /\ NameTaken(t, row.name, x)
  <2>1. PICK z \in Present(t) : t[z].name = row.name
    BY <1>1 DEF NameTaken
  <2>2. DEFINE y == CHOOSE w \in Present(t) : t[w].name = row.name
  <2>3. y \in Present(t) /\ t[y].name = row.name
    BY <2>1
  <2>4. UpsertTarget(t, x, row) = y
    BY <1>1 DEF UpsertTarget
  <2> HIDE DEF y
  <2>5. ~NameTaken(t, row.name, y)
    BY <2>3 DEF NameTaken, UniqueNames
  <2>6. QED
    BY <2>3, <2>4, <2>5 DEF Present
<1>2. CASE ~(t[x] = NoRow /\ NameTaken(t, row.name, x))
  BY <1>2 DEF UpsertTarget, UpsertDuplicate
<1>3. QED
  BY <1>1, <1>2

-----------------------------------------------------------------------------
(***************************************************************************)
(* Authors.                                                                *)
(***************************************************************************)
LEMMA InsertAuthorSound ==
    ASSUME NEW d, Sound(d), NEW x \in AuthorId \ d.authorIds,
           NEW row \in AuthorRow, ~NameTaken(d.authors, row.name, x)
    PROVE  LET e == InsertAuthor(d, x, row) IN Sound(e) /\ KeepsIds(d, e)
<1> DEFINE e == InsertAuthor(d, x, row)
<1>1. /\ e.authors = [d.authors EXCEPT ![x] = row]
      /\ e.authorIds = d.authorIds \cup {x}
      /\ e.books = d.books /\ e.libraries = d.libraries /\ e.links = d.links
      /\ e.bookIds = d.bookIds /\ e.libraryIds = d.libraryIds
  BY DEF InsertAuthor, Sound, Database
<1>2. e \in Database
  BY DEF InsertAuthor, Sound, Database
<1> HIDE DEF e
<1>3. Present(e.authors) = Present(d.authors) \cup {x} /\ UniqueNames(e.authors)
  <2>1. /\ d.authors \in [AuthorId -> AuthorRow \cup {NoRow}]
        /\ x \in AuthorId /\ NoRow \notin AuthorRow /\ UniqueNames(d.authors)
    BY NoRowAssumption DEF Sound, Database, DbIntegrity
  <2>2. QED
    BY <1>1, <2>1, PutRow
<1>4. QED
  BY <1>1, <1>2, <1>3 DEF Sound, DbIntegrity, KeepsIds, BooksHaveAuthors,
                          LinksHaveEnds, OnlyIssuedIds, e

LEMMA PutAuthorSound ==
    ASSUME NEW d, Sound(d), NEW x \in d.authorIds,
           NEW row \in AuthorRow, ~NameTaken(d.authors, row.name, x)
    PROVE  LET e == [d EXCEPT !.authors[x] = row] IN Sound(e) /\ KeepsIds(d, e)
<1> DEFINE e == [d EXCEPT !.authors[x] = row]
<1>1. /\ e.authors = [d.authors EXCEPT ![x] = row]
      /\ e.authorIds = d.authorIds
      /\ e.books = d.books /\ e.libraries = d.libraries /\ e.links = d.links
      /\ e.bookIds = d.bookIds /\ e.libraryIds = d.libraryIds
  BY DEF Sound, Database
<1>2. e \in Database
  BY DEF Sound, Database
<1> HIDE DEF e
<1>3. Present(e.authors) = Present(d.authors) \cup {x} /\ UniqueNames(e.authors)
  <2>1. /\ d.authors \in [AuthorId -> AuthorRow \cup {NoRow}]
        /\ x \in AuthorId /\ NoRow \notin AuthorRow /\ UniqueNames(d.authors)
    BY NoRowAssumption DEF Sound, Database, DbIntegrity
  <2>2. QED
    BY <1>1, <2>1, PutRow
<1>4. QED
  BY <1>1, <1>2, <1>3 DEF Sound, DbIntegrity, KeepsIds, BooksHaveAuthors,
                          LinksHaveEnds, OnlyIssuedIds, e

LEMMA UpsertAuthorSound ==
    ASSUME NEW d, Sound(d), NEW x \in d.authorIds, NEW row \in AuthorRow,
           ~UpsertDuplicate(d.authors, x, row)
    PROVE  LET e == [d EXCEPT !.authors = Upsert(@, x, row)] IN
           Sound(e) /\ KeepsIds(d, e)
<1> DEFINE y == UpsertTarget(d.authors, x, row)
<1>1. /\ y \in d.authorIds
      /\ ~NameTaken(d.authors, row.name, y)
  BY UpsertRow, NoRowAssumption
     DEF Sound, Database, DbIntegrity, OnlyIssuedIds
<1>2. [d EXCEPT !.authors = Upsert(@, x, row)] = [d EXCEPT !.authors[y] = row]
  BY DEF Upsert
<1> HIDE DEF y
<1>3. QED
  BY <1>1, <1>2, PutAuthorSound

LEMMA DeleteAuthorSound ==
    ASSUME NEW d, Sound(d), NEW x \in AuthorId, ~AuthorReferenced(d, x)
    PROVE  LET e == DeleteAuthor(d, x) IN Sound(e) /\ KeepsIds(d, e)
<1> DEFINE e == DeleteAuthor(d, x)
<1>1. /\ e.authors = [d.authors EXCEPT ![x] = NoRow]
      /\ e.authorIds = d.authorIds
      /\ e.books = d.books /\ e.libraries = d.libraries /\ e.links = d.links
      /\ e.bookIds = d.bookIds /\ e.libraryIds = d.libraryIds
  BY DEF DeleteAuthor, Sound, Database
<1>2. e \in Database
  BY DEF DeleteAuthor, Sound, Database
<1> HIDE DEF e
<1>3. Present(e.authors) = Present(d.authors) \ {x} /\ UniqueNames(e.authors)
  BY <1>1, DropRow DEF Sound, Database, DbIntegrity
<1>4. QED
  BY <1>1, <1>2, <1>3 DEF Sound, DbIntegrity, KeepsIds, BooksHaveAuthors,
                          AuthorReferenced, LinksHaveEnds, OnlyIssuedIds, e

-----------------------------------------------------------------------------
(***************************************************************************)
(* Books.                                                                  *)
(***************************************************************************)
LEMMA InsertBookSound ==
    ASSUME NEW d, Sound(d), NEW x \in BookId \ d.bookIds,
           NEW row \in BookRow, row.author \in Present(d.authors),
           ~NameTaken(d.books, row.name, x)
    PROVE  LET e == InsertBook(d, x, row) IN Sound(e) /\ KeepsIds(d, e)
<1> DEFINE e == InsertBook(d, x, row)
<1>1. /\ e.books = [d.books EXCEPT ![x] = row]
      /\ e.bookIds = d.bookIds \cup {x}
      /\ e.authors = d.authors /\ e.libraries = d.libraries /\ e.links = d.links
      /\ e.authorIds = d.authorIds /\ e.libraryIds = d.libraryIds
  BY DEF InsertBook, Sound, Database
<1>2. e \in Database
  BY DEF InsertBook, Sound, Database, BookSlice
<1> HIDE DEF e
<1>3. Present(e.books) = Present(d.books) \cup {x} /\ UniqueNames(e.books)
  <2>1. /\ d.books \in [BookId -> BookRow \cup {NoRow}]
        /\ x \in BookId /\ NoRow \notin BookRow /\ UniqueNames(d.books)
    BY NoRowAssumption DEF Sound, Database, DbIntegrity, BookSlice
  <2>2. QED
    BY <1>1, <2>1, PutRow
<1>4. BooksHaveAuthors(e)
  <2> SUFFICES ASSUME NEW b \in Present(e.books)
               PROVE  e.books[b].author \in Present(d.authors)
    BY <1>1 DEF BooksHaveAuthors
  <2>1. e.books[x] = row
    BY <1>1 DEF Sound, Database, BookSlice
  <2>2. b # x => e.books[b] = d.books[b] /\ b \in Present(d.books)
    BY <1>1, <1>3 DEF Sound, Database, BookSlice
  <2>3. QED
    BY <2>1, <2>2 DEF Sound, DbIntegrity, BooksHaveAuthors
<1>5. QED
  BY <1>1, <1>2, <1>3, <1>4 DEF Sound, DbIntegrity, KeepsIds, LinksHaveEnds,
                                OnlyIssuedIds, e

LEMMA PutBookSound ==
    ASSUME NEW d, Sound(d), NEW x \in d.bookIds,
           NEW row \in BookRow, row.author \in Present(d.authors),
           ~NameTaken(d.books, row.name, x)
    PROVE  LET e == [d EXCEPT !.books[x] = row] IN Sound(e) /\ KeepsIds(d, e)
<1> DEFINE e == [d EXCEPT !.books[x] = row]
<1>1. /\ e.books = [d.books EXCEPT ![x] = row]
      /\ e.bookIds = d.bookIds
      /\ e.authors = d.authors /\ e.libraries = d.libraries /\ e.links = d.links
      /\ e.authorIds = d.authorIds /\ e.libraryIds = d.libraryIds
  BY DEF Sound, Database
<1>2. e \in Database
  BY DEF Sound, Database, BookSlice
<1> HIDE DEF e
<1>3. Present(e.books) = Present(d.books) \cup {x} /\ UniqueNames(e.books)
  <2>1. /\ d.books \in [BookId -> BookRow \cup {NoRow}]
        /\ x \in BookId /\ NoRow \notin BookRow /\ UniqueNames(d.books)
    BY NoRowAssumption DEF Sound, Database, DbIntegrity, BookSlice
  <2>2. QED
    BY <1>1, <2>1, PutRow
<1>4. BooksHaveAuthors(e)
  <2> SUFFICES ASSUME NEW b \in Present(e.books)
               PROVE  e.books[b].author \in Present(d.authors)
    BY <1>1 DEF BooksHaveAuthors
  <2>1. e.books[x] = row
    BY <1>1 DEF Sound, Database, BookSlice
  <2>2. b # x => e.books[b] = d.books[b] /\ b \in Present(d.books)
    BY <1>1, <1>3 DEF Sound, Database, BookSlice
  <2>3. QED
    BY <2>1, <2>2 DEF Sound, DbIntegrity, BooksHaveAuthors
<1>5. QED
  BY <1>1, <1>2, <1>3, <1>4 DEF Sound, DbIntegrity, KeepsIds, LinksHaveEnds,
                                OnlyIssuedIds, e

LEMMA UpsertBookSound ==
    ASSUME NEW d, Sound(d), NEW x \in d.bookIds, NEW row \in BookRow,
           row.author \in Present(d.authors),
           ~UpsertDuplicate(d.books, x, row)
    PROVE  LET e == [d EXCEPT !.books = Upsert(@, x, row)] IN
           Sound(e) /\ KeepsIds(d, e)
<1> DEFINE y == UpsertTarget(d.books, x, row)
<1>1. /\ y \in d.bookIds
      /\ ~NameTaken(d.books, row.name, y)
  BY UpsertRow, NoRowAssumption
     DEF Sound, Database, DbIntegrity, OnlyIssuedIds, BookSlice
<1>2. [d EXCEPT !.books = Upsert(@, x, row)] = [d EXCEPT !.books[y] = row]
  BY DEF Upsert
<1> HIDE DEF y
<1>3. QED
  BY <1>1, <1>2, PutBookSound

LEMMA DeleteBookSound ==
    ASSUME NEW d, Sound(d), NEW x \in BookId, ~BookReferenced(d, x)
    PROVE  LET e == DeleteBook(d, x) IN Sound(e) /\ KeepsIds(d, e)
<1> DEFINE e == DeleteBook(d, x)
<1>1. /\ e.books = [d.books EXCEPT ![x] = NoRow]
      /\ e.bookIds = d.bookIds
      /\ e.authors = d.authors /\ e.libraries = d.libraries /\ e.links = d.links
      /\ e.authorIds = d.authorIds /\ e.libraryIds = d.libraryIds
  BY DEF DeleteBook, Sound, Database
<1>2. e \in Database
  BY DEF DeleteBook, Sound, Database, BookSlice
<1> HIDE DEF e
<1>3. Present(e.books) = Present(d.books) \ {x} /\ UniqueNames(e.books)
  BY <1>1, DropRow DEF Sound, Database, DbIntegrity, BookSlice
<1>4. BooksHaveAuthors(e) /\ LinksHaveEnds(e)
  BY <1>1, <1>3 DEF BooksHaveAuthors, LinksHaveEnds, BookReferenced, Sound,
                    Database, DbIntegrity, BookSlice
<1>5. QED
  BY <1>1, <1>2, <1>3, <1>4 DEF Sound, DbIntegrity, KeepsIds, OnlyIssuedIds, e

-----------------------------------------------------------------------------
(***************************************************************************)
(* Libraries.                                                              *)
(***************************************************************************)
LEMMA InsertLibrarySound ==
    ASSUME NEW d, Sound(d), NEW x \in LibraryId \ d.libraryIds,
           NEW row \in LibraryRow, ~NameTaken(d.libraries, row.name, x)
    PROVE  LET e == InsertLibrary(d, x, row) IN Sound(e) /\ KeepsIds(d, e)
<1> DEFINE e == InsertLibrary(d, x, row)
<1>1. /\ e.libraries = [d.libraries EXCEPT ![x] = row]
      /\ e.libraryIds = d.libraryIds \cup {x}
      /\ e.authors = d.authors /\ e.books = d.books /\ e.links = d.links
      /\ e.authorIds = d.authorIds /\ e.bookIds = d.bookIds
  BY DEF InsertLibrary, Sound, Database
<1>2. e \in Database
  BY DEF InsertLibrary, Sound, Database
<1> HIDE DEF e
<1>3. /\ Present(e.libraries) = Present(d.libraries) \cup {x}
      /\ UniqueNames(e.libraries)
  <2>1. /\ d.libraries \in [LibraryId -> LibraryRow \cup {NoRow}]
        /\ x \in LibraryId /\ NoRow \notin LibraryRow /\ UniqueNames(d.libraries)
    BY NoRowAssumption DEF Sound, Database, DbIntegrity
  <2>2. QED
    BY <1>1, <2>1, PutRow
<1>4. QED
  BY <1>1, <1>2, <1>3 DEF Sound, DbIntegrity, KeepsIds, BooksHaveAuthors,
                          LinksHaveEnds, OnlyIssuedIds, e

LEMMA PutLibrarySound ==
    ASSUME NEW d, Sound(d), NEW x \in d.libraryIds,
           NEW row \in LibraryRow, ~NameTaken(d.libraries, row.name, x)
    PROVE  LET e == [d EXCEPT !.libraries[x] = row] IN
           Sound(e) /\ KeepsIds(d, e) /\ e.links = d.links
<1> DEFINE e == [d EXCEPT !.libraries[x] = row]
<1>1. /\ e.libraries = [d.libraries EXCEPT ![x] = row]
      /\ e.libraryIds = d.libraryIds
      /\ e.authors = d.authors /\ e.books = d.books /\ e.links = d.links
      /\ e.authorIds = d.authorIds /\ e.bookIds = d.bookIds
  BY DEF Sound, Database
<1>2. e \in Database
  BY DEF Sound, Database
<1> HIDE DEF e
<1>3. /\ Present(e.libraries) = Present(d.libraries) \cup {x}
      /\ UniqueNames(e.libraries)
  <2>1. /\ d.libraries \in [LibraryId -> LibraryRow \cup {NoRow}]
        /\ x \in LibraryId /\ NoRow \notin LibraryRow /\ UniqueNames(d.libraries)
    BY NoRowAssumption DEF Sound, Database, DbIntegrity
  <2>2. QED
    BY <1>1, <2>1, PutRow
<1>4. QED
  BY <1>1, <1>2, <1>3 DEF Sound, DbIntegrity, KeepsIds, BooksHaveAuthors,
                          LinksHaveEnds, OnlyIssuedIds, e

LEMMA UpsertLibrarySound ==
    ASSUME NEW d, Sound(d), NEW x \in d.libraryIds, NEW row \in LibraryRow,
           ~UpsertDuplicate(d.libraries, x, row)
    PROVE  LET e == [d EXCEPT !.libraries = Upsert(@, x, row)] IN
           Sound(e) /\ KeepsIds(d, e) /\ e.links = d.links
<1> DEFINE y == UpsertTarget(d.libraries, x, row)
<1>1. /\ y \in d.libraryIds
      /\ ~NameTaken(d.libraries, row.name, y)
  BY UpsertRow, NoRowAssumption
     DEF Sound, Database, DbIntegrity, OnlyIssuedIds
<1>2. [d EXCEPT !.libraries = Upsert(@, x, row)] = [d EXCEPT !.libraries[y] = row]
  BY DEF Upsert
<1> HIDE DEF y
<1>3. QED
  BY <1>1, <1>2, PutLibrarySound

(* A library with no links may go. *)
LEMMA DeleteLibrarySound ==
    ASSUME NEW d, Sound(d), NEW x \in LibraryId, ~LibraryReferenced(d, x)
    PROVE  LET e == DeleteLibrary(d, x) IN Sound(e) /\ KeepsIds(d, e)
<1> DEFINE e == DeleteLibrary(d, x)
<1>1. /\ e.libraries = [d.libraries EXCEPT ![x] = NoRow]
      /\ e.libraryIds = d.libraryIds
      /\ e.authors = d.authors /\ e.books = d.books /\ e.links = d.links
      /\ e.authorIds = d.authorIds /\ e.bookIds = d.bookIds
  BY DEF DeleteLibrary, Sound, Database
<1>2. e \in Database
  BY DEF DeleteLibrary, Sound, Database
<1> HIDE DEF e
<1>3. Present(e.libraries) = Present(d.libraries) \ {x} /\ UniqueNames(e.libraries)
  BY <1>1, DropRow DEF Sound, Database, DbIntegrity
<1>4. LinksHaveEnds(e) /\ BooksHaveAuthors(e)
  BY <1>1, <1>3 DEF LinksHaveEnds, BooksHaveAuthors, LibraryReferenced, Sound,
                    DbIntegrity
<1>5. QED
  BY <1>1, <1>2, <1>3, <1>4 DEF Sound, DbIntegrity, KeepsIds, OnlyIssuedIds, e

-----------------------------------------------------------------------------
(***************************************************************************)
(* Links.                                                                  *)
(***************************************************************************)
LEMMA FewerLinksSound ==
    ASSUME NEW d, Sound(d), NEW l \in LibraryId, NEW B \in SUBSET d.links[l]
    PROVE  LET e == [d EXCEPT !.links[l] = B] IN
           /\ Sound(e) /\ KeepsIds(d, e)
           /\ e.links = [d.links EXCEPT ![l] = B]
<1> DEFINE e == [d EXCEPT !.links[l] = B]
<1>1. /\ e.links = [d.links EXCEPT ![l] = B]
      /\ e.authors = d.authors /\ e.books = d.books
      /\ e.libraries = d.libraries /\ e.authorIds = d.authorIds
      /\ e.bookIds = d.bookIds /\ e.libraryIds = d.libraryIds
  BY DEF Sound, Database
<1>2. e \in Database
  BY DEF Sound, Database
<1> HIDE DEF e
<1>3. LinksHaveEnds(e)
  BY <1>1 DEF LinksHaveEnds, Sound, Database, DbIntegrity
<1>4. QED
  BY <1>1, <1>2, <1>3 DEF Sound, DbIntegrity, KeepsIds, BooksHaveAuthors,
                          OnlyIssuedIds, e

(* Append: the links of l grow by the books in memory, and those of them   *)
(* that were deleted meanwhile are books again.                            *)
LEMMA AppendBooksSound ==
    ASSUME NEW d, Sound(d), NEW l \in LibraryId, NEW bs \in BookSlice,
           Present(bs) \subseteq d.bookIds, ~LinkFails(d, l, bs)
    PROVE  LET e == AppendBooks(d, l, bs) IN
           /\ Sound(e) /\ KeepsIds(d, e)
           /\ e.links = [d.links EXCEPT ![l] = @ \cup Present(bs)]
<1> DEFINE e == AppendBooks(d, l, bs)
           M == Missing(d, bs)
<1>1. /\ e.books = [b \in BookId |-> IF b \in M THEN bs[b] ELSE d.books[b]]
      /\ e.links = [d.links EXCEPT ![l] = @ \cup Present(bs)]
      /\ e.authors = d.authors /\ e.libraries = d.libraries
      /\ e.authorIds = d.authorIds
      /\ e.bookIds = d.bookIds /\ e.libraryIds = d.libraryIds
  BY DEF AppendBooks, Sound, Database
<1>2. Present(bs) \in SUBSET BookId
  BY DEF Present, BookSlice
<1>3. e \in Database
  BY <1>2 DEF AppendBooks, Sound, Database, BookSlice
<1> HIDE DEF e
<1>4. Present(e.books) = Present(d.books) \cup Present(bs)
  BY <1>1 DEF Present, Missing, Sound, Database, BookSlice
<1>5. ASSUME NEW b \in M
      PROVE  /\ ~NameTaken(d.books, bs[b].name, b)
             /\ d.authors[bs[b].author] # NoRow
             /\ \A c \in M : bs[c].name = bs[b].name => c = b
  BY DEF LinkFails, Missing
<1>6. UniqueNames(e.books)
  <2> SUFFICES ASSUME NEW x \in Present(e.books), NEW y \in Present(e.books),
                      e.books[x].name = e.books[y].name
               PROVE  x = y
    BY DEF UniqueNames
  <2>1. \A b \in Present(e.books) :
           e.books[b] = IF b \in M THEN bs[b] ELSE d.books[b]
    BY <1>1, <1>3 DEF Present, Database, BookSlice
  <2>2. \A b \in Present(e.books) \ M : b \in Present(d.books)
    BY <1>4 DEF Missing
  <2>3. CASE x \in M /\ y \in M
    BY <1>5, <2>1, <2>3
  <2>4. CASE x \in M /\ y \notin M
    BY <1>5, <2>1, <2>2, <2>4 DEF NameTaken
  <2>5. CASE x \notin M /\ y \in M
    BY <1>5, <2>1, <2>2, <2>5 DEF NameTaken
  <2>6. CASE x \notin M /\ y \notin M
    BY <2>1, <2>2, <2>6 DEF UniqueNames, Sound, DbIntegrity
  <2>7. QED
    BY <2>3, <2>4, <2>5, <2>6
<1>7. BooksHaveAuthors(e)
  <2> SUFFICES ASSUME NEW b \in Present(e.books)
               PROVE  e.books[b].author \in Present(d.authors)
    BY <1>1 DEF BooksHaveAuthors
  <2>1. b \in BookId /\ e.books[b] = IF b \in M THEN bs[b] ELSE d.books[b]
    BY <1>1, <1>3 DEF Present, Database, BookSlice
  <2>2. CASE b \in M
    <3>1. bs[b] \in BookRow
      BY <2>1, <2>2 DEF Missing, Present, BookSlice
    <3>2. QED
      BY <1>5, <2>1, <2>2, <3>1 DEF Present, BookRow, Sound, Database
  <2>3. CASE b \notin M
    BY <1>4, <2>1, <2>3 DEF Missing, Sound, DbIntegrity, BooksHaveAuthors
  <2>4. QED
    BY <2>2, <2>3
<1>8. LinksHaveEnds(e)
  <2> SUFFICES ASSUME NEW k \in LibraryId
               PROVE  /\ e.links[k] \subseteq Present(e.books)
                      /\ e.links[k] # {} => k \in Present(d.libraries)
    BY <1>1 DEF LinksHaveEnds
  <2>1. /\ d.links[k] \subseteq Present(d.books)
        /\ d.links[k] # {} => k \in Present(d.libraries)
    BY DEF LinksHaveEnds, Sound, DbIntegrity
  <2>2. CASE k # l
    BY <1>1, <1>4, <2>1, <2>2 DEF Sound, Database
  <2>3. CASE k = l
    <3>1. e.links[k] = d.links[k] \cup Present(bs)
      BY <1>1, <2>3 DEF Sound, Database
    <3>2. Present(bs) # {} => k \in Present(d.libraries)
      BY <2>3 DEF LinkFails, Present, Sound, Database
    <3>3. QED
      BY <1>4, <2>1, <3>1, <3>2
  <2>4. QED
    BY <2>2, <2>3
<1>9. QED
  BY <1>1, <1>3, <1>4, <1>6, <1>7, <1>8
     DEF Sound, DbIntegrity, KeepsIds, OnlyIssuedIds, e

(* Replace: afterwards the links of l are the books in memory.             *)
LEMMA ReplaceBooksSound ==
    ASSUME NEW d, Sound(d), NEW l \in LibraryId, NEW bs \in BookSlice,
           Present(bs) \subseteq d.bookIds, ~LinkFails(d, l, bs)
    PROVE  LET e == ReplaceBooks(d, l, bs) IN
           /\ Sound(e) /\ KeepsIds(d, e)
           /\ e.links = [d.links EXCEPT ![l] = Present(bs)]
<1> DEFINE a == AppendBooks(d, l, bs)
<1>1. /\ Sound(a) /\ KeepsIds(d, a)
      /\ a.links = [d.links EXCEPT ![l] = @ \cup Present(bs)]
  BY AppendBooksSound
<1> HIDE DEF a
<1>2. d.links \in [LibraryId -> SUBSET BookId]
  BY DEF Sound, Database
<1>3. Present(bs) \in SUBSET a.links[l]
  BY <1>1, <1>2
<1>4. LET e == [a EXCEPT !.links[l] = Present(bs)] IN
      /\ Sound(e) /\ KeepsIds(a, e)
      /\ e.links = [a.links EXCEPT ![l] = Present(bs)]
  BY <1>1, <1>3, FewerLinksSound
<1>5. [a.links EXCEPT ![l] = Present(bs)] = [d.links EXCEPT ![l] = Present(bs)]
  BY <1>1, <1>2
<1>6. QED
  BY <1>1, <1>4, <1>5 DEF ReplaceBooks, KeepsIds, a
=============================================================================
