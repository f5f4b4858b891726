---------------------------- MODULE Reads_proofs ----------------------------
(***************************************************************************)
(* Reading beside the writers: the tables keep their integrity, the        *)
(* answers their parts and the pages their rows, for any number of         *)
(* clients, requests and rows, any page size and any width of int.         *)
(***************************************************************************)
EXTENDS Reads, Catalog_proofs, FiniteSetTheorems

-----------------------------------------------------------------------------
(***************************************************************************)
(* What internal/httpx/pagination.go computes.                             *)
(***************************************************************************)
Texts == Int \cup {NoNumber}
Paginations == [page : 1 .. MaxInt, size : 1 .. MaxPageSize]

LEMMA AtoiType ==
    ASSUME NEW text \in Texts
    PROVE  Atoi(text) \in MinInt .. MaxInt
BY PaginationAssumption DEF Texts, Atoi, MinInt

(* Whatever the query string says, or does not say, ParsePagination gives  *)
(* a page from 1 up and a size between 1 and MaxPageSize.                  *)
THEOREM PaginationInRange ==
    ASSUME NEW page \in Texts, NEW size \in Texts
    PROVE  ParsePagination(page, size) \in Paginations
<1>1. /\ Atoi(page) \in Int /\ Atoi(page) <= MaxInt
      /\ Atoi(size) \in Int /\ Atoi(size) <= MaxInt
  BY AtoiType, PaginationAssumption DEF MinInt
<1>2. QED
  BY <1>1, PaginationAssumption DEF ParsePagination, Paginations

-----------------------------------------------------------------------------
LEMMA RemainderBelow ==
    ASSUME NEW n \in Nat, NEW d \in Nat, n < d
    PROVE  n % d = n
OBVIOUS

(* What fits into an int is computed exactly. *)
LEMMA WrapExact ==
    ASSUME NEW n \in Int, MinInt <= n, n <= MaxInt
    PROVE  Wrap(n) = n
<1>1. MaxInt \in Nat /\ MinInt \in Int /\ Words \in Nat
  BY PaginationAssumption DEF MinInt, Words
<1>2. n - MinInt \in Nat /\ n - MinInt < Words
  BY <1>1 DEF MinInt, Words
<1>3. (n - MinInt) % Words = n - MinInt
  BY <1>1, <1>2, RemainderBelow
<1>4. QED
  BY <1>1, <1>3 DEF Wrap

LEMMA ProductType ==
    ASSUME NEW a \in Nat, NEW b \in Nat
    PROVE  a * b \in Nat
OBVIOUS

(* As long as it fits into an int, the offset is that of the rows on the   *)
(* pages before, and GORM skips just those.                                *)
THEOREM OffsetIsExact ==
    ASSUME NEW pg \in Paginations, (pg.page - 1) * pg.size <= MaxInt
    PROVE  Offset(pg) = (pg.page - 1) * pg.size /\ Skipped(pg) = Offset(pg)
<1>1. pg.page - 1 \in Nat /\ pg.size \in Nat
  BY PaginationAssumption DEF Paginations
<1>2. (pg.page - 1) * pg.size \in Nat
  BY <1>1, ProductType
<1>3. MinInt <= (pg.page - 1) * pg.size
  BY <1>2, PaginationAssumption DEF MinInt
<1>4. Offset(pg) = (pg.page - 1) * pg.size
  BY <1>2, <1>3, WrapExact DEF Offset
<1>5. QED
  BY <1>2, <1>4 DEF Skipped

-----------------------------------------------------------------------------
LEMMA Division ==
    ASSUME NEW n \in Nat, NEW d \in Nat \ {0}
    PROVE  /\ n \div d \in Nat
           /\ (n \div d) * d <= n
           /\ n < (n \div d) * d + d
OBVIOUS

(* total_pages is the least number of pages that hold all rows. *)
THEOREM TotalPagesIsCeiling ==
    ASSUME NEW total \in Nat, NEW size \in Nat \ {0}
    PROVE  /\ TotalPages(total, size) \in Nat
           /\ total <= TotalPages(total, size) * size
           /\ total > 0 => (TotalPages(total, size) - 1) * size < total
<1>1. CASE total = 0
  BY <1>1 DEF TotalPages
<1>2. CASE total > 0
  <2> DEFINE n == total + size - 1
             q == n \div size
  <2>1. n \in Nat /\ TotalPages(total, size) = q
    BY <1>2 DEF TotalPages
  <2>2. q \in Nat /\ q * size <= n /\ n < q * size + size
    BY <2>1, Division
  <2>3. q * size \in Nat /\ (q - 1) * size = q * size - size
    BY <2>2
  <2> HIDE DEF q
  <2>4. QED
    BY <1>2, <2>1, <2>2, <2>3
<1>3. QED
  BY <1>1, <1>2

(* Row i of the order, counted from zero, is on page p. *)
OnPage(i, p, size) == (p - 1) * size <= i /\ i < p * size

LEMMA Monotone ==
    ASSUME NEW a \in Int, NEW b \in Int, NEW d \in Nat, a <= b
    PROVE  a * d <= b * d
<1>1. (b - a) * d \in Nat
  BY ProductType
<1>2. (b - a) * d = b * d - a * d /\ a * d \in Int /\ b * d \in Int
  OBVIOUS
<1>3. QED
  BY <1>1, <1>2

(* The pages from 1 to total_pages show every row, and none twice. *)
THEOREM PagesPartitionRows ==
    ASSUME NEW total \in Nat, NEW size \in Nat \ {0}, NEW i \in 0 .. total - 1
    PROVE  /\ \E p \in 1 .. TotalPages(total, size) : OnPage(i, p, size)
           /\ \A p, q \in Int : OnPage(i, p, size) /\ OnPage(i, q, size) => p = q
<1>1. \E p \in 1 .. TotalPages(total, size) : OnPage(i, p, size)
  <2> DEFINE k == i \div size
  <2>1. k \in Nat /\ k * size <= i /\ i < k * size + size
    BY Division
  <2> HIDE DEF k
  <2>2. OnPage(i, k + 1, size)
    <3>1. (k + 1 - 1) * size = k * size /\ (k + 1) * size = k * size + size
      BY <2>1
    <3>2. QED
      BY <2>1, <3>1 DEF OnPage
  <2>3. k + 1 <= TotalPages(total, size)
    <3> DEFINE t == TotalPages(total, size)
    <3>1. t \in Nat /\ total <= t * size
      BY TotalPagesIsCeiling
    <3> HIDE DEF t
    <3>2. SUFFICES ASSUME t <= k PROVE FALSE
      BY <2>1, <3>1 DEF t
    <3>3. t * size <= k * size
      BY <2>1, <3>1, <3>2, Monotone
    <3>4. t * size \in Nat /\ k * size \in Nat
      BY <2>1, <3>1, ProductType
    <3>5. QED
      BY <2>1, <3>1, <3>3, <3>4
  <2>4. k + 1 \in 1 .. TotalPages(total, size)
    BY <2>1, <2>3, TotalPagesIsCeiling
  <2>5. QED
    BY <2>2, <2>4
<1>2. ASSUME NEW p \in Int, NEW q \in Int, p < q,
             OnPage(i, p, size), OnPage(i, q, size)
      PROVE  FALSE
  <2>1. p * size <= (q - 1) * size
    BY <1>2, Monotone
  <2>2. p * size \in Int /\ (q - 1) * size \in Int
    OBVIOUS
  <2>3. QED
    BY <1>2, <2>1, <2>2 DEF OnPage
<1>3. \A p, q \in Int : OnPage(i, p, size) /\ OnPage(i, q, size) => p = q
  BY <1>2
<1>4. QED
  BY <1>1, <1>3

-----------------------------------------------------------------------------
(* Readers change nothing, and the writers are those of Catalog. *)
LEMMA CatalogStep == ReadsNext => [Next]_vars
BY DEF ReadsNext, Write, CrashAll, Read, ReceiveList, ReceiveGet, Count, Find,
       FindOne, PreloadJoins, PreloadBooks, PreloadAuthors, ReadFails, NextPage,
       Leave, Becomes, Next

THEOREM ImplementsCatalog == ReadsSpec => Spec
<1>1. ReadsInit => Init
  BY DEF ReadsInit
<1>2. [ReadsNext]_allVars => [Next]_vars
  BY CatalogStep DEF allVars, vars
<1>3. QED
  BY <1>1, <1>2, PTL DEF ReadsSpec, Spec

(* Whoever reads meanwhile, the tables keep their integrity. *)
THEOREM TablesAreSound == ReadsSpec => []TypeOK /\ []Integrity
BY ImplementsCatalog, TypeCorrect, IntegrityHolds, PTL

-----------------------------------------------------------------------------
(***************************************************************************)
(* The types of what a SELECT answers.                                     *)
(***************************************************************************)
LEMMA AskTypes ==
    /\ \A a \in Lists \cup Gets : a.table \in Tables
    /\ \A a \in Lists : /\ a.page \in Texts /\ a.size \in Texts
                        /\ a.author # NoRow => a.table = "books"
BY ReadsAssumption DEF ListRequest, GetRequest, Texts

LEMMA FactTypes ==
    ASSUME NEW d \in Database, NEW table \in Tables, NEW xs
    PROVE  /\ RowsIn(d, table, xs) \subseteq Facts
           /\ Parts(d, table) \subseteq Facts
           /\ AuthorsIn(d, xs) \subseteq AuthorFacts
           /\ BooksIn(d, xs) \subseteq BookFacts
           /\ LinksIn(d, xs) \subseteq LinkFacts
<1>1. /\ Present(d.authors) \subseteq AuthorId
      /\ \A x \in Present(d.authors) : d.authors[x] \in AuthorRow
      /\ Present(d.books) \subseteq BookId
      /\ \A x \in Present(d.books) : d.books[x] \in BookRow
      /\ Present(d.libraries) \subseteq LibraryId
      /\ \A x \in Present(d.libraries) : d.libraries[x] \in LibraryRow
  BY DEF Database, BookSlice, Present
<1>2. \A ys : AuthorsIn(d, ys) \subseteq AuthorFacts
  BY <1>1 DEF AuthorsIn, AuthorFacts
<1>3. \A ys : BooksIn(d, ys) \subseteq BookFacts
  BY <1>1 DEF BooksIn, BookFacts
<1>4. \A ys : LibrariesIn(d, ys) \subseteq LibraryFacts
  BY <1>1 DEF LibrariesIn, LibraryFacts
<1>5. \A ys : LinksIn(d, ys) \subseteq LinkFacts
  BY DEF LinksIn
<1>6. RowsIn(d, table, xs) \subseteq Facts
  BY <1>2, <1>3, <1>4 DEF RowsIn, Facts, Tables
<1>7. Parts(d, table) \subseteq Facts
  BY <1>2, <1>3, <1>5 DEF Parts, Facts
<1>8. QED
  BY <1>2, <1>3, <1>5, <1>6, <1>7

LEMMA MatchTypes ==
    ASSUME NEW d \in Database, NEW a \in Lists
    PROVE  /\ Matches(d, a) \subseteq Int
           /\ Cardinality(Matches(d, a)) \in Nat
           /\ \A pg : \A xs \in PagesOf(d, a, pg) : xs \subseteq Matches(d, a)
<1>1. Matches(d, a) \subseteq AuthorId \cup BookId \cup LibraryId
  BY AskTypes DEF Matches, Present, Database, BookSlice, Tables
<1>2. IsFiniteSet(Matches(d, a))
  BY <1>1, ReadsAssumption, FS_Subset
<1>3. Cardinality(Matches(d, a)) \in Nat
  BY <1>2, FS_CardinalityType
<1>4. \A pg : \A xs \in PagesOf(d, a, pg) : xs \subseteq Matches(d, a)
  BY DEF PagesOf, Firsts
<1>5. QED
  BY <1>1, <1>3, <1>4, ReadsAssumption

-----------------------------------------------------------------------------
(***************************************************************************)
(* The invariant: what is there all the time is among the rows of now, and *)
(* each query has shown its share of it.                                   *)
(***************************************************************************)
LinksShown(rd) ==
    \A l \in rd.items, b \in BookId :
        <<"link", l, b>> \in rd.held => <<"link", l, b>> \in rd.shown

BooksShown(rd) ==
    \A l \in rd.items, b \in BookId :
        <<"link", l, b>> \in rd.held =>
            \E row \in BookRow : <<"book", b, row>> \in rd.shown

AuthorsShown(rd) ==
    \A f \in rd.shown \cap rd.held \cap BookFacts :
        \E row \in AuthorRow : <<"author", f[3].author, row>> \in rd.shown

AskOk(rd) ==
    /\ rd.at # "idle" => rd.ask \in Lists \cup Gets
    /\ rd.at \in {"count", "find"} => rd.ask \in Lists
    /\ rd.at = "first" => rd.ask \in Gets
    /\ rd.at \in {"joins", "books"} => rd.ask.table = "libraries"

Reading(rd, d) ==
    /\ AskOk(rd)
    /\ rd.at # "idle" => rd.held \subseteq Parts(d, rd.ask.table)
    /\ rd.at \in {"books", "authors", "done"} => LinksShown(rd)
    /\ rd.at \in {"authors", "done"} => BooksShown(rd)
    /\ rd.at = "done" => AuthorsShown(rd)

RInv ==
    /\ ReadsTypeOK
    /\ \A c \in Client : Reading(reads[c], db)

LEMMA BecomesKept ==
    ASSUME RInv, NEW c \in Client, NEW rd \in Readings, Reading(rd, db),
           Becomes(c, rd)
    PROVE  RInv'
<1>1. db' = db /\ reads' = [reads EXCEPT ![c] = rd]
  BY DEF Becomes, vars
<1>2. reads' \in [Client -> Readings]
  BY <1>1 DEF RInv, ReadsTypeOK
<1>3. \A q \in Client : Reading(reads'[q], db')
  BY <1>1 DEF RInv, ReadsTypeOK
<1>4. QED
  BY <1>2, <1>3 DEF RInv, ReadsTypeOK

LEMMA NoReadType == NoRead \in Readings /\ \A d : Reading(NoRead, d)
<1>1. ParsePagination(1, 1) \in Paginations
  BY PaginationInRange DEF Texts
<1>2. QED
  BY <1>1 DEF NoRead, Readings, Queries, Paginations, Reading, AskOk

-----------------------------------------------------------------------------
(***************************************************************************)
(* One lemma per query, then the writers.                                  *)
(***************************************************************************)
LEMMA ReceiveKept ==
    ASSUME RInv, TypeOK, NEW c \in Client, ReceiveList(c) \/ ReceiveGet(c)
    PROVE  RInv'
<1>1. CASE ReceiveList(c)
  <2>1. PICK a \in Lists :
            Becomes(c, [NoRead EXCEPT !.at = "count", !.ask = a,
                            !.pg = ParsePagination(a.page, a.size),
                            !.held = Parts(db, a.table),
                            !.start = Matches(db, a), !.steady = TRUE])
    BY <1>1 DEF ReceiveList
  <2>2. db \in Database
    BY DEF TypeOK
  <2>3. ParsePagination(a.page, a.size) \in Paginations
    BY AskTypes, PaginationInRange
  <2>4. Parts(db, a.table) \subseteq Facts /\ Matches(db, a) \subseteq Int
    BY <2>2, AskTypes, FactTypes, MatchTypes
  <2> DEFINE rd == [NoRead EXCEPT !.at = "count", !.ask = a,
                        !.pg = ParsePagination(a.page, a.size),
                        !.held = Parts(db, a.table),
                        !.start = Matches(db, a), !.steady = TRUE]
  <2>5. rd \in Readings
    BY <2>3, <2>4 DEF NoRead, Readings, Queries, Paginations
  <2>6. Reading(rd, db)
    BY DEF NoRead, Reading, AskOk
  <2>7. QED
    BY <2>1, <2>5, <2>6, BecomesKept
<1>2. CASE ReceiveGet(c)
  <2>1. PICK a \in Gets :
            Becomes(c, [NoRead EXCEPT !.at = "first", !.ask = a,
                            !.held = Parts(db, a.table)])
    BY <1>2 DEF ReceiveGet
  <2> DEFINE rd == [NoRead EXCEPT !.at = "first", !.ask = a,
                        !.held = Parts(db, a.table)]
  <2>2. Parts(db, a.table) \subseteq Facts
    BY AskTypes, FactTypes DEF TypeOK
  <2>3. rd \in Readings
    BY <2>2, NoReadType DEF NoRead, Readings, Queries
  <2>4. Reading(rd, db)
    BY DEF NoRead, Reading, AskOk
  <2>5. QED
    BY <2>1, <2>3, <2>4, BecomesKept
<1>3. QED
  BY <1>1, <1>2

LEMMA CountKept ==
    ASSUME RInv, TypeOK, NEW c \in Client, Count(c)
    PROVE  RInv'
<1> DEFINE old == reads[c]
           rd == [old EXCEPT !.at = "find", !.total = Cardinality(Matches(db, old.ask))]
<1>1. old \in Readings /\ Reading(old, db) /\ old.at = "count"
  BY DEF RInv, ReadsTypeOK, Count
<1>2. old.ask \in Lists
  BY <1>1 DEF Reading, AskOk
<1>3. Cardinality(Matches(db, old.ask)) \in Nat
  BY <1>2, MatchTypes DEF TypeOK
<1>4. Becomes(c, rd)
  BY DEF Count
<1> HIDE DEF old
<1>5. rd \in Readings
  BY <1>1, <1>3 DEF Readings, Queries
<1>6. Reading(rd, db)
  BY <1>1, <1>2 DEF Reading, AskOk, Readings
<1>7. QED
  BY <1>4, <1>5, <1>6, BecomesKept DEF old

(* After Find and First there is nothing to show, or still a query to send. *)
LEMMA FoundReading ==
    ASSUME NEW rd, rd.ask \in Lists \cup Gets, rd.at = Preload[rd.ask.table],
           rd.held \subseteq Parts(db, rd.ask.table)
    PROVE  Reading(rd, db) /\ rd.at \in Queries \cup {"done"}
<1>1. rd.ask.table \in Tables
  BY AskTypes
<1>2. CASE rd.ask.table = "authors"
  <2>1. rd.at = "done" /\ rd.held = {}
    BY <1>2 DEF Preload, Parts
  <2>2. QED
    BY <1>2, <2>1
       DEF Reading, AskOk, LinksShown, BooksShown, AuthorsShown
<1>3. CASE rd.ask.table = "books"
  <2>1. rd.at = "authors" /\ rd.held \subseteq BooksIn(db, BookId) \cup AuthorsIn(db, AuthorId)
    BY <1>3 DEF Preload, Parts
  <2>2. \A l, b : <<"link", l, b>> \notin rd.held
    BY <2>1 DEF BooksIn, AuthorsIn
  <2>3. QED
    BY <1>3, <2>1, <2>2
       DEF Reading, AskOk, LinksShown, BooksShown, Queries
<1>4. CASE rd.ask.table = "libraries"
  <2>1. rd.at = "joins"
    BY <1>4 DEF Preload
  <2>2. QED
    BY <1>4, <2>1 DEF Reading, AskOk, Queries
<1>5. QED
  BY <1>1, <1>2, <1>3, <1>4 DEF Tables

LEMMA FindKept ==
    ASSUME RInv, TypeOK, NEW c \in Client, Find(c)
    PROVE  RInv'
<1> DEFINE old == reads[c]
<1>1. old \in Readings /\ Reading(old, db) /\ old.at = "find"
  BY DEF RInv, ReadsTypeOK, Find
<1>2. PICK xs \in PagesOf(db, old.ask, old.pg) :
          Becomes(c, [old EXCEPT !.at = Preload[old.ask.table], !.items = xs,
                          !.shown = RowsIn(db, old.ask.table, xs),
                          !.met = @ \cup xs, !.again = @ \/ xs \cap old.met # {}])
  BY DEF Find
<1> DEFINE rd == [old EXCEPT !.at = Preload[old.ask.table], !.items = xs,
                      !.shown = RowsIn(db, old.ask.table, xs),
                      !.met = @ \cup xs, !.again = @ \/ xs \cap old.met # {}]
<1>3. Becomes(c, rd)
  BY <1>2
<1> HIDE DEF old
<1>4. old.ask \in Lists /\ old.held \subseteq Parts(db, old.ask.table)
  BY <1>1 DEF Reading, AskOk
<1>5. xs \subseteq Int /\ RowsIn(db, old.ask.table, xs) \subseteq Facts
  BY <1>4, AskTypes, FactTypes, MatchTypes DEF TypeOK
<1>6. /\ rd.ask = old.ask /\ rd.at = Preload[rd.ask.table] /\ rd.held = old.held
  BY <1>1 DEF Readings
<1>7. Reading(rd, db) /\ rd.at \in Queries \cup {"done"}
  BY <1>4, <1>6, FoundReading
<1>8. rd \in Readings
  BY <1>1, <1>5, <1>7 DEF Readings
<1>9. QED
  BY <1>3, <1>7, <1>8, BecomesKept

LEMMA FindOneKept ==
    ASSUME RInv, TypeOK, NEW c \in Client, FindOne(c)
    PROVE  RInv'
<1> DEFINE old == reads[c]
           rd == [old EXCEPT !.at = Preload[old.ask.table], !.items = {old.ask.id},
                      !.shown = RowsIn(db, old.ask.table, {old.ask.id})]
<1>1. old \in Readings /\ Reading(old, db) /\ old.at = "first"
  BY DEF RInv, ReadsTypeOK, FindOne
<1>2. Becomes(c, rd) \/ Becomes(c, NoRead)
  BY DEF FindOne
<1> HIDE DEF old
<1>3. CASE Becomes(c, NoRead)
  BY <1>3, NoReadType, BecomesKept
<1>4. CASE Becomes(c, rd)
  <2>1. old.ask \in Gets /\ old.held \subseteq Parts(db, old.ask.table)
    BY <1>1 DEF Reading, AskOk
  <2>2. old.ask.id \in Int /\ RowsIn(db, old.ask.table, {old.ask.id}) \subseteq Facts
    BY <2>1, AskTypes, FactTypes, ReadsAssumption DEF TypeOK, GetRequest
  <2>3. rd.ask = old.ask /\ rd.at = Preload[rd.ask.table] /\ rd.held = old.held
    BY <1>1 DEF Readings
  <2>4. Reading(rd, db) /\ rd.at \in Queries \cup {"done"}
    BY <2>1, <2>3, FoundReading
  <2>5. rd \in Readings
    BY <1>1, <2>2, <2>4 DEF Readings
  <2>6. QED
    BY <1>4, <2>4, <2>5, BecomesKept
<1>5. QED
  BY <1>2, <1>3, <1>4

(* The links held are among those of now, and so are their books. *)
LEMMA HeldLinks ==
    ASSUME TypeOK, Integrity, NEW l, NEW b \in BookId, NEW table,
           <<"link", l, b>> \in Parts(db, table)
    PROVE  /\ l \in LibraryId /\ b \in db.links[l]
           /\ b \in Present(db.books) /\ db.books[b] \in BookRow
<1>1. <<"link", l, b>> \in LinksIn(db, LibraryId)
  BY DEF Parts, BooksIn, AuthorsIn
<1>2. l \in LibraryId /\ b \in db.links[l]
  BY <1>1 DEF LinksIn, LinkFacts
<1>3. b \in Present(db.books)
  BY <1>2 DEF Integrity, DbIntegrity, LinksHaveEnds
<1>4. db.books[b] \in BookRow
  BY <1>3 DEF TypeOK, Database, BookSlice, Present
<1>5. QED
  BY <1>2, <1>3, <1>4

(* So are the books held, with their authors. *)
LEMMA HeldBooks ==
    ASSUME TypeOK, Integrity, NEW table, NEW f \in BookFacts \cap Parts(db, table)
    PROVE  f[3].author \in AuthorId \cap Present(db.authors)
<1>1. f \in BooksIn(db, BookId)
  BY DEF Parts, AuthorsIn, LinksIn, LinkFacts, BookFacts
<1>2. f[2] \in Present(db.books) /\ f[3] = db.books[f[2]]
  BY <1>1 DEF BooksIn
<1>3. f[3].author \in Present(db.authors)
  BY <1>2 DEF Integrity, DbIntegrity, BooksHaveAuthors
<1>4. Present(db.authors) \subseteq AuthorId
  BY DEF TypeOK, Database, Present
<1>5. QED
  BY <1>3, <1>4

LEMMA JoinsKept ==
    ASSUME RInv, TypeOK, Integrity, NEW c \in Client, PreloadJoins(c)
    PROVE  RInv'
<1> DEFINE old == reads[c]
           rd == [old EXCEPT !.at = "books",
                      !.shown = @ \cup LinksIn(db, old.items)]
<1>1. old \in Readings /\ Reading(old, db) /\ old.at = "joins"
  BY DEF RInv, ReadsTypeOK, PreloadJoins
<1>2. Becomes(c, rd)
  BY DEF PreloadJoins
<1> HIDE DEF old
<1>3. /\ old.ask \in Lists \cup Gets /\ old.ask.table = "libraries"
      /\ old.held \subseteq Parts(db, old.ask.table)
  BY <1>1 DEF Reading, AskOk
<1>4. LinksIn(db, old.items) \subseteq Facts
  BY <1>3, AskTypes, FactTypes DEF TypeOK, Facts
<1>5. /\ rd.ask = old.ask /\ rd.at = "books" /\ rd.held = old.held
      /\ rd.items = old.items /\ rd.shown = old.shown \cup LinksIn(db, old.items)
  BY <1>1 DEF Readings
<1>6. rd \in Readings
  BY <1>1, <1>4 DEF Readings, Queries
<1>7. LinksShown(rd)
  <2>1. SUFFICES ASSUME NEW l \in old.items, NEW b \in BookId,
                        <<"link", l, b>> \in old.held
                 PROVE  <<"link", l, b>> \in LinksIn(db, old.items)
    BY <1>5 DEF LinksShown
  <2>2. l \in LibraryId /\ b \in db.links[l]
    BY <1>3, <2>1, HeldLinks
  <2>3. QED
    BY <2>1, <2>2 DEF LinksIn, LinkFacts
<1> HIDE DEF rd
<1>8. Reading(rd, db)
  BY <1>3, <1>5, <1>7 DEF Reading, AskOk
<1>9. QED
  BY <1>2, <1>6, <1>8, BecomesKept

LEMMA BooksKept ==
    ASSUME RInv, TypeOK, Integrity, NEW c \in Client, PreloadBooks(c)
    PROVE  RInv'
<1> DEFINE old == reads[c]
           rd == [old EXCEPT !.at = "authors",
                      !.shown = @ \cup BooksIn(db, LinkedBooks(@))]
<1>1. old \in Readings /\ Reading(old, db) /\ old.at = "books"
  BY DEF RInv, ReadsTypeOK, PreloadBooks
<1>2. Becomes(c, rd)
  BY DEF PreloadBooks
<1> HIDE DEF old
<1>3. /\ old.ask \in Lists \cup Gets /\ LinksShown(old)
      /\ old.held \subseteq Parts(db, old.ask.table)
  BY <1>1 DEF Reading, AskOk
<1>4. BooksIn(db, LinkedBooks(old.shown)) \subseteq Facts
  BY <1>3, AskTypes, FactTypes DEF TypeOK, Facts
<1>5. /\ rd.ask = old.ask /\ rd.at = "authors" /\ rd.held = old.held
      /\ rd.items = old.items
      /\ rd.shown = old.shown \cup BooksIn(db, LinkedBooks(old.shown))
  BY <1>1 DEF Readings
<1>6. rd \in Readings
  BY <1>1, <1>4 DEF Readings, Queries
<1> HIDE DEF rd
<1>7. LinksShown(rd)
  BY <1>3, <1>5 DEF LinksShown
<1>8. BooksShown(rd)
  <2>1. SUFFICES ASSUME NEW l \in old.items, NEW b \in BookId,
                        <<"link", l, b>> \in old.held
                 PROVE  \E row \in BookRow : <<"book", b, row>> \in rd.shown
    BY <1>5 DEF BooksShown
  <2>2. l \in LibraryId /\ b \in Present(db.books) /\ db.books[b] \in BookRow
    BY <1>3, <2>1, HeldLinks
  <2>3. b \in LinkedBooks(old.shown)
    <3>1. <<"link", l, b>> \in old.shown \cap LinkFacts
      BY <1>3, <2>1, <2>2 DEF LinksShown, LinkFacts
    <3>2. <<"link", l, b>>[3] = b
      OBVIOUS
    <3>3. QED
      BY <3>1, <3>2 DEF LinkedBooks
  <2>4. <<"book", b, db.books[b]>> \in BooksIn(db, LinkedBooks(old.shown))
    BY <2>2, <2>3 DEF BooksIn
  <2>5. QED
    BY <1>5, <2>2, <2>4
<1>9. Reading(rd, db)
  BY <1>3, <1>5, <1>7, <1>8 DEF Reading, AskOk
<1>10. QED
  BY <1>2, <1>6, <1>9, BecomesKept

LEMMA AuthorsKept ==
    ASSUME RInv, TypeOK, Integrity, NEW c \in Client, PreloadAuthors(c)
    PROVE  RInv'
<1> DEFINE old == reads[c]
           rd == [old EXCEPT !.at = "done",
                      !.shown = @ \cup AuthorsIn(db, AuthorsOf(@))]
<1>1. old \in Readings /\ Reading(old, db) /\ old.at = "authors"
  BY DEF RInv, ReadsTypeOK, PreloadAuthors
<1>2. Becomes(c, rd)
  BY DEF PreloadAuthors
<1> HIDE DEF old
<1>3. /\ old.ask \in Lists \cup Gets /\ LinksShown(old) /\ BooksShown(old)
      /\ old.held \subseteq Parts(db, old.ask.table)
  BY <1>1 DEF Reading, AskOk
<1>4. AuthorsIn(db, AuthorsOf(old.shown)) \subseteq AuthorFacts
  BY <1>3, AskTypes, FactTypes DEF TypeOK
<1>5. /\ rd.ask = old.ask /\ rd.at = "done" /\ rd.held = old.held
      /\ rd.items = old.items
      /\ rd.shown = old.shown \cup AuthorsIn(db, AuthorsOf(old.shown))
  BY <1>1 DEF Readings
<1>6. rd \in Readings
  BY <1>1, <1>4 DEF Readings, Queries, Facts
<1> HIDE DEF rd
<1>7. LinksShown(rd) /\ BooksShown(rd)
  BY <1>3, <1>5 DEF LinksShown, BooksShown
<1>8. AuthorsShown(rd)
  <2>1. SUFFICES ASSUME NEW f \in rd.shown \cap old.held \cap BookFacts
                 PROVE  \E row \in AuthorRow :
                            <<"author", f[3].author, row>> \in rd.shown
    BY <1>5 DEF AuthorsShown
  <2>2. f[3].author \in AuthorId \cap Present(db.authors)
    BY <1>3, HeldBooks
  <2>3. f \notin AuthorsIn(db, AuthorsOf(old.shown))
    BY DEF AuthorsIn, BookFacts
  <2>4. f[3].author \in AuthorsOf(old.shown)
    BY <1>5, <2>3 DEF AuthorsOf
  <2>5. /\ db.authors[f[3].author] \in AuthorRow
        /\ <<"author", f[3].author, db.authors[f[3].author]>>
              \in AuthorsIn(db, AuthorsOf(old.shown))
    BY <2>2, <2>4 DEF AuthorsIn, TypeOK, Database, Present
  <2>6. QED
    BY <1>5, <2>5
<1>9. Reading(rd, db)
  BY <1>3, <1>5, <1>7, <1>8 DEF Reading, AskOk
<1>10. QED
  BY <1>2, <1>6, <1>9, BecomesKept

LEMMA NextPageKept ==
    ASSUME RInv, TypeOK, NEW c \in Client, NextPage(c)
    PROVE  RInv'
<1> DEFINE old == reads[c]
           rd == [old EXCEPT !.at = "count",
                      !.pg = ParsePagination(old.pg.page + 1, old.ask.size),
                      !.total = 0, !.items = {}, !.shown = {},
                      !.held = Parts(db, old.ask.table)]
<1>1. old \in Readings /\ Reading(old, db) /\ old.ask \in Lists
  BY DEF RInv, ReadsTypeOK, NextPage
<1>2. Becomes(c, rd)
  BY DEF NextPage
<1> HIDE DEF old
<1>3. old.pg \in Paginations /\ old.pg.page + 1 \in Texts /\ old.ask.size \in Texts
  BY <1>1, AskTypes DEF Readings, Paginations, Texts
<1>4. ParsePagination(old.pg.page + 1, old.ask.size) \in Paginations
  BY <1>3, PaginationInRange
<1>5. Parts(db, old.ask.table) \subseteq Facts
  BY <1>1, AskTypes, FactTypes DEF TypeOK
<1>6. rd \in Readings
  BY <1>1, <1>4, <1>5 DEF Readings, Queries, Paginations
<1>7. Reading(rd, db)
  BY <1>1 DEF Reading, AskOk, Readings
<1>8. QED
  BY <1>2, <1>6, <1>7, BecomesKept

(* A write only lets go of what it changed. *)
LEMMA WriteKept ==
    ASSUME RInv, TypeOK', Watch
    PROVE  RInv'
<1>1. ASSUME NEW c \in Client
      PROVE  reads'[c] \in Readings /\ Reading(reads'[c], db')
  <2> DEFINE old == reads[c]
             kept == IF old.at = "idle" THEN {}
                     ELSE old.held \cap Parts(db', old.ask.table)
             rd == [old EXCEPT !.held = kept,
                        !.steady = @ /\ GrowsAtEnd(old.ask)]
  <2>1. old \in Readings /\ Reading(old, db)
    BY DEF RInv, ReadsTypeOK
  <2>2. reads'[c] = rd
    BY DEF Watch
  <2> HIDE DEF old
  <2>3. kept \subseteq Facts
    BY <2>1 DEF Readings
  <2>4. (old.steady /\ GrowsAtEnd(old.ask)) \in BOOLEAN
    OBVIOUS
  <2> HIDE DEF kept
  <2>5. /\ rd \in Readings
        /\ rd.at = old.at /\ rd.ask = old.ask /\ rd.items = old.items
        /\ rd.shown = old.shown /\ rd.held = kept
    BY <2>1, <2>3, <2>4 DEF Readings
  <2> HIDE DEF rd
  <2>6. kept \subseteq old.held
        /\ (old.at # "idle" => kept \subseteq Parts(db', old.ask.table))
    BY DEF kept
  <2>7. Reading(rd, db')
    BY <2>1, <2>5, <2>6
       DEF Reading, AskOk, LinksShown, BooksShown, AuthorsShown
  <2>8. QED
    BY <2>2, <2>5, <2>7
<1>2. reads' \in [Client -> Readings]
  BY <1>1 DEF Watch
<1>3. QED
  BY <1>1, <1>2 DEF RInv, ReadsTypeOK

LEMMA CrashAllKept ==
    ASSUME CrashAll
    PROVE  RInv'
BY NoReadType DEF CrashAll, RInv, ReadsTypeOK

-----------------------------------------------------------------------------
LEMMA InitRInv == ReadsInit => RInv
BY NoReadType DEF ReadsInit, RInv, ReadsTypeOK

LEMMA NextRInv ==
    ASSUME RInv, TypeOK, TypeOK', Integrity, [ReadsNext]_allVars
    PROVE  RInv'
<1>1. CASE UNCHANGED allVars
  BY <1>1 DEF allVars, vars, RInv, ReadsTypeOK
<1>2. CASE Write
  BY <1>2, WriteKept DEF Write
<1>3. CASE CrashAll
  BY <1>3, CrashAllKept
<1>4. ASSUME NEW c \in Client, Read(c) PROVE RInv'
  <2>1. CASE ReceiveList(c) \/ ReceiveGet(c)
    BY <2>1, ReceiveKept
  <2>2. CASE Count(c)
    BY <2>2, CountKept
  <2>3. CASE Find(c) \/ FindOne(c)
    BY <2>3, FindKept, FindOneKept
  <2>4. CASE PreloadJoins(c)
    BY <2>4, JoinsKept
  <2>5. CASE PreloadBooks(c)
    BY <2>5, BooksKept
  <2>6. CASE PreloadAuthors(c)
    BY <2>6, AuthorsKept
  <2>7. CASE ReadFails(c) \/ Leave(c)
    BY <2>7, NoReadType, BecomesKept DEF ReadFails, Leave
  <2>8. CASE NextPage(c)
    BY <2>8, NextPageKept
  <2>9. QED
    BY <1>4, <2>1, <2>2, <2>3, <2>4, <2>5, <2>6, <2>7, <2>8 DEF Read
<1>5. QED
  BY <1>1, <1>2, <1>3, <1>4 DEF ReadsNext

LEMMA RInvariance == ReadsSpec => []RInv
<1>1. TypeOK /\ TypeOK' /\ Integrity /\ RInv /\ [ReadsNext]_allVars => RInv'
  BY NextRInv
<1>2. QED
  BY <1>1, InitRInv, TablesAreSound, PTL DEF ReadsSpec

(* The readers' variables keep their types, beside any workload. *)
THEOREM ReadsTypeCorrect == ReadsSpec => []ReadsTypeOK
<1>1. RInv => ReadsTypeOK
  BY DEF RInv
<1>2. QED
  BY <1>1, RInvariance, PTL

(* However the queries of an answer interleave with the writers: what was  *)
(* there all the time is shown, with its parts.                            *)
THEOREM AnswersAreWhole == ReadsSpec => []ShownWithParts
<1>1. RInv => ShownWithParts
  <2>1. SUFFICES ASSUME RInv, NEW c \in Client, reads[c].at = "done"
                 PROVE  BooksShown(reads[c]) /\ AuthorsShown(reads[c])
    BY DEF ShownWithParts, BooksShown, AuthorsShown
  <2>2. QED
    BY <2>1 DEF RInv, Reading
<1>2. QED
  BY <1>1, RInvariance, PTL

-----------------------------------------------------------------------------
(***************************************************************************)
(* The order of the rows, and the pages cut from it.                       *)
(***************************************************************************)

(* The rows S come before all others. *)
Ahead(d, a, S) ==
    /\ S \subseteq Matches(d, a)
    /\ \A x \in S, y \in Matches(d, a) \ S : Before(d, a, x, y)

LEMMA RowsCounted ==
    ASSUME NEW d \in Database, NEW a \in Lists
    PROVE  /\ IsFiniteSet(Matches(d, a))
           /\ Cardinality(Matches(d, a)) \in Nat
           /\ Cardinality(Matches(d, a)) <= MaxInt
<1> DEFINE keys == AuthorId \cup BookId \cup LibraryId
<1>1. Matches(d, a) \subseteq keys
  BY AskTypes DEF Matches, Present, Database, BookSlice, Tables
<1>2. IsFiniteSet(keys) /\ Cardinality(keys) <= MaxInt
  BY ReadsAssumption
<1> HIDE DEF keys
<1>3. /\ IsFiniteSet(Matches(d, a)) /\ Cardinality(Matches(d, a)) <= Cardinality(keys)
      /\ Cardinality(keys) \in Nat /\ Cardinality(Matches(d, a)) \in Nat
  BY <1>1, <1>2, FS_Subset, FS_CardinalityType
<1>4. QED
  BY <1>2, <1>3, PaginationAssumption

LEMMA PartCounted ==
    ASSUME NEW d \in Database, NEW a \in Lists, NEW S \in SUBSET Matches(d, a)
    PROVE  /\ IsFiniteSet(S) /\ Cardinality(S) \in Nat
           /\ Cardinality(S) <= Cardinality(Matches(d, a))
BY RowsCounted, FS_Subset, FS_CardinalityType

(* The first n rows hold every set of at most n rows that are ahead.       *)
LEMMA FirstsCover ==
    ASSUME NEW d \in Database, NEW a \in Lists, NEW n \in Nat,
           NEW T \in Firsts(d, a, n), NEW S, Ahead(d, a, S), Cardinality(S) <= n
    PROVE  S \subseteq T
<1>1. /\ T \subseteq Matches(d, a)
      /\ Cardinality(T) = n \/ T = Matches(d, a)
      /\ \A x \in T, y \in Matches(d, a) \ T : ~Before(d, a, y, x)
  BY DEF Firsts
<1>2. /\ S \subseteq Matches(d, a)
      /\ \A x \in S, y \in Matches(d, a) \ S : Before(d, a, x, y)
  BY DEF Ahead
<1>3. SUFFICES ASSUME Cardinality(T) = n, NEW s \in S \ T PROVE FALSE
  BY <1>1, <1>2
<1>4. T \subseteq S
  BY <1>1, <1>2, <1>3
<1>5. IsFiniteSet(S) /\ Cardinality(S) \in Nat
  BY <1>2, PartCounted
<1>6. /\ Cardinality(T) <= Cardinality(S)
      /\ Cardinality(T) = Cardinality(S) => T = S
  BY <1>4, <1>5, FS_Subset
<1>7. Cardinality(T) = Cardinality(S)
  BY <1>3, <1>5, <1>6
<1>8. QED
  BY <1>3, <1>6, <1>7

LEMMA FirstsType ==
    ASSUME NEW d \in Database, NEW a \in Lists, NEW n \in Nat,
           NEW T \in Firsts(d, a, n)
    PROVE  /\ T \subseteq Matches(d, a) /\ IsFiniteSet(T)
           /\ Cardinality(T) \in Nat /\ Cardinality(T) <= n
           /\ \/ Cardinality(T) = n
              \/ T = Matches(d, a) /\ Cardinality(T) < n
<1>1. /\ T \subseteq Matches(d, a)
      /\ Cardinality(T) = n \/ (T = Matches(d, a) /\ Cardinality(T) < n)
  BY DEF Firsts
<1>2. QED
  BY <1>1, PartCounted

(* So there is one choice, if n rows are ahead of the others. *)
LEMMA FirstsUnique ==
    ASSUME NEW d \in Database, NEW a \in Lists, NEW n \in Nat,
           NEW T \in Firsts(d, a, n), NEW S, Ahead(d, a, S), Cardinality(S) = n
    PROVE  T = S
<1>1. S \subseteq T
  BY FirstsCover
<1>2. IsFiniteSet(T) /\ Cardinality(T) \in Nat /\ Cardinality(T) <= n
  BY FirstsType
<1>3. /\ Cardinality(S) <= Cardinality(T)
      /\ Cardinality(S) = Cardinality(T) => S = T
  BY <1>1, <1>2, FS_Subset
<1>4. QED
  BY <1>2, <1>3

(* No two rows tie in a column that is unique: the key, or the name. *)
LEMMA NoTies ==
    ASSUME NEW d \in Database, DbIntegrity(d), NEW a \in Lists,
           SortField(a.field, Sortable[a.table]) # "author_id",
           NEW x \in Matches(d, a), NEW y \in Matches(d, a), x # y,
           ~Before(d, a, y, x)
    PROVE  Before(d, a, x, y)
<1> DEFINE field == SortField(a.field, Sortable[a.table])
<1>1. a.table \in Tables
  BY AskTypes
<1>2. /\ x \in Present(d[a.table]) /\ y \in Present(d[a.table])
      /\ x \in Int /\ y \in Int
  BY MatchTypes DEF Matches
<1>3. field \in {"id", "name"}
  BY <1>1 DEF SortField, Sortable, Tables
<1>4. /\ d[a.table][x].name \in Name /\ d[a.table][y].name \in Name
      /\ d[a.table][x].name = d[a.table][y].name => x = y
  <2>1. CASE a.table = "authors"
    BY <1>2, <2>1 DEF Database, Present, AuthorRow, DbIntegrity, UniqueNames
  <2>2. CASE a.table = "books"
    BY <1>2, <2>2 DEF Database, BookSlice, Present, BookRow, DbIntegrity, UniqueNames
  <2>3. CASE a.table = "libraries"
    BY <1>2, <2>3 DEF Database, Present, LibraryRow, DbIntegrity, UniqueNames
  <2>4. QED
    BY <1>1, <2>1, <2>2, <2>3 DEF Tables
<1>5. CASE field = "id"
  <2>1. SortKey(d, a, x) = x /\ SortKey(d, a, y) = y
    BY <1>5 DEF SortKey
  <2>2. QED
    BY <1>2, <2>1 DEF Before
<1>6. CASE field = "name"
  <2>1. SortKey(d, a, x) = d[a.table][x].name /\ SortKey(d, a, y) = d[a.table][y].name
    BY <1>6 DEF SortKey
  <2>2. SortKey(d, a, x) \in Int /\ SortKey(d, a, y) \in Int
    BY <1>4, <2>1, ReadsAssumption
  <2>3. SortKey(d, a, x) # SortKey(d, a, y)
    BY <1>4, <2>1
  <2>4. QED
    BY <2>2, <2>3 DEF Before
<1>7. QED
  BY <1>3, <1>5, <1>6

LEMMA FirstsAhead ==
    ASSUME NEW d \in Database, DbIntegrity(d), NEW a \in Lists,
           SortField(a.field, Sortable[a.table]) # "author_id",
           NEW n \in Nat, NEW T \in Firsts(d, a, n)
    PROVE  Ahead(d, a, T)
<1>1. /\ T \subseteq Matches(d, a)
      /\ \A x \in T, y \in Matches(d, a) \ T : ~Before(d, a, y, x)
  BY DEF Firsts
<1>2. \A x \in T, y \in Matches(d, a) \ T : Before(d, a, x, y)
  BY <1>1, NoTies
<1>3. QED
  BY <1>1, <1>2 DEF Ahead

(* What is ahead stays ahead, if rows are at most added after the others. *)
LEMMA AheadStays ==
    ASSUME NEW a, NEW S, Ahead(db, a, S), GrowsAtEnd(a)
    PROVE  Ahead(db', a, S)
BY DEF Ahead, GrowsAtEnd

-----------------------------------------------------------------------------
(***************************************************************************)
(* A walk over the pages.  While rows are at most added behind the others, *)
(* the rows of the first page's moment are ahead of all others, and so are *)
(* those that were met, page by page, if no two rows tie.                  *)
(***************************************************************************)
Found == {"joins", "books", "authors", "done"}

FromPageOne(a) ==
    /\ SortField(a.field, Sortable[a.table]) # "author_id"
    /\ ParsePagination(a.page, a.size).page = 1

NothingOld(rd) ==
    /\ rd.pg.page > TotalPages(rd.total, rd.pg.size)
    /\ (rd.pg.page - 1) * rd.pg.size <= MaxInt
    => rd.items \cap rd.start = {}

Steadily(rd, d) ==
    /\ rd.at # "idle" /\ rd.ask \in Lists
    /\ Ahead(d, rd.ask, rd.start)
    /\ rd.at = "find" => /\ Cardinality(rd.start) <= rd.total
                         /\ rd.total <= Cardinality(Matches(d, rd.ask))
    /\ rd.at \in Found => NothingOld(rd)

(* The page was full, or the last one of those counted. *)
PageMet(rd) ==
    /\ \/ Cardinality(rd.met) = rd.pg.page * rd.pg.size
       \/ rd.total <= Cardinality(rd.met)
          /\ Cardinality(rd.met) < rd.pg.page * rd.pg.size
    /\ rd.pg.page >= TotalPages(rd.total, rd.pg.size) => rd.start \subseteq rd.met

Walked(rd, d) ==
    /\ rd.again = FALSE
    /\ Ahead(d, rd.ask, rd.met)
    /\ rd.at \in {"count", "find"} =>
          Cardinality(rd.met) = (rd.pg.page - 1) * rd.pg.size
    /\ rd.at \in Found => PageMet(rd)

Walking(rd, d) ==
    /\ rd.total <= MaxInt
    /\ rd.ask \in Lists => rd.pg.size = ParsePagination(1, rd.ask.size).size
    /\ rd.steady = TRUE => Steadily(rd, d)
    /\ rd.steady = TRUE /\ FromPageOne(rd.ask) => Walked(rd, d)

WInv == \A c \in Client : Walking(reads[c], db)

LEMMA BecomesWalking ==
    ASSUME RInv, WInv, NEW c \in Client, NEW rd, Walking(rd, db), Becomes(c, rd)
    PROVE  WInv'
<1>1. db' = db /\ reads' = [reads EXCEPT ![c] = rd]
  BY DEF Becomes, vars
<1>2. ASSUME NEW q \in Client PROVE Walking(reads'[q], db')
  BY <1>1 DEF RInv, ReadsTypeOK, WInv
<1>3. QED
  BY <1>2 DEF WInv

LEMMA NoReadWalking == \A d : Walking(NoRead, d)
BY ReadsAssumption, PaginationAssumption DEF NoRead, Walking

(* The size of the pages is that of the first one. *)
LEMMA SizeStays ==
    \A p, q, size : ParsePagination(p, size).size = ParsePagination(q, size).size
BY DEF ParsePagination

LEMMA EmptyAhead == \A d, a : Ahead(d, a, {}) /\ Ahead(d, a, Matches(d, a))
BY DEF Ahead

LEMMA ReceiveWalking ==
    ASSUME RInv, WInv, NEW c \in Client, ReceiveList(c) \/ ReceiveGet(c)
    PROVE  WInv'
<1>1. CASE ReceiveList(c)
  <2>1. PICK a \in Lists :
            Becomes(c, [NoRead EXCEPT !.at = "count", !.ask = a,
                            !.pg = ParsePagination(a.page, a.size),
                            !.held = Parts(db, a.table),
                            !.start = Matches(db, a), !.steady = TRUE])
    BY <1>1 DEF ReceiveList
  <2> DEFINE rd == [NoRead EXCEPT !.at = "count", !.ask = a,
                        !.pg = ParsePagination(a.page, a.size),
                        !.held = Parts(db, a.table),
                        !.start = Matches(db, a), !.steady = TRUE]
  <2>2. /\ rd.at = "count" /\ rd.ask = a /\ rd.pg = ParsePagination(a.page, a.size)
        /\ rd.total = 0 /\ rd.start = Matches(db, a) /\ rd.met = {}
        /\ rd.again = FALSE
    BY DEF NoRead
  <2>3. Becomes(c, rd)
    BY <2>1
  <2> HIDE DEF rd
  <2>4. rd.pg \in Paginations
    BY <2>2, AskTypes, PaginationInRange
  <2>5. Steadily(rd, db)
    BY <2>2, EmptyAhead DEF Steadily, Found
  <2>6. FromPageOne(a) => Walked(rd, db)
    <3>1. Cardinality({}) = 0
      BY FS_EmptySet
    <3>2. rd.pg.size \in Nat /\ 0 = (1 - 1) * rd.pg.size
      BY <2>4, PaginationAssumption DEF Paginations
    <3>3. QED
      BY <2>2, <3>1, <3>2, EmptyAhead DEF FromPageOne, Walked, Found
  <2>7. Walking(rd, db)
    BY <2>2, <2>5, <2>6, SizeStays, PaginationAssumption DEF Walking
  <2>8. QED
    BY <2>3, <2>7, BecomesWalking
<1>2. CASE ReceiveGet(c)
  <2>1. PICK a \in Gets :
            Becomes(c, [NoRead EXCEPT !.at = "first", !.ask = a,
                            !.held = Parts(db, a.table)])
    BY <1>2 DEF ReceiveGet
  <2> DEFINE rd == [NoRead EXCEPT !.at = "first", !.ask = a,
                        !.held = Parts(db, a.table)]
  <2>2. rd.ask = a /\ rd.steady = FALSE /\ rd.total = 0 /\ a \notin Lists
    BY ReadsAssumption DEF NoRead
  <2>3. Walking(rd, db)
    BY <2>2, PaginationAssumption DEF Walking
  <2>4. QED
    BY <2>1, <2>3, BecomesWalking
<1>3. QED
  BY <1>1, <1>2

LEMMA CountWalking ==
    ASSUME RInv, WInv, TypeOK, NEW c \in Client, Count(c)
    PROVE  WInv'
<1> DEFINE old == reads[c]
           rd == [old EXCEPT !.at = "find", !.total = Cardinality(Matches(db, old.ask))]
<1>1. old \in Readings /\ Reading(old, db) /\ Walking(old, db) /\ old.at = "count"
  BY DEF RInv, ReadsTypeOK, WInv, Count
<1>2. Becomes(c, rd)
  BY DEF Count
<1> HIDE DEF old
<1>3. /\ rd.at = "find" /\ rd.total = Cardinality(Matches(db, old.ask))
      /\ rd.ask = old.ask /\ rd.pg = old.pg /\ rd.start = old.start
      /\ rd.met = old.met /\ rd.again = old.again /\ rd.steady = old.steady
  BY <1>1 DEF Readings
<1> HIDE DEF rd
<1>4. db \in Database /\ old.ask \in Lists
  BY <1>1 DEF TypeOK, Reading, AskOk
<1>5. rd.total \in Nat /\ rd.total <= MaxInt
  BY <1>3, <1>4, RowsCounted
<1>6. old.steady = TRUE => Steadily(rd, db)
  <2> SUFFICES ASSUME old.steady = TRUE PROVE Steadily(rd, db)
    OBVIOUS
  <2>1. Ahead(db, old.ask, old.start)
    BY <1>1 DEF Walking, Steadily
  <2>2. Cardinality(old.start) <= rd.total
    BY <1>3, <1>4, <2>1, PartCounted DEF Ahead
  <2>3. QED
    BY <1>3, <1>4, <1>5, <2>1, <2>2 DEF Steadily, Found
<1>7. old.steady = TRUE /\ FromPageOne(old.ask) => Walked(rd, db)
  BY <1>1, <1>3 DEF Walking, Walked, Found
<1>8. Walking(rd, db)
  BY <1>1, <1>3, <1>5, <1>6, <1>7 DEF Walking
<1>9. QED
  BY <1>2, <1>8, BecomesWalking

(* The queries after Find change nothing that the walk counts on. *)
LEMMA PartsWalking ==
    ASSUME NEW old, NEW rd, NEW d, Walking(old, d), old.at \in Found, rd.at \in Found,
           rd.ask = old.ask, rd.pg = old.pg, rd.total = old.total,
           rd.items = old.items, rd.start = old.start, rd.met = old.met,
           rd.again = old.again, rd.steady = old.steady
    PROVE  Walking(rd, d)
<1>1. old.steady = TRUE => Steadily(rd, d)
  BY DEF Walking, Steadily, NothingOld, Found
<1>2. old.steady = TRUE /\ FromPageOne(old.ask) => Walked(rd, d)
  BY DEF Walking, Walked, PageMet, Found
<1>3. QED
  BY <1>1, <1>2 DEF Walking

LEMMA PreloadWalking ==
    ASSUME RInv, WInv, NEW c \in Client,
           PreloadJoins(c) \/ PreloadBooks(c) \/ PreloadAuthors(c)
    PROVE  WInv'
<1> DEFINE old == reads[c]
<1>1. old \in Readings /\ Walking(old, db) /\ old.at \in Found
  BY DEF RInv, ReadsTypeOK, WInv, PreloadJoins, PreloadBooks, PreloadAuthors, Found
<1>2. PICK at \in Found :
         \E facts : Becomes(c, [old EXCEPT !.at = at, !.shown = facts])
  BY DEF PreloadJoins, PreloadBooks, PreloadAuthors, Found
<1> HIDE DEF old
<1>3. PICK facts : Becomes(c, [old EXCEPT !.at = at, !.shown = facts])
  BY <1>2
<1>4. Walking([old EXCEPT !.at = at, !.shown = facts], db)
  <2> DEFINE rd == [old EXCEPT !.at = at, !.shown = facts]
  <2>1. /\ rd.at \in Found
        /\ rd.ask = old.ask /\ rd.pg = old.pg /\ rd.total = old.total
        /\ rd.items = old.items /\ rd.start = old.start /\ rd.met = old.met
        /\ rd.again = old.again /\ rd.steady = old.steady
    BY <1>1 DEF Readings
  <2> HIDE DEF rd
  <2>2. Walking(rd, db)
    BY <1>1, <2>1, PartsWalking
  <2>3. QED
    BY <2>2 DEF rd
<1>5. QED
  BY <1>3, <1>4, BecomesWalking

LEMMA SkippedType ==
    ASSUME NEW pg \in Paginations
    PROVE  /\ Skipped(pg) \in Nat
           /\ pg.page \in Nat \ {0} /\ pg.size \in Nat \ {0}
           /\ (pg.page - 1) * pg.size \in Nat /\ pg.page * pg.size \in Nat
           /\ (pg.page - 1) * pg.size + pg.size = pg.page * pg.size
<1>1. pg.page \in Nat \ {0} /\ pg.size \in Nat \ {0} /\ pg.page - 1 \in Nat
  BY PaginationAssumption DEF Paginations
<1>2. (pg.page - 1) * pg.size \in Nat /\ pg.page * pg.size \in Nat
  BY <1>1, ProductType
<1>3. (pg.page - 1) * pg.size + pg.size = pg.page * pg.size
  BY <1>1
<1>4. Skipped(pg) \in Nat
  <2>1. MinInt \in Int /\ Words \in Nat \ {0}
    BY PaginationAssumption DEF MinInt, Words
  <2>2. (pg.page - 1) * pg.size - MinInt \in Int
    BY <1>2, <2>1
  <2>3. Offset(pg) \in Int
    BY <2>1, <2>2 DEF Offset, Wrap
  <2>4. QED
    BY <2>3 DEF Skipped
<1>5. QED
  BY <1>1, <1>2, <1>3, <1>4

(* A page behind the last one skips at least the rows that were counted. *)
LEMMA DeepSkips ==
    ASSUME NEW pg \in Paginations, NEW total \in Nat,
           pg.page > TotalPages(total, pg.size),
           (pg.page - 1) * pg.size <= MaxInt
    PROVE  total <= Skipped(pg)
<1> DEFINE pages == TotalPages(total, pg.size)
<1>1. pg.page \in Nat /\ pg.size \in Nat \ {0}
  BY SkippedType
<1>2. pages \in Nat /\ total <= pages * pg.size
  BY <1>1, TotalPagesIsCeiling
<1> HIDE DEF pages
<1>3. pages <= pg.page - 1
  BY <1>1, <1>2 DEF pages
<1>4. pages * pg.size <= (pg.page - 1) * pg.size
  BY <1>1, <1>2, <1>3, Monotone
<1>5. Skipped(pg) = (pg.page - 1) * pg.size
  BY OffsetIsExact
<1>6. pages * pg.size \in Nat /\ Skipped(pg) \in Nat
  BY <1>1, <1>2, ProductType, SkippedType
<1>7. QED
  BY <1>2, <1>4, <1>5, <1>6

(* The last page ends behind the rows that were counted. *)
LEMMA LastPageEnds ==
    ASSUME NEW pg \in Paginations, NEW total \in Nat,
           pg.page >= TotalPages(total, pg.size)
    PROVE  total <= pg.page * pg.size
<1> DEFINE pages == TotalPages(total, pg.size)
<1>1. /\ pg.page \in Nat /\ pg.size \in Nat \ {0}
      /\ pg.page * pg.size \in Nat
  BY SkippedType
<1>2. pages \in Nat /\ total <= pages * pg.size
  BY <1>1, TotalPagesIsCeiling
<1> HIDE DEF pages
<1>3. pages * pg.size <= pg.page * pg.size
  BY <1>1, <1>2, Monotone DEF pages
<1>4. pages * pg.size \in Nat
  BY <1>1, <1>2, ProductType
<1>5. QED
  BY <1>1, <1>2, <1>3, <1>4

LEMMA FindWalking ==
    ASSUME RInv, WInv, TypeOK, Integrity, NEW c \in Client, Find(c)
    PROVE  WInv'
<1> DEFINE old == reads[c]
<1>1. old \in Readings /\ Reading(old, db) /\ Walking(old, db) /\ old.at = "find"
  BY DEF RInv, ReadsTypeOK, WInv, Find
<1>2. PICK xs \in PagesOf(db, old.ask, old.pg) :
          Becomes(c, [old EXCEPT !.at = Preload[old.ask.table], !.items = xs,
                          !.shown = RowsIn(db, old.ask.table, xs),
                          !.met = @ \cup xs, !.again = @ \/ xs \cap old.met # {}])
  BY DEF Find
<1> DEFINE rd == [old EXCEPT !.at = Preload[old.ask.table], !.items = xs,
                      !.shown = RowsIn(db, old.ask.table, xs),
                      !.met = @ \cup xs, !.again = @ \/ xs \cap old.met # {}]
<1>3. Becomes(c, rd)
  BY <1>2
<1> HIDE DEF old
<1>4. /\ rd.at = Preload[old.ask.table] /\ rd.items = xs
      /\ rd.met = old.met \cup xs
      /\ rd.again = (old.again \/ xs \cap old.met # {})
      /\ rd.ask = old.ask /\ rd.pg = old.pg /\ rd.total = old.total
      /\ rd.start = old.start /\ rd.steady = old.steady
  BY <1>1 DEF Readings
<1> HIDE DEF rd
<1> DEFINE a == old.ask
           pg == old.pg
           skip == Skipped(pg)
<1>5. /\ a \in Lists /\ db \in Database /\ DbIntegrity(db)
      /\ pg \in Paginations /\ old.total \in Nat
  BY <1>1 DEF TypeOK, Integrity, Reading, AskOk, Readings, Paginations
<1>6. rd.at \in Found
  BY <1>4, <1>5, AskTypes DEF Preload, Found, Tables
<1>7. /\ skip \in Nat /\ pg.page \in Nat \ {0} /\ pg.size \in Nat \ {0}
      /\ (pg.page - 1) * pg.size \in Nat /\ pg.page * pg.size \in Nat
      /\ (pg.page - 1) * pg.size + pg.size = pg.page * pg.size
  BY <1>5, SkippedType
<1>8. PICK S \in Firsts(db, a, skip), T \in Firsts(db, a, skip + pg.size) :
          S \subseteq T /\ xs = T \ S
  BY DEF PagesOf
<1> HIDE DEF a, pg, skip
<1>9. ASSUME old.steady = TRUE
      PROVE  Ahead(db, a, old.start) /\ Cardinality(old.start) \in Nat
             /\ Cardinality(old.start) <= old.total
             /\ old.total <= Cardinality(Matches(db, a))
  <2>1. Steadily(old, db)
    BY <1>1, <1>9 DEF Walking
  <2>2. Ahead(db, a, old.start) /\ Cardinality(old.start) <= old.total
        /\ old.total <= Cardinality(Matches(db, a))
    BY <1>1, <2>1 DEF Steadily, a
  <2>3. QED
    BY <1>5, <2>2, PartCounted DEF Ahead
<1>10. ASSUME old.steady = TRUE PROVE Steadily(rd, db)
  <2>1. ASSUME pg.page > TotalPages(old.total, pg.size),
               (pg.page - 1) * pg.size <= MaxInt
        PROVE  xs \cap old.start = {}
    <3>1. old.total <= skip
      BY <1>5, <2>1, DeepSkips DEF skip
    <3>2. Cardinality(old.start) <= skip
      <4>1. Cardinality(old.start) \in Nat /\ Cardinality(old.start) <= old.total
        BY <1>9, <1>10
      <4>2. old.total \in Nat /\ skip \in Nat
        BY <1>5, <1>7
      <4>3. QED
        BY <3>1, <4>1, <4>2
    <3>3. old.start \subseteq S
      BY <1>5, <1>7, <1>8, <1>9, <1>10, <3>2, FirstsCover
    <3>4. QED
      BY <1>8, <3>3
  <2>2. NothingOld(rd)
    BY <1>4, <2>1 DEF NothingOld, pg
  <2>3. QED
    BY <1>4, <1>5, <1>6, <1>9, <1>10, <2>2 DEF Steadily, Found, a
<1>11. ASSUME old.steady = TRUE, FromPageOne(a) PROVE Walked(rd, db)
  <2>1. /\ old.again = FALSE /\ Ahead(db, a, old.met)
        /\ Cardinality(old.met) = (pg.page - 1) * pg.size
    BY <1>1, <1>11 DEF Walking, Walked, a, pg
  <2>2. (pg.page - 1) * pg.size <= MaxInt
    <3>1. /\ Cardinality(old.met) <= Cardinality(Matches(db, a))
          /\ Cardinality(Matches(db, a)) \in Nat
          /\ Cardinality(Matches(db, a)) <= MaxInt
      BY <1>5, <2>1, PartCounted, RowsCounted DEF Ahead
    <3>2. QED
      BY <1>7, <2>1, <3>1, PaginationAssumption
  <2>3. skip = (pg.page - 1) * pg.size
    BY <1>5, <2>2, OffsetIsExact DEF skip
  <2>4. S = old.met
    BY <1>5, <1>7, <1>8, <2>1, <2>3, FirstsUnique
  <2>5. rd.met = T /\ rd.again = FALSE
    BY <1>4, <1>8, <2>1, <2>4
  <2>6. skip + pg.size = pg.page * pg.size
    BY <1>7, <2>3
  <2>7. T \in Firsts(db, a, pg.page * pg.size)
    BY <1>8, <2>6
  <2>8. Ahead(db, a, T)
    BY <1>5, <1>7, <1>11, <2>7, FirstsAhead DEF FromPageOne
  <2>9. \/ Cardinality(T) = pg.page * pg.size
        \/ T = Matches(db, a) /\ Cardinality(T) < pg.page * pg.size
    BY <1>5, <1>7, <2>7, FirstsType
  <2>10. ASSUME pg.page >= TotalPages(old.total, pg.size)
         PROVE  old.start \subseteq T
    <3>1. old.total <= pg.page * pg.size
      BY <1>5, <2>10, LastPageEnds
    <3>2. /\ Cardinality(old.start) \in Nat /\ Cardinality(old.start) <= old.total
          /\ Ahead(db, a, old.start)
      BY <1>9, <1>11
    <3>3. old.total \in Nat /\ pg.page * pg.size \in Nat
      BY <1>5, <1>7
    <3>4. Cardinality(old.start) <= pg.page * pg.size
      BY <3>1, <3>2, <3>3
    <3>5. QED
      BY <1>5, <2>7, <3>2, <3>3, <3>4, FirstsCover
  <2>11. PageMet(rd)
    BY <1>4, <1>9, <1>11, <2>5, <2>9, <2>10 DEF PageMet, pg
  <2>12. QED
    BY <1>4, <1>6, <2>5, <2>8, <2>11 DEF Walked, Found, a
<1>12. Walking(rd, db)
  BY <1>1, <1>4, <1>10, <1>11 DEF Walking, a
<1>13. QED
  BY <1>3, <1>12, BecomesWalking

LEMMA FindOneWalking ==
    ASSUME RInv, WInv, NEW c \in Client, FindOne(c)
    PROVE  WInv'
<1> DEFINE old == reads[c]
           rd == [old EXCEPT !.at = Preload[old.ask.table], !.items = {old.ask.id},
                      !.shown = RowsIn(db, old.ask.table, {old.ask.id})]
<1>1. old \in Readings /\ Reading(old, db) /\ Walking(old, db) /\ old.at = "first"
  BY DEF RInv, ReadsTypeOK, WInv, FindOne
<1>2. Becomes(c, rd) \/ Becomes(c, NoRead)
  BY DEF FindOne
<1> HIDE DEF old
<1>3. rd.ask = old.ask /\ rd.steady = old.steady /\ rd.total = old.total
  BY <1>1 DEF Readings
<1>4. old.ask \notin Lists
  BY <1>1, ReadsAssumption DEF Reading, AskOk
<1>5. old.steady # TRUE
  BY <1>1, <1>4 DEF Walking, Steadily
<1> HIDE DEF rd
<1>6. Walking(rd, db)
  BY <1>1, <1>3, <1>4, <1>5 DEF Walking
<1>7. QED
  BY <1>2, <1>6, NoReadWalking, BecomesWalking

LEMMA NextPageWalking ==
    ASSUME RInv, WInv, TypeOK, NEW c \in Client, NextPage(c)
    PROVE  WInv'
<1> DEFINE old == reads[c]
           rd == [old EXCEPT !.at = "count",
                      !.pg = ParsePagination(old.pg.page + 1, old.ask.size),
                      !.total = 0, !.items = {}, !.shown = {},
                      !.held = Parts(db, old.ask.table)]
<1>1. /\ old \in Readings /\ Walking(old, db) /\ old.at = "done"
      /\ old.ask \in Lists /\ old.pg.page < TotalPages(old.total, old.pg.size)
  BY DEF RInv, ReadsTypeOK, WInv, NextPage
<1>2. Becomes(c, rd)
  BY DEF NextPage
<1> HIDE DEF old
<1>3. /\ rd.at = "count" /\ rd.ask = old.ask /\ rd.total = 0
      /\ rd.pg = ParsePagination(old.pg.page + 1, old.ask.size)
      /\ rd.start = old.start /\ rd.met = old.met /\ rd.again = old.again
      /\ rd.steady = old.steady
  BY <1>1 DEF Readings
<1> HIDE DEF rd
<1> DEFINE page == old.pg.page
           size == old.pg.size
           pages == TotalPages(old.total, size)
<1>4. /\ old.pg \in Paginations /\ old.total \in Nat
      /\ page \in Nat \ {0} /\ size \in Nat \ {0} /\ page * size \in Nat
  BY <1>1, SkippedType DEF Readings, Paginations
<1> HIDE DEF page, size
<1>5. pages \in Nat /\ (old.total > 0 => (pages - 1) * size < old.total)
      /\ (old.total = 0 => pages = 0)
  BY <1>4, TotalPagesIsCeiling DEF TotalPages
<1> HIDE DEF pages
<1>6. page < pages
  BY <1>1 DEF page, size, pages
<1>7. page * size < old.total
  <2>1. page <= pages - 1 /\ old.total > 0
    BY <1>4, <1>5, <1>6
  <2>2. page * size <= (pages - 1) * size
    BY <1>4, <1>5, <2>1, Monotone
  <2>3. (pages - 1) * size \in Int
    BY <1>4, <1>5
  <2>4. QED
    BY <1>4, <1>5, <2>1, <2>2, <2>3
<1>8. page + 1 <= MaxInt
  <2>1. page <= page * size
    <3>1. 1 * page <= size * page
      BY <1>4, Monotone
    <3>2. size * page = page * size /\ 1 * page = page
      BY <1>4
    <3>3. QED
      BY <3>1, <3>2
  <2>2. old.total <= MaxInt
    BY <1>1 DEF Walking
  <2>3. QED
    BY <1>4, <1>7, <2>1, <2>2, PaginationAssumption
<1>9. rd.pg.page = page + 1 /\ rd.pg.size = size
  <2>1. ParsePagination(page + 1, old.ask.size).page = page + 1
    BY <1>4, <1>8, PaginationAssumption DEF ParsePagination, Atoi, MinInt
  <2>2. size = ParsePagination(1, old.ask.size).size
    BY <1>1 DEF Walking, size
  <2>3. QED
    BY <1>3, <2>1, <2>2, SizeStays DEF page
<1>10. old.steady = TRUE => Steadily(rd, db)
  BY <1>1, <1>3 DEF Walking, Steadily, Found
<1>11. ASSUME old.steady = TRUE, FromPageOne(old.ask) PROVE Walked(rd, db)
  <2>1. /\ old.again = FALSE /\ Ahead(db, old.ask, old.met)
        /\ PageMet(old)
    BY <1>1, <1>11 DEF Walking, Walked, Found
  <2>2. \/ Cardinality(old.met) = page * size
        \/ old.total <= Cardinality(old.met) /\ Cardinality(old.met) < page * size
    BY <2>1 DEF PageMet, page, size
  <2>3. old.met \subseteq Matches(db, old.ask)
    BY <2>1 DEF Ahead
  <2>4. Cardinality(old.met) = page * size
    <3>1. ~(old.total <= Cardinality(old.met) /\ Cardinality(old.met) < page * size)
      <4>1. Cardinality(old.met) \in Nat
        BY <1>1, <2>3, PartCounted DEF TypeOK
      <4>2. old.total \in Nat /\ page * size \in Nat
        BY <1>4
      <4>3. QED
        BY <1>7, <4>1, <4>2
    <3>2. QED
      BY <2>2, <3>1
  <2>5. Cardinality(rd.met) = (rd.pg.page - 1) * rd.pg.size
    BY <1>3, <1>4, <1>9, <2>4
  <2>6. QED
    BY <1>3, <2>1, <2>5 DEF Walked, Found
<1>12. Walking(rd, db)
  <2>1. rd.pg.size = ParsePagination(1, old.ask.size).size
    BY <1>1, <1>9 DEF Walking, size
  <2>2. rd.total <= MaxInt
    BY <1>3, PaginationAssumption
  <2>3. QED
    BY <1>3, <1>10, <1>11, <2>1, <2>2 DEF Walking
<1>13. QED
  BY <1>2, <1>12, BecomesWalking

LEMMA WriteWalking ==
    ASSUME RInv, WInv, TypeOK, TypeOK', Watch
    PROVE  WInv'
<1> SUFFICES ASSUME NEW c \in Client PROVE Walking(reads'[c], db')
  BY DEF WInv
<1> DEFINE old == reads[c]
           kept == IF old.at = "idle" THEN {}
                   ELSE old.held \cap Parts(db', old.ask.table)
           rd == [old EXCEPT !.held = kept,
                      !.steady = @ /\ GrowsAtEnd(old.ask)]
<1>1. old \in Readings /\ Walking(old, db)
  BY DEF RInv, ReadsTypeOK, WInv
<1>2. reads'[c] = rd
  BY DEF Watch
<1> HIDE DEF old, kept
<1>3. /\ rd.at = old.at /\ rd.ask = old.ask /\ rd.pg = old.pg
      /\ rd.total = old.total /\ rd.items = old.items /\ rd.start = old.start
      /\ rd.met = old.met /\ rd.again = old.again
      /\ rd.steady = (old.steady /\ GrowsAtEnd(old.ask))
  BY <1>1 DEF Readings
<1> HIDE DEF rd
<1>4. rd.steady = TRUE => old.steady = TRUE /\ GrowsAtEnd(old.ask)
  BY <1>1, <1>3 DEF Readings
<1>5. ASSUME rd.steady = TRUE PROVE Steadily(rd, db')
  <2>1. Steadily(old, db) /\ GrowsAtEnd(old.ask)
    BY <1>1, <1>4, <1>5 DEF Walking
  <2>2. Ahead(db', old.ask, old.start)
    BY <2>1, AheadStays DEF Steadily
  <2>3. old.ask \in Lists /\ db \in Database /\ db' \in Database
    BY <2>1 DEF Steadily, TypeOK
  <2>4. /\ Cardinality(Matches(db, old.ask)) \in Nat
        /\ Cardinality(Matches(db', old.ask)) \in Nat
        /\ Cardinality(Matches(db, old.ask)) <= Cardinality(Matches(db', old.ask))
    <3>1. Matches(db, old.ask) \subseteq Matches(db', old.ask)
      BY <2>1 DEF GrowsAtEnd
    <3>2. IsFiniteSet(Matches(db', old.ask))
      BY <2>3, RowsCounted
    <3>3. QED
      BY <2>3, <3>1, <3>2, FS_Subset, RowsCounted
  <2>5. old.at = "find" => old.total <= Cardinality(Matches(db', old.ask))
    <3>1. old.total \in Nat
      BY <1>1 DEF Readings
    <3>2. QED
      BY <2>1, <2>4, <3>1 DEF Steadily
  <2>6. QED
    BY <1>3, <2>1, <2>2, <2>5 DEF Steadily, NothingOld
<1>6. ASSUME rd.steady = TRUE, FromPageOne(rd.ask) PROVE Walked(rd, db')
  <2>1. Walked(old, db) /\ GrowsAtEnd(old.ask)
    BY <1>1, <1>3, <1>4, <1>6 DEF Walking
  <2>2. Ahead(db', old.ask, old.met)
    BY <2>1, AheadStays DEF Walked
  <2>3. QED
    BY <1>3, <2>1, <2>2 DEF Walked, PageMet
<1>7. Walking(rd, db')
  BY <1>1, <1>3, <1>5, <1>6 DEF Walking
<1>8. QED
  BY <1>2, <1>7

-----------------------------------------------------------------------------
LEMMA InitWInv == ReadsInit => WInv
BY NoReadWalking DEF ReadsInit, WInv

LEMMA NextWInv ==
    ASSUME RInv, WInv, TypeOK, TypeOK', Integrity, [ReadsNext]_allVars
    PROVE  WInv'
<1>1. CASE UNCHANGED allVars
  BY <1>1 DEF allVars, vars, WInv
<1>2. CASE Write
  BY <1>2, WriteWalking DEF Write
<1>3. CASE CrashAll
  BY <1>3, NoReadWalking DEF CrashAll, WInv
<1>4. ASSUME NEW c \in Client, Read(c) PROVE WInv'
  <2>1. CASE ReceiveList(c) \/ ReceiveGet(c)
    BY <2>1, ReceiveWalking
  <2>2. CASE Count(c)
    BY <2>2, CountWalking
  <2>3. CASE Find(c) \/ FindOne(c)
    BY <2>3, FindWalking, FindOneWalking
  <2>4. CASE PreloadJoins(c) \/ PreloadBooks(c) \/ PreloadAuthors(c)
    BY <2>4, PreloadWalking
  <2>5. CASE ReadFails(c) \/ Leave(c)
    BY <2>5, NoReadWalking, BecomesWalking DEF ReadFails, Leave
  <2>6. CASE NextPage(c)
    BY <2>6, NextPageWalking
  <2>7. QED
    BY <1>4, <2>1, <2>2, <2>3, <2>4, <2>5, <2>6 DEF Read
<1>5. QED
  BY <1>1, <1>2, <1>3, <1>4 DEF ReadsNext

LEMMA WInvariance == ReadsSpec => []WInv
<1>1. RInv /\ WInv /\ TypeOK /\ TypeOK' /\ Integrity /\ [ReadsNext]_allVars => WInv'
  BY NextWInv
<1>2. QED
  BY <1>1, InitWInv, RInvariance, TablesAreSound, PTL DEF ReadsSpec

(* A walk from page one to the last, in an order without ties, meets every *)
(* row that was there when it began, and none twice, as long as writers    *)
(* only add rows at the end; for any number of pages and any page size.    *)
THEOREM WalksMeetAll == ReadsSpec => []WalkMeetsAll
<1>1. WInv => WalkMeetsAll
  <2> SUFFICES ASSUME WInv, NEW c \in Client,
                      reads[c].at = "done" /\ reads[c].ask \in Lists,
                      reads[c].steady, FromPageOne(reads[c].ask)
               PROVE  /\ ~reads[c].again
                      /\ OnLastPage(reads[c]) => reads[c].start \subseteq reads[c].met
    BY DEF WalkMeetsAll, FromPageOne, ParsePagination
  <2>1. Walking(reads[c], db)
    BY DEF WInv
  <2>2. Walked(reads[c], db)
    BY <2>1 DEF Walking
  <2>3. QED
    BY <2>2 DEF Walked, PageMet, OnLastPage, Found
<1>2. QED
  BY <1>1, WInvariance, PTL

(* A page behind the last one shows no row that was there when the request *)
(* came, in whatever order, as long as its offset fits into an int.        *)
THEOREM DeepPagesAreNew == ReadsSpec => []DeepPageIsNew
<1>1. WInv => DeepPageIsNew
  <2> SUFFICES ASSUME WInv, NEW c \in Client,
                      reads[c].at = "done", reads[c].steady
               PROVE  NothingOld(reads[c])
    BY DEF DeepPageIsNew, NothingOld
  <2>1. Walking(reads[c], db)
    BY DEF WInv
  <2>2. Steadily(reads[c], db)
    BY <2>1 DEF Walking
  <2>3. QED
    BY <2>2 DEF Steadily, Found
<1>2. QED
  BY <1>1, WInvariance, PTL
=============================================================================
