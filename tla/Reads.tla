-------------------------------- MODULE Reads --------------------------------
(***************************************************************************)
(* What clients read while the handlers of Catalog write: List and Get of  *)
(* authors, books and libraries, one action per SELECT.  List counts and   *)
(* then finds a page; GORM's Preload sends a query of its own for the join *)
(* rows, the books and the authors.  Each query sees the committed state   *)
(* of its moment.                                                          *)
(*                                                                         *)
(* The reloads with which Create, Update, AddBooks and RemoveBooks answer  *)
(* send the queries of Get.                                                *)
(***************************************************************************)
EXTENDS Catalog, Pagination

CONSTANTS
    Client,     \* readers, one request in flight each
    Lists,      \* the List requests clients send
    Gets,       \* the Get requests
    NoAsk       \* no request

Tables == {"authors", "books", "libraries"}

(* The sort fields of each whitelist, without the timestamps. *)
Sortable ==
    [authors |-> {"id", "name"}, books |-> {"id", "name", "author_id"},
     libraries |-> {"id", "name"}]

ListRequest ==
    [table : Tables, page : Int \cup {NoNumber}, size : Int \cup {NoNumber},
     field : STRING, asc : BOOLEAN,
     like : SUBSET Name,                    \* the names that match ?q=
     author : AuthorId \cup {NoRow}]        \* books: ?author_id=
GetRequest == [table : Tables, id : AuthorId \cup BookId \cup LibraryId]

(* Keys and names are numbers, so that they have an order; keys are of a   *)
(* fixed width, and Count has an int to count the rows in.                 *)
ASSUME ReadsAssumption ==
    /\ AuthorId \cup BookId \cup LibraryId \cup Name \subseteq Int
    /\ IsFiniteSet(AuthorId \cup BookId \cup LibraryId)
    /\ Cardinality(AuthorId \cup BookId \cup LibraryId) <= MaxInt
    /\ Lists \subseteq ListRequest /\ Gets \subseteq GetRequest
    /\ \A a \in Lists : a.author # NoRow => a.table = "books"
    /\ NoAsk \notin Lists \cup Gets /\ Lists \cap Gets = {}

VARIABLE reads      \* reads[c]: c's request, what its handler has read so
                    \* far, and what c has met on the pages before

allVars == <<vars, reads>>

(***************************************************************************)
(* at     the query sent next                                              *)
(* pg     the Pagination of a List                                         *)
(* total  what Count found                                                 *)
(* items  the keys of the rows found                                       *)
(* shown  the rows and links in the answer, as read                        *)
(* held   history: the rows and links that were there all the time since   *)
(*        the request came                                                 *)
(* start  history: the rows that matched when c asked for its first page   *)
(* met    history: the rows on the pages c has seen; again: one came twice *)
(* steady history: since then rows were at most added, after all others    *)
(***************************************************************************)
NoRead ==
    [at |-> "idle", ask |-> NoAsk, pg |-> ParsePagination(1, 1), total |-> 0,
     items |-> {}, shown |-> {}, held |-> {},
     start |-> {}, met |-> {}, again |-> FALSE, steady |-> FALSE]

Queries == {"count", "find", "first", "joins", "books", "authors"}

AuthorFacts == {"author"} \X AuthorId \X AuthorRow
BookFacts == {"book"} \X BookId \X BookRow
LibraryFacts == {"library"} \X LibraryId \X LibraryRow
LinkFacts == {"link"} \X LibraryId \X BookId
Facts == AuthorFacts \cup BookFacts \cup LibraryFacts \cup LinkFacts

Readings ==
    [at : Queries \cup {"idle", "done"}, ask : Lists \cup Gets \cup {NoAsk},
     pg : [page : 1 .. MaxInt, size : 1 .. MaxPageSize], total : Nat,
     items : SUBSET Int, shown : SUBSET Facts, held : SUBSET Facts,
     start : SUBSET Int, met : SUBSET Int, again : BOOLEAN, steady : BOOLEAN]

ReadsTypeOK == reads \in [Client -> Readings]

ReadsInit == Init /\ reads = [c \in Client |-> NoRead]

-----------------------------------------------------------------------------
(***************************************************************************)
(* SELECT.                                                                 *)
(***************************************************************************)
AuthorsIn(d, as) == {<<"author", a, d.authors[a]>> : a \in as \cap Present(d.authors)}
BooksIn(d, bs) == {<<"book", b, d.books[b]>> : b \in bs \cap Present(d.books)}
LibrariesIn(d, ls) ==
    {<<"library", l, d.libraries[l]>> : l \in ls \cap Present(d.libraries)}
LinksIn(d, ls) == {f \in LinkFacts : f[2] \in ls /\ f[3] \in d.links[f[2]]}

RowsIn(d, table, xs) ==
    CASE table = "authors" -> AuthorsIn(d, xs)
      [] table = "books" -> BooksIn(d, xs)
      [] table = "libraries" -> LibrariesIn(d, xs)

(* All that an answer about the table may show besides the rows found. *)
Parts(d, table) ==
    (IF table = "authors" THEN {} ELSE BooksIn(d, BookId) \cup AuthorsIn(d, AuthorId))
        \cup (IF table = "libraries" THEN LinksIn(d, LibraryId) ELSE {})

(* WHERE name LIKE ... AND author_id = ... *)
Matches(d, a) ==
    {x \in Present(d[a.table]) :
        /\ d[a.table][x].name \in a.like
        /\ a.author # NoRow => d[a.table][x].author = a.author}

SortKey(d, a, x) ==
    CASE SortField(a.field, Sortable[a.table]) = "id" -> x
      [] SortField(a.field, Sortable[a.table]) = "name" -> d[a.table][x].name
      [] SortField(a.field, Sortable[a.table]) = "author_id" -> d[a.table][x].author

Before(d, a, x, y) ==
    IF a.asc THEN SortKey(d, a, x) < SortKey(d, a, y)
             ELSE SortKey(d, a, x) > SortKey(d, a, y)

(* The first n rows in the order; rows that tie come in any order. *)
Firsts(d, a, n) ==
    {S \in SUBSET Matches(d, a) :
        /\ Cardinality(S) = n \/ (S = Matches(d, a) /\ Cardinality(S) < n)
        /\ \A x \in S, y \in Matches(d, a) \ S : ~Before(d, a, y, x)}

(* ORDER BY ... LIMIT ... OFFSET *)
PagesOf(d, a, pg) ==
    UNION {{T \ S : T \in {T \in Firsts(d, a, Skipped(pg) + pg.size) : S \subseteq T}} :
              S \in Firsts(d, a, Skipped(pg))}

-----------------------------------------------------------------------------
(***************************************************************************)
(* The handlers.                                                           *)
(***************************************************************************)
Becomes(c, rd) == reads' = [reads EXCEPT ![c] = rd] /\ UNCHANGED vars

ReceiveList(c) ==
    /\ reads[c].at = "idle"
    /\ \E a \in Lists :
        Becomes(c, [NoRead EXCEPT !.at = "count", !.ask = a,
                        !.pg = ParsePagination(a.page, a.size),
                        !.held = Parts(db, a.table),
                        !.start = Matches(db, a), !.steady = TRUE])

ReceiveGet(c) ==
    /\ reads[c].at = "idle"
    /\ \E a \in Gets :
        Becomes(c, [NoRead EXCEPT !.at = "first", !.ask = a,
                        !.held = Parts(db, a.table)])

Count(c) ==
    /\ reads[c].at = "count"
    /\ Becomes(c, [reads[c] EXCEPT !.at = "find",
                       !.total = Cardinality(Matches(db, reads[c].ask))])

(* Preload's first query, by the table of the rows found. *)
Preload == [authors |-> "done", books |-> "authors", libraries |-> "joins"]

Find(c) ==
    LET rd == reads[c] IN
    /\ rd.at = "find"
    /\ \E xs \in PagesOf(db, rd.ask, rd.pg) :
        Becomes(c, [rd EXCEPT !.at = Preload[rd.ask.table], !.items = xs,
                        !.shown = RowsIn(db, rd.ask.table, xs),
                        !.met = @ \cup xs, !.again = @ \/ xs \cap rd.met # {}])

(* Get's First; a key without a row is a 404. *)
FindOne(c) ==
    LET rd == reads[c] IN
    /\ rd.at = "first"
    /\ IF rd.ask.id \in Present(db[rd.ask.table])
       THEN Becomes(c, [rd EXCEPT !.at = Preload[rd.ask.table],
                            !.items = {rd.ask.id},
                            !.shown = RowsIn(db, rd.ask.table, {rd.ask.id})])
       ELSE Becomes(c, NoRead)

PreloadJoins(c) ==
    /\ reads[c].at = "joins"
    /\ Becomes(c, [reads[c] EXCEPT !.at = "books",
                       !.shown = @ \cup LinksIn(db, reads[c].items)])

LinkedBooks(facts) == {f[3] : f \in facts \cap LinkFacts}
AuthorsOf(facts) == {f[3].author : f \in facts \cap BookFacts}

(* Mutant: Preload("Books") without its Author. *)
PreloadBooksOnly(c) ==
    /\ reads[c].at = "books"
    /\ Becomes(c, [reads[c] EXCEPT !.at = "done",
                       !.shown = @ \cup BooksIn(db, LinkedBooks(@))])

PreloadBooks(c) ==
    /\ reads[c].at = "books"
    /\ Becomes(c, [reads[c] EXCEPT !.at = "authors",
                       !.shown = @ \cup BooksIn(db, LinkedBooks(@))])

PreloadAuthors(c) ==
    /\ reads[c].at = "authors"
    /\ Becomes(c, [reads[c] EXCEPT !.at = "done",
                       !.shown = @ \cup AuthorsIn(db, AuthorsOf(@))])

ReadFails(c) == reads[c].at \in Queries /\ Becomes(c, NoRead)

(* A client goes on to the next page as long as there is one, or leaves. *)
NextPage(c) ==
    LET rd == reads[c] IN
    /\ rd.at = "done" /\ rd.ask \in Lists
    /\ rd.pg.page < TotalPages(rd.total, rd.pg.size)
    /\ Becomes(c, [rd EXCEPT !.at = "count",
                       !.pg = ParsePagination(rd.pg.page + 1, rd.ask.size),
                       !.total = 0, !.items = {}, !.shown = {},
                       !.held = Parts(db, rd.ask.table)])

Leave(c) == reads[c].at = "done" /\ Becomes(c, NoRead)

Read(c) ==
    \/ ReceiveList(c) \/ ReceiveGet(c) \/ Count(c) \/ Find(c) \/ FindOne(c)
    \/ PreloadJoins(c) \/ PreloadBooks(c) \/ PreloadAuthors(c)
    \/ ReadFails(c) \/ NextPage(c) \/ Leave(c)

-----------------------------------------------------------------------------
(***************************************************************************)
(* The writers.  AUTO_INCREMENT goes up, with gaps, but the INSERTs that   *)
(* took the keys may commit in another order: any key may come next.       *)
(***************************************************************************)
(* Rows are at most added, behind all that match already. *)
GrowsAtEnd(a) ==
    LET old == Matches(db, a)
        new == Matches(db', a)
    IN /\ old \subseteq new
       /\ \A x, y \in old : Before(db', a, x, y) <=> Before(db, a, x, y)
       /\ \A x \in old, y \in new \ old : Before(db', a, x, y)

Watch ==
    reads' = [c \in Client |->
        [reads[c] EXCEPT
            !.held = IF reads[c].at = "idle" THEN {}
                     ELSE @ \cap Parts(db', reads[c].ask.table),
            !.steady = @ /\ GrowsAtEnd(reads[c].ask)]]

Write ==
    /\ \E r \in Req : Receive(r) \/ Reject(r) \/ Handle(r) \/ DbError(r) \/ Respond(r)
    /\ Watch

(* The process dies with the readers' requests, too. *)
CrashAll == Crash /\ reads' = [c \in Client |-> NoRead]

ReadsNext == Write \/ CrashAll \/ \E c \in Client : Read(c)

ReadsSpec == ReadsInit /\ [][ReadsNext]_allVars

-----------------------------------------------------------------------------
(* Preload's queries see different moments.  Still, a library is answered  *)
(* with every book that was linked to it all the time, and a book that     *)
(* stayed as it is shown is shown with its author: what is missing was     *)
(* unlinked, moved or deleted meanwhile.                                   *)
ShownWithParts ==
    \A c \in Client : reads[c].at = "done" =>
        LET rd == reads[c] IN
        /\ \A l \in rd.items, b \in BookId :
              <<"link", l, b>> \in rd.held =>
                 \E row \in BookRow : <<"book", b, row>> \in rd.shown
        /\ \A f \in rd.shown \cap rd.held \cap BookFacts :
              \E row \in AuthorRow : <<"author", f[3].author, row>> \in rd.shown

OnLastPage(rd) ==
    /\ rd.at = "done" /\ rd.ask \in Lists
    /\ rd.pg.page >= TotalPages(rd.total, rd.pg.size)

(* A client that walks from page 1 to the last page, by a field that is    *)
(* unique, meets every row that was there when it began, and none twice,   *)
(* although Count and Find are two queries and total_pages may grow on the *)
(* way.  It takes that rows are at most added after the others.            *)
WalkMeetsAll ==
    \A c \in Client :
        LET rd == reads[c] IN
        /\ rd.at = "done" /\ rd.ask \in Lists /\ rd.steady
        /\ SortField(rd.ask.field, Sortable[rd.ask.table]) # "author_id"
        /\ ParsePagination(rd.ask.page, rd.ask.size).page = 1
        => /\ ~rd.again
           /\ OnLastPage(rd) => rd.start \subseteq rd.met

(* A page behind the last one shows none of the rows that were there when  *)
(* the request came, as long as its offset fits into an int.               *)
DeepPageIsNew ==
    \A c \in Client :
        LET rd == reads[c] IN
        /\ rd.at = "done" /\ rd.ask \in Lists /\ rd.steady
        /\ rd.pg.page > TotalPages(rd.total, rd.pg.size)
        /\ (rd.pg.page - 1) * rd.pg.size <= MaxInt
        => rd.items \cap rd.start = {}
=============================================================================
