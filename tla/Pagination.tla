----------------------------- MODULE Pagination -----------------------------
(***************************************************************************)
(* internal/httpx/pagination.go: page numbers from the query string, the   *)
(* OFFSET they stand for and the number of pages, with Go's int, which is  *)
(* MaxInt = 2^63 - 1 wide and wraps around.                                *)
(***************************************************************************)
EXTENDS Integers

CONSTANTS
    MaxInt,
    DefaultPageSize, MaxPageSize,
    NoNumber        \* a text that is no number, or none at all

ASSUME PaginationAssumption ==
    /\ MaxInt \in Nat /\ MaxPageSize \in 1 .. MaxInt
    /\ DefaultPageSize \in 1 .. MaxPageSize
    /\ NoNumber \notin Int

MinInt == -MaxInt - 1
Words == 2 * MaxInt + 2

(* What n is after it was computed in an int. *)
Wrap(n) == ((n - MinInt) % Words) + MinInt

(* strconv.Atoi without its error: the nearest int, or zero. *)
Atoi(text) ==
    IF text = NoNumber THEN 0
    ELSE IF text > MaxInt THEN MaxInt
    ELSE IF text < MinInt THEN MinInt
    ELSE text

(* Mutant: a page below one is taken as it is. *)
ParsePaginationAsGiven(page, size) ==
    LET s == Atoi(size)
    IN [page |-> Atoi(page),
        size |-> IF s < 1 THEN DefaultPageSize
                 ELSE IF s > MaxPageSize THEN MaxPageSize ELSE s]

ParsePagination(page, size) ==
    LET p == Atoi(page)
        s == Atoi(size)
    IN [page |-> IF p < 1 THEN 1 ELSE p,
        size |-> IF s < 1 THEN DefaultPageSize
                 ELSE IF s > MaxPageSize THEN MaxPageSize ELSE s]

OffsetFromOne(pg) == pg.page * pg.size      \* mutant: pages counted from zero
OffsetOfPage(pg) == pg.page - 1             \* mutant: not times the size
Offset(pg) == Wrap((pg.page - 1) * pg.size)

(* GORM writes no OFFSET that is not positive. *)
Skipped(pg) == IF Offset(pg) > 0 THEN Offset(pg) ELSE 0

(* Mutant: the last page only when it is full. *)
TotalPagesFloor(total, size) == total \div size

(* NewPage's total_pages; a count of rows is far from MaxInt. *)
TotalPages(total, size) ==
    IF total > 0 THEN (total + size - 1) \div size ELSE 0

(* ParseSort's field: one that is not in the whitelist is not used. *)
SortField(field, allowed) == IF field \in allowed THEN field ELSE "id"
=============================================================================
