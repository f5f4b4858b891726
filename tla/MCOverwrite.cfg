CONSTANTS
    n1 = n1
    d1 = d1
    d2 = d2
    AuthorId = {a1, a2}
    BookId = {}
    LibraryId = {}
    Name = {n1, n2}
    Description = {d1, d2}
    Req = {r1, r2}
    NoRow = NoRow
    NoOp = NoOp
    NilIds = NilIds
    Ops <- ReviveOps
SPECIFICATION Spec
PROPERTIES UpdateTouchesOwnAuthor
