CONSTANTS
    n1 = n1
    d1 = d1
    d2 = d2
    AuthorId = {a1, a2, a3}
    BookId = {b1, b2}
    LibraryId = {}
    Name = {n1, n2}
    Description = {d1}
    Req = {r1, r2}
    NoRow = NoRow
    NoOp = NoOp
    NilIds = NilIds
    Ops <- ShelfOps
SPECIFICATION Spec
SYMMETRY ShelfSymmetry
INVARIANTS TypeOK Integrity
PROPERTIES KeepsContract
