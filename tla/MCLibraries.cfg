CONSTANTS
    n1 = n1
    d1 = d1
    d2 = d2
    AuthorId = {a1}
    BookId = {b1, b2}
    LibraryId = {l1, l2}
    Name = {n1, n2, n3}
    Description = {d1}
    Req = {r1, r2}
    NoRow = NoRow
    NoOp = NoOp
    NilIds = NilIds
    Ops <- LibraryOps
SPECIFICATION Spec
SYMMETRY LibrarySymmetry
INVARIANTS Integrity
PROPERTIES KeepsContract UnlinkedOnDemand LinksAsRequested
