CONSTANTS
    AuthorId = {1, 2, 3}
    BookId = {1, 2}
    LibraryId = {1}
    Name = {1, 2, 3}
    Description = {d1}
    Req = {r1}
    Client = {c1}
    NoRow = NoRow
    NoOp = NoOp
    NilIds = NilIds
    NoAsk = NoAsk
    NoNumber = NoNumber
    MaxInt = 7
    DefaultPageSize = 1
    MaxPageSize = 2
    Ops <- WriteOps
    Lists <- ListAsks
    Gets <- GetAsks
SPECIFICATION ReadsSpec
INVARIANTS ReadsTypeOK ShownWithParts WalkMeetsAll DeepPageIsNew
CONSTRAINTS FewRows Apart
