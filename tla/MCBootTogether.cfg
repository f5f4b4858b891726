CONSTANTS
    Server = {s1, s2}
    AllPermissions <- CodedPermissions
    UserPermissions <- CodedUserPermissions
    DefaultRoleTitle = "user"
    Together = TRUE
    MaxByHand = 0
SPECIFICATION Spec
SYMMETRY Symmetry
INVARIANTS NoDuplicates
