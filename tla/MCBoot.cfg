CONSTANTS
    Server = {s1, s2, s3}
    AllPermissions <- CodedPermissions
    UserPermissions <- CodedUserPermissions
    DefaultRoleTitle = "user"
    Together = FALSE
    MaxByHand = 2
SPECIFICATION Spec
SYMMETRY Symmetry
INVARIANTS TypeOK NoDuplicates ServesAsCoded NewUsersAsCoded
PROPERTIES NeverRevokes
