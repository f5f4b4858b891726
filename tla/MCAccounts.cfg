CONSTANTS
    Req = {r1, r2}
    Browser = {c1, c2}
    UserId = {u1}
    Email = {e1}
    Password = {w1, w2}
    Role = {admin, user}
    DefaultRole = user
    TTL = 1
    MaxTime = 1
    None = None
SPECIFICATION Spec
SYMMETRY Symmetry
INVARIANTS TypeOK AdmittedIsCurrent ActsOnlyAsLoggedIn RegistrationStands CookieOutlastsToken
CONSTRAINT OnePassword
