CONSTANTS
    Handlers = {h1, h2}
    Tokens = {t1, t2}
    Sessions = {s1, s2}
    Passwords = {p1, p2}
    NoToken = NoToken
    NoPassword = NoPassword
    MaxFailed = 2
    Cooldown = 1
SPECIFICATION Spec
CHECK_DEADLOCK FALSE
SYMMETRY AuthSymmetry
INVARIANTS TypeOK SessionsProvePassword NewestLinkIsLive LockEarned LockUnlessOverlap
PROPERTY CooldownKept
