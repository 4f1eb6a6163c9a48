SPECIFICATION Spec
CONSTANTS
    Logins = {p1, p2, p3}
    MaxRetries = 1
    Threshold = 3
    Slots = 1
    Queue = 1
    Emails = {a, b}
    KakaoIds = {k1, k2}
    Attempts = {r1, r2}
    Nobody = Nobody
    UserIds = {u1, u2, u3}
    Hits = {h1, h2, h3}
    Ips = {ip}
    UserKeys = {u}
    Routes <- TwoRoutes
    Limits <- RouteLimits
    WindowSec = 2
    MaxTime = 4
    Signals = {TERM, INT}
    Work = {w1, w2}
    NoCode = NoCode
INVARIANTS CallsBounded OpeningTakesLogins OneIdentity WindowLimited
PROPERTIES ShutdownEnds FailureIsTold
CHECK_DEADLOCK FALSE
