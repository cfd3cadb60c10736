CONSTANTS
    u1 = u1  u2 = u2  a1 = a1  a2 = a2  a3 = a3  t1 = t1  t2 = t2  p1 = p1  p2 = p2  c1 = c1  c2 = c2  d1 = d1
    s1 = s1  s2 = s2  r1 = r1  r2 = r2
    Users = {u1}
    Agents = {a1}
    Tunnels = {t1}
    Codes = {}
    Subdomains = {d1}
    Ports = {p1, p2}
    LastPort = p2
    Sessions = {s1, s2}
    Reqs = {r1}
    Tokens <- KnowFirst
    Users0 <- OneUser
    Agents0 <- OneAgent
    Tunnels0 <- OneTunnel
    Ops = {"toggle", "update", "delete", "break", "bind_fails"}
SPECIFICATION Spec
SYMMETRY SymBoth
INVARIANTS
    TypeOK
    StartsForRegistered
    CleanupComplete
    NoDeadSender
PROPERTIES
    HandlersAdvance
CHECK_DEADLOCK FALSE
