CONSTANTS
    u1 = u1  u2 = u2  a1 = a1  a2 = a2  a3 = a3  t1 = t1  t2 = t2  p1 = p1  p2 = p2  c1 = c1  c2 = c2  d1 = d1
    s1 = s1  s2 = s2  r1 = r1  r2 = r2
    Users = {u1, u2}
    Agents = {a1, a2}
    Tunnels = {t1, t2}
    Codes = {c1}
    Subdomains = {}
    Ports = {p1, p2}
    LastPort = p2
    Sessions = {}
    Reqs = {r1, r2}
    Tokens <- KnowFirst
    Users0 <- NoRows
    Agents0 <- NoRows
    Tunnels0 <- NoRows
    Ops = {"register", "create", "toggle", "update", "delete", "delete_agent", "token", "cancel", "restart"}
SPECIFICATION Spec
SYMMETRY SymRows
INVARIANTS
    RowsHaveAgents
    PortsArePersonal
PROPERTIES
    DeletedStaysDeleted
CHECK_DEADLOCK FALSE
