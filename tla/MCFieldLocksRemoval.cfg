SPECIFICATION Spec
CONSTANTS
    owner = owner
    guest = guest
    Projects = {p}
    Project = p
    Resources = {k}
    Users = {owner, guest}
    Owner = owner
    Sockets = {s1}
    UserOf <- MCUserOf
    Requests = {r1, r2}
    Tokens = {t1, t2}
    MaxSockets = 2
    None = None
PROPERTIES
    RemovalReleasesLeases
CHECK_DEADLOCK FALSE
