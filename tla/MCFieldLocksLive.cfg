SPECIFICATION LiveSpec
CONSTANTS
    owner = owner
    guest = guest
    Projects = {p}
    Project = p
    Resources = {k}
    Users = {owner, guest}
    Owner = owner
    Sockets = {s1, s2}
    UserOf <- MCUserOf
    Requests = {r1}
    Tokens = {t1}
    MaxSockets = 2
    None = None
PROPERTIES
    ExpiredLeasesGo
CHECK_DEADLOCK FALSE
