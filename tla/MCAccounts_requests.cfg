SPECIFICATION Spec
CONSTANTS
    Users = {u1, u2}
    Requests = {r1, r2}
    Nobody = nobody
    FirstBoot = first_boot
    Tables <- MCTables
    MaxAttempts = 2
    MaxRequests = 4
    MaxExpiries = 1
SYMMETRY Symmetry
INVARIANTS CredentialsCurrent GuessesLimited AdminRemains
PROPERTY FirstIntoEmpty
CHECK_DEADLOCK FALSE
