CONSTANTS
    Conns = {opendexd, boltz}
    Macaroons = {boltz}
    Users = {u1}
    MaxCert = 2
SPECIFICATION FairSpec
INVARIANTS TypeOK NoneLeaks
PROPERTIES ImplementsConnection Connects
CHECK_DEADLOCK FALSE
