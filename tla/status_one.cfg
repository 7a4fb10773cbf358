SPECIFICATION Spec
CONSTANTS
    Services = {"opendexd", "connext", "boltz", "lnd", "geth", "bitcoind", "arby", "webui", "proxy"}
    Disabled = {"arby"}
    Requests = {r1}
    Kinds = {"one"}
    MaxHeight = 2
    MaxChanges = 2
INVARIANTS
    ReadyIsEarned
    SyncedIsSynced
CHECK_DEADLOCK FALSE
