SPECIFICATION Spec
CONSTANTS
    EthX = "eth0"
    Containing = {"eth0"}
    Names = {"eth0", "eth1", "lo"}
    NoVal = ""
    Values = {"a", "b", "m"}
    Files <- MCFiles
    Networks <- MCNetworks
INVARIANTS
    TypeOK
    OthersKept
    RoundTrip
    OneAuto
