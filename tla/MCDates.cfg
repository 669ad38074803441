SPECIFICATION FairSpec
CONSTANTS
    Threads = {"main", "ntp"}
    Calls <- MCCalls
    Zones = {"Rome", "Kolkata"}
    Chosen = {"Rome"}
    Unset = Unset
    Offset <- MCOffset
    Summer <- MCSummer
    Inherited = {Unset}
    Dates = {9}
    ServerTimes = {15, 20}
    Start = {4}
    Word = 32
    Epoch = 17
    MaxFds = 1
INVARIANTS
    TypeOK
    ZoneKept
    ClockIsAsSet
PROPERTIES
    DatesAreLocal
    CallReturns
