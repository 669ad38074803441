SPECIFICATION Spec
CONSTANTS
    Items = {"GainAuto", "TriggerMode", "GainRaw", "TriggerPolarity", "ReverseX", "Gamma", "DeviceDNA", "Method", "Unknown"}
    Type <- MCType
    Reg <- MCReg
    Combos <- MCCombos
    GammaTable = "0xF000"
    TriggerReg = "0xFC"
    MaxLong = 3
    DNA = "dna"
    Words = {"", "True", "False", "static", "dhcp", "none", "dna", "Off", "Once", "SoftTrigger", "HardTrigger", "Hight"}
    OldRegs <- MCOldRegs
    Files <- MCFiles
    MaxTroubles = 1
INVARIANTS
    AppliedIsWhole
