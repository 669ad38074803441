---------------------------- MODULE MCXmlConfig ----------------------------
(* A small instance of XmlConfig: items of config/m001.xml of every type,  *)
(* three camera files, a long of three bits.                               *)
EXTENDS XmlConfig, TLC

MCType == [GainAuto |-> "String", TriggerMode |-> "String", GainRaw |-> "Int",
           TriggerPolarity |-> "Int", ReverseX |-> "Bool", Gamma |-> "Double",
           DeviceDNA |-> "DeviceDNA", Method |-> "Method", Unknown |-> "none"]

MCReg == [i \in Items |-> CASE i = "TriggerMode" -> "0xFC" [] OTHER -> i]

MCCombos ==
    [i \in Items |->
        CASE i = "GainAuto" -> [Off |-> 0, Once |-> 1]
          [] i = "TriggerMode" -> [SoftTrigger |-> 0, HardTrigger |-> 1]
          [] OTHER -> [w \in {} |-> 0]]

L(name, val) == [name |-> name, val |-> val]

MCFiles ==
    {<<L("GainRaw", Decimal(3)), L("TriggerMode", Word("HardTrigger")), L("Gamma", Decimal(2)),
       L("Unknown", Word("True"))>>,
     <<L("GainRaw", Decimal(-1)), L("ReverseX", Word("True")), L("GainAuto", Word("Once"))>>,
     <<L("TriggerPolarity", Word("Hight")), L("DeviceDNA", Word(DNA)), L("Method", Word("dhcp"))>>}

MCOldRegs == {[r \in Regs |-> 6]}
=============================================================================
