------------------------------ MODULE XmlConfig ------------------------------
(***************************************************************************)
(* XiXmlDevice and XiXmlDriver (src/src/XiXmlDevice.cpp, XiXmlDriver.cpp): *)
(* XmlSetting writes the items of a camera file to the registers, one by   *)
(* one, and tells the FPGA to take them over; XmlGetting reads them back   *)
(* into the file.  The parameter table (config/m001.xml) gives every item  *)
(* its type, its register and its named values.                            *)
(*                                                                         *)
(* One process works on the file at a time and may crash at any step.  An  *)
(* item is one step, for which the register device is opened anew, which   *)
(* may fail.  Between the calls the file is edited.  Another process may   *)
(* construct an XiPictureDriver at any moment, which writes the register   *)
(* of the trigger mode.  Every item of the file has a Value.               *)
(***************************************************************************)
EXTENDS Integers, Sequences

CONSTANTS
    Items,       \* names of items
    Type,        \* their types; "none": not in the table
    Reg,         \* their registers
    Combos,      \* Combos[i]: the named values of i, a function to numbers
    GammaTable,  \* the lookup table of item Gamma, taken as one register
    TriggerReg,  \* register 0x406000FC
    MaxLong,     \* the largest long, 2^31 - 1 on this processor
    DNA,         \* serial number and MAC address, whatever they read as
    Words,       \* texts that are not numbers
    OldRegs,     \* what the registers hold before the first call
    Files,       \* what the file may be edited to
    MaxTroubles  \* bound: failed opens and drivers started, in all

Types == {"String", "Int", "Bool", "Double", "DeviceDNA", "Method", "Address", "none"}
Regs == {Reg[i] : i \in Items} \cup {GammaTable, TriggerReg}
Word32 == 2 * (MaxLong + 1)
RegValues == 0..(Word32 - 1)

(* A text is a word, the empty one included, or the decimal notation of a  *)
(* number.                                                                 *)
NoText == ""
Word(w) == [word |-> w, num |-> 0]
Decimal(n) == [word |-> "number", num |-> n]
Texts == {Word(w) : w \in Words} \cup {Decimal(n) : n \in (-MaxLong - 1)..(Word32 - 1)}

(* The register an item goes to; Gamma goes to the lookup table.           *)
RegOf(i) == IF Type[i] = "Double" THEN GammaTable ELSE Reg[i]

(* The table: a named value has one name and a name one value, and every   *)
(* item that is written has a register of its own.                         *)
ASSUME TableAssumption ==
    /\ Type \in [Items -> Types]
    /\ MaxLong \in Nat
    /\ \A i \in Items : /\ DOMAIN Combos[i] \subseteq Words \ {NoText}
                        /\ \A w \in DOMAIN Combos[i] : Combos[i][w] \in RegValues
                        /\ \A v, w \in DOMAIN Combos[i] :
                              Combos[i][v] = Combos[i][w] => v = w
    /\ OldRegs \subseteq [Regs -> RegValues]
    /\ {NoText, "True", "False", "static", "dhcp", "none", DNA} \subseteq Words
    /\ "number" \notin Words
ASSUME RegisterAssumption ==
    \A i, j \in {i \in Items : Type[i] \in {"String", "Int", "Bool", "Double"}} :
        RegOf(i) = RegOf(j) => i = j
ASSUME BoundAssumption == MaxTroubles \in Nat
ASSUME FileAssumption ==
    \A f \in Files :
        /\ f \in Seq([name : Items, val : Texts]) /\ f # <<>>
        /\ \A k, l \in 1..Len(f) : f[k].name = f[l].name => k = l

VARIABLES
    file,       \* the camera file; <<>> while it is empty
    pc,         \* the process: idle, set, notify, get, save, write
    doc,        \* the parsed document of the call under way
    at,         \* its next item
    regs,       \* the registers
    asSet,      \* history: the file as it was set last, if not edited since
    applied,    \* history: the registers the FPGA then took over
    got,        \* history: the file is as XmlGetting left it
    base,       \* history: the registers when the latest XmlGetting began
    since,      \* history: registers others wrote, or whose device did not
                \* open, since the latest XmlSetting, XmlGetting began
    before,     \* history: the registers when the latest XmlSetting began
    missed,     \* history: items whose device did not open when XmlSetting
                \* came to them last
    troubles    \* history: failed opens and drivers started so far

setVars == <<before, missed>>
vars == <<file, pc, doc, at, regs, applied, asSet, got, base, since, setVars, troubles>>

TypeOK ==
    /\ \A f \in {file, doc, asSet} : \A k \in 1..Len(f) : f[k].val \in Texts
    /\ pc \in {"idle", "set", "notify", "get", "save", "write"}
    /\ at \in 0..(Len(doc) + 1)
    /\ regs \in [Regs -> RegValues]
    /\ applied \in [Regs -> RegValues] /\ base \in [Regs -> RegValues]
    /\ before \in [Regs -> RegValues] /\ missed \subseteq Items
    /\ got \in BOOLEAN
    /\ since \in [{"set", "get"} -> SUBSET Regs] /\ troubles \in 0..MaxTroubles

Nothing == [r \in Regs |-> 0]

Init ==
    /\ file \in Files
    /\ pc = "idle" /\ doc = <<>> /\ at = 0
    /\ regs \in OldRegs
    /\ asSet = <<>> /\ applied = Nothing /\ got = FALSE /\ base = Nothing
    /\ before = Nothing /\ missed = {}
    /\ since = [o \in {"set", "get"} |-> {}] /\ troubles = 0

---------------------------------------------------------------------------
(* strtol, whose result saturates, and atof.                               *)
Number(v) == IF v.word = "number" THEN v.num ELSE 0
Strtol(v) == IF Number(v) > MaxLong THEN MaxLong ELSE Number(v)

(* A register written by somebody else, or whose device did not open.      *)
Trouble == troubles < MaxTroubles /\ troubles' = troubles + 1
Touch(r) ==
    /\ Trouble
    /\ since' = [o \in {"set", "get"} |-> since[o] \cup {r}]
Untouched == UNCHANGED <<since, troubles>>
Opens(i, ok) == IF ok THEN Untouched ELSE Touch(RegOf(i))

---------------------------------------------------------------------------
(* Plausible mistakes in the code below; TLC uses them to show that the    *)
(* properties at the end of this module can fail.  No action refers to     *)
(* them.                                                                   *)

(* ParamItemSet does not convert the number to unsigned.                   *)
RegValueSigned(i, v) ==
    CASE Type[i] = "String" -> Combos[i][v.word]
      [] Type[i] = "Bool"   -> IF v = Word("True") THEN 1 ELSE 0
      [] OTHER              -> Strtol(v)

(* ParamItemGet gives the first named value whatever the register holds.   *)
ItemValueFirst(i, r, method) ==
    CASE Type[i] = "String" -> Word(CHOOSE w \in DOMAIN Combos[i] : TRUE)
      [] Type[i] = "Int"    -> Decimal(r)
      [] Type[i] = "Bool"   -> IF r = 1 THEN Word("True") ELSE Word("False")
      [] OTHER              -> Word(NoText)

(* ParamItemGet gives a Bool as a number, which ParamItemSet does not take.*)
ItemValueBit(i, r, method) ==
    IF Type[i] \in {"Bool", "Int"} THEN Decimal(r) ELSE Word(NoText)

(* XmlSetting stops one item early.                                        *)
SetItemShort(i, v, ok) ==
    /\ pc = "set" /\ at <= Len(doc)
    /\ pc' = IF at + 1 >= Len(doc) THEN "notify" ELSE "set"
    /\ at' = at + 1
    /\ regs' = IF ok /\ Type[i] = "Int" THEN [regs EXCEPT ![Reg[i]] = Strtol(v) % Word32]
               ELSE regs
    /\ missed' = IF ok THEN missed \ {i} ELSE missed \cup {i}
    /\ Opens(i, ok)
    /\ UNCHANGED <<file, doc, applied, asSet, got, base, before>>

---------------------------------------------------------------------------
(* ParamItemSet: items it accepts, and what it writes.                     *)

Accepts(i, v) ==
    \/ Type[i] \in {"Int", "Bool", "Double"}
    \/ Type[i] = "String" /\ v.word \in DOMAIN Combos[i]

RegValue(i, v) ==
    CASE Type[i] = "String" -> Combos[i][v.word]
      [] Type[i] = "Bool"   -> IF v = Word("True") THEN 1 ELSE 0
      [] Type[i] = "Int"    -> Strtol(v) % Word32
      [] Type[i] = "Double" -> Number(v) % Word32

(* getItem and ParamItemGet; method is what getNetWork found.              *)
ItemValue(i, r, method) ==
    LET named == IF Type[i] = "String" THEN {w \in DOMAIN Combos[i] : Combos[i][w] = r}
                 ELSE {}
    IN  CASE named # {}            -> Word(CHOOSE w \in named : TRUE)
          [] Type[i] = "Int"       -> Decimal(r)
          [] Type[i] = "Bool"      -> IF r = 1 THEN Word("True") ELSE Word("False")
          [] Type[i] = "DeviceDNA" -> Word(DNA)
          [] Type[i] = "Method"    -> Word(method)
          [] OTHER                 -> Word(NoText)

---------------------------------------------------------------------------
(* XmlSetting.  An empty file is not a document: nothing happens.          *)

XmlSetting ==
    /\ pc = "idle" /\ file # <<>>
    /\ doc' = file /\ at' = 1 /\ pc' = "set"
    /\ asSet' = <<>> /\ applied' = Nothing
    /\ since' = [since EXCEPT !["set"] = {}] /\ before' = regs
    /\ UNCHANGED <<file, regs, got, base, missed, troubles>>

SetItem(i, v, ok) ==
    /\ pc = "set" /\ at <= Len(doc)
    /\ pc' = IF at = Len(doc) THEN "notify" ELSE "set"
    /\ at' = at + 1
    /\ regs' = IF ok /\ Accepts(i, v) THEN [regs EXCEPT ![RegOf(i)] = RegValue(i, v)]
               ELSE regs
    /\ missed' = IF ok THEN missed \ {i} ELSE missed \cup {i}
    /\ Opens(i, ok)
    /\ UNCHANGED <<file, doc, applied, asSet, got, base, before>>

(* Register 0x40600200; without the device nothing is written.             *)
Notify(ok) ==
    /\ pc = "notify"
    /\ IF ok THEN UNCHANGED troubles ELSE Trouble
    /\ applied' = IF ok THEN regs ELSE applied
    /\ asSet' = IF ok THEN doc ELSE <<>>
    /\ pc' = "idle" /\ doc' = <<>> /\ at' = 0
    /\ UNCHANGED <<file, regs, got, base, since, setVars>>

---------------------------------------------------------------------------
(* XmlGetting: read every item back, then write the file.                  *)

XmlGetting ==
    /\ pc = "idle" /\ file # <<>>
    /\ doc' = file /\ at' = 1 /\ pc' = "get"
    /\ got' = FALSE /\ base' = regs /\ since' = [since EXCEPT !["get"] = {}]
    /\ UNCHANGED <<file, regs, applied, asSet, setVars, troubles>>

(* A device that did not open reads 0.                                     *)
GetItem(i, ok) ==
    /\ pc = "get" /\ at <= Len(doc)
    /\ \E method \in {"static", "dhcp", "none"} :
        doc' = [doc EXCEPT ![at].val =
                    ItemValue(i, IF ok THEN regs[RegOf(i)] ELSE 0, method)]
    /\ pc' = IF at = Len(doc) THEN "save" ELSE "get"
    /\ at' = at + 1
    /\ Opens(i, ok)
    /\ UNCHANGED <<file, regs, applied, asSet, got, base, setVars>>

(* xmlSaveFormatFile opens and truncates the file, or cannot open it, ...  *)
Save(ok) ==
    /\ pc = "save"
    /\ \/ ok /\ file' = <<>> /\ pc' = "write" /\ UNCHANGED <<doc, at>>
       \/ ~ok /\ pc' = "idle" /\ doc' = <<>> /\ at' = 0 /\ UNCHANGED file
    /\ UNCHANGED <<regs, applied, asSet, got, base, since, setVars, troubles>>

(* ... and writes it.                                                      *)
Write ==
    /\ pc = "write"
    /\ file' = doc /\ got' = TRUE
    /\ pc' = "idle" /\ doc' = <<>> /\ at' = 0
    /\ UNCHANGED <<regs, applied, asSet, base, since, setVars, troubles>>

---------------------------------------------------------------------------
(* The surroundings.                                                       *)

Crash ==
    /\ pc # "idle"
    /\ pc' = "idle" /\ doc' = <<>> /\ at' = 0
    /\ UNCHANGED <<file, regs, applied, asSet, got, base, since, setVars, troubles>>

Edit ==
    /\ pc = "idle"
    /\ file' \in Files
    /\ asSet' = <<>> /\ applied' = Nothing
    /\ got' = FALSE /\ base' = Nothing /\ before' = Nothing /\ missed' = {}
    /\ since' = [o \in {"set", "get"} |-> {}]
    /\ UNCHANGED <<pc, doc, at, regs, troubles>>

(* XiPictureDriver::XiPictureDriver selects the soft trigger.              *)
DriverStart ==
    /\ regs' = [regs EXCEPT ![TriggerReg] = 0]
    /\ Touch(TriggerReg)
    /\ UNCHANGED <<file, pc, doc, at, applied, asSet, got, base, setVars>>

Item == doc[at]

Next ==
    \/ XmlSetting \/ XmlGetting \/ Write \/ Crash \/ Edit \/ DriverStart
    \/ \E ok \in BOOLEAN :
        \/ pc = "set" /\ SetItem(Item.name, Item.val, ok)
        \/ pc = "get" /\ GetItem(Item.name, ok)
        \/ Notify(ok) \/ Save(ok)

Spec == Init /\ [][Next]_vars

---------------------------------------------------------------------------
(* Properties.                                                             *)

(* The k-th item of d, if it is accepted and its device opened, sets r.    *)
Sets(d, k, r) ==
    /\ Accepts(d[k].name, d[k].val) /\ RegOf(d[k].name) = r
    /\ d[k].name \notin missed

(* What XmlSetting has made of the registers when it has come to the n-th  *)
(* item of d: a register that an item before it sets has the value of the  *)
(* item, every other one what it held before.  (A driver that starts in    *)
(* the meantime may have written the trigger mode.)                        *)
SetUpTo(d, n, now) ==
    \A r \in Regs :
        r # TriggerReg \/ r \notin since["set"] =>
            /\ \A k \in 1..Len(d) :
                  k < n /\ Sets(d, k, r) => now[r] = RegValue(d[k].name, d[k].val)
            /\ (\A k \in 1..Len(d) : k < n => ~Sets(d, k, r)) => now[r] = before[r]

(* When XmlSetting has ended, the FPGA has taken over exactly this: every  *)
(* accepted item whose device opened, from the first to the last, over     *)
(* what the registers held when it began.  The registers of items that are *)
(* not in the file or whose device did not open have what an earlier, even *)
(* an interrupted XmlSetting left there, and take effect all the same.     *)
AppliedIsFile == asSet # <<>> => SetUpTo(asSet, Len(asSet) + 1, applied)

(* What takes effect is the whole file: no item that is accepted is        *)
(* missing when the FPGA is told.                                          *)
AppliedIsWhole ==
    \A k \in 1..Len(asSet) :
        LET i == asSet[k].name
            v == asSet[k].val
        IN  Accepts(i, v) /\ RegOf(i) # TriggerReg => applied[RegOf(i)] = RegValue(i, v)

(* Reading back a file that has been set does not change it, whatever was  *)
(* attempted in between: items of the types String, Int and Bool whose     *)
(* value is written as XmlGetting writes it.                               *)
Canonical(i, v) ==
    \/ Type[i] = "String" /\ v.word \in DOMAIN Combos[i]
    \/ Type[i] = "Bool" /\ v \in {Word("True"), Word("False")}
    \/ Type[i] = "Int" /\ v.word = "number" /\ v.num \in 0..MaxLong
SetThenGet ==
    (asSet # <<>> /\ got) =>
        \A k \in 1..Len(asSet) :
            LET i == asSet[k].name
            IN  (Canonical(i, asSet[k].val) /\ Reg[i] \notin since["set"])
                    => file[k] = asSet[k]

(* Setting a file that was read back restores the registers: those of      *)
(* Strings whatever they held, of Bools that held 0 or 1, and of numbers   *)
(* that a long can hold.                                                   *)
Restorable(i, r) ==
    \/ Type[i] = "String"
    \/ Type[i] = "Bool" /\ r \in {0, 1}
    \/ Type[i] = "Int" /\ r <= MaxLong
GetThenSet ==
    (pc = "notify" /\ got) =>
        \A k \in 1..Len(doc) :
            LET i == doc[k].name
            IN  (Restorable(i, base[Reg[i]]) /\ Reg[i] \notin since["get"])
                    => regs[Reg[i]] = base[Reg[i]]
=============================================================================
