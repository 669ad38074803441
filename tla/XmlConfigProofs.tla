--------------------------- MODULE XmlConfigProofs ---------------------------
(***************************************************************************)
(* What TLAPS proves about XmlConfig for any parameter table, any camera   *)
(* files and any number of failures: the types, what a notification makes  *)
(* effective, and that setting and reading back undo each other in both    *)
(* orders.                                                                 *)
(***************************************************************************)
EXTENDS XmlConfig, TLAPS

---------------------------------------------------------------------------
(* The conversions between texts and registers.                            *)

(* The conversion of a long to a register value stays within 32 bits, and  *)
(* a number that fits is kept.                                             *)
LEMMA Modulo ==
    /\ \A n \in Int : n % Word32 \in RegValues
    /\ \A n \in RegValues : n % Word32 = n
<1>1. Word32 \in Nat \ {0}
  BY TableAssumption DEF Word32
<1>2. \A m \in Nat \ {0} : \A n \in Int : n % m \in 0..(m - 1)
  OBVIOUS
<1>3. \A m \in Nat \ {0} : \A n \in 0..(m - 1) : n % m = n
  OBVIOUS
<1>. HIDE DEF Word32
<1>. QED
  BY <1>1, <1>2, <1>3 DEF RegValues

(* Texts are records whose number is an integer.                           *)
LEMMA TextFields ==
    ASSUME NEW v \in Texts
    PROVE  /\ v = [word |-> v.word, num |-> v.num] /\ v.num \in Int
           /\ v.word = "number" => v = Decimal(v.num)
           /\ v.word # "number" => v = Word(v.word)
<1>1. CASE v \in {Word(w) : w \in Words}
  BY <1>1, TableAssumption DEF Word
<1>2. CASE v \in {Decimal(n) : n \in (-MaxLong - 1)..(Word32 - 1)}
  BY <1>2, TableAssumption DEF Decimal, Word32
<1>. QED
  BY <1>1, <1>2 DEF Texts

(* What ParamItemSet writes is a register value.                           *)
LEMMA RegValueType ==
    ASSUME NEW i \in Items, NEW v \in Texts, Accepts(i, v)
    PROVE  RegValue(i, v) \in RegValues
<1>1. Number(v) \in Int /\ Strtol(v) \in Int
  BY TextFields, TableAssumption DEF Number, Strtol
<1>2. {0, 1} \subseteq RegValues
  BY TableAssumption DEF RegValues, Word32
<1>3. Type[i] \in {"String", "Bool", "Int", "Double"}
  BY DEF Accepts
<1>4. CASE Type[i] = "String"
  <2>1. v.word \in DOMAIN Combos[i]
    BY <1>4 DEF Accepts
  <2>2. RegValue(i, v) = Combos[i][v.word]
    BY <1>4 DEF RegValue
  <2>. QED
    BY <2>1, <2>2, TableAssumption
<1>5. CASE Type[i] = "Bool"
  BY <1>5, <1>2 DEF RegValue
<1>6. CASE Type[i] = "Int"
  <2>1. RegValue(i, v) = Strtol(v) % Word32
    BY <1>6 DEF RegValue
  <2>. QED
    BY <2>1, <1>1, Modulo
<1>7. CASE Type[i] = "Double"
  <2>1. RegValue(i, v) = Number(v) % Word32
    BY <1>7 DEF RegValue
  <2>. QED
    BY <2>1, <1>1, Modulo
<1>. QED
  BY <1>3, <1>4, <1>5, <1>6, <1>7

(* The names a value of a String has in the table: at most one.            *)
Named(i, r) == {w \in DOMAIN Combos[i] : Combos[i][w] = r}

(* What ParamItemGet gives, by the type of the item.                       *)
LEMMA ItemValueCases ==
    ASSUME NEW i \in Items, NEW r, NEW method
    PROVE  /\ Type[i] = "String" /\ Named(i, r) # {} =>
                \E w \in Named(i, r) : ItemValue(i, r, method) = Word(w)
           /\ Type[i] = "String" /\ Named(i, r) = {} => ItemValue(i, r, method) = Word(NoText)
           /\ Type[i] = "Int" => ItemValue(i, r, method) = Decimal(r)
           /\ Type[i] = "Bool" =>
                ItemValue(i, r, method) = IF r = 1 THEN Word("True") ELSE Word("False")
           /\ Type[i] = "DeviceDNA" => ItemValue(i, r, method) = Word(DNA)
           /\ Type[i] = "Method" => ItemValue(i, r, method) = Word(method)
           /\ Type[i] \in {"Double", "Address", "none"} => ItemValue(i, r, method) = Word(NoText)
<1>1. CASE Type[i] = "String"
  BY <1>1 DEF ItemValue, Named
<1>2. CASE Type[i] # "String"
  BY <1>2 DEF ItemValue
<1>. QED
  BY <1>1, <1>2

(* What ParamItemGet gives is a text.                                      *)
LEMMA ItemValueType ==
    ASSUME NEW i \in Items, NEW r \in RegValues, NEW method \in {"static", "dhcp", "none"}
    PROVE  ItemValue(i, r, method) \in Texts
<1>1. \A w \in Words : Word(w) \in Texts
  BY DEF Texts
<1>2. Decimal(r) \in Texts
  <2>1. r \in (-MaxLong - 1)..(Word32 - 1)
    BY TableAssumption DEF RegValues
  <2>. QED
    BY <2>1 DEF Texts
<1>3. Type[i] \in Types
  BY TableAssumption
<1>4. Named(i, r) \subseteq Words
  BY TableAssumption DEF Named
<1>5. {NoText, "True", "False", method, DNA} \subseteq Words
  BY TableAssumption
<1>. QED
  BY <1>1, <1>2, <1>3, <1>4, <1>5, ItemValueCases DEF Types

(* Reading back what was written for a canonical text gives the text.      *)
LEMMA SetGet ==
    ASSUME NEW i \in Items, NEW v \in Texts, Canonical(i, v), NEW method
    PROVE  /\ Accepts(i, v) /\ RegOf(i) = Reg[i]
           /\ ItemValue(i, RegValue(i, v), method) = v
<1>1. CASE Type[i] = "String"
  <2>1. v.word \in DOMAIN Combos[i]
    BY <1>1 DEF Canonical
  <2>2. RegValue(i, v) = Combos[i][v.word]
    BY <1>1 DEF RegValue
  <2>3. Named(i, RegValue(i, v)) = {v.word}
    BY <2>1, <2>2, TableAssumption DEF Named
  <2>4. v = Word(v.word)
    BY <2>1, TextFields, TableAssumption
  <2>5. ItemValue(i, RegValue(i, v), method) = v
    BY <1>1, <2>3, <2>4, ItemValueCases
  <2>. QED
    BY <1>1, <2>1, <2>5 DEF Accepts, RegOf
<1>2. CASE Type[i] = "Bool"
  <2>1. v = Word("True") \/ v = Word("False")
    BY <1>2 DEF Canonical
  <2>2. Word("True") # Word("False")
    BY DEF Word
  <2>3. RegValue(i, v) = IF v = Word("True") THEN 1 ELSE 0
    BY <1>2 DEF RegValue
  <2>. QED
    BY <1>2, <2>1, <2>2, <2>3, ItemValueCases DEF Accepts, RegOf
<1>3. CASE Type[i] = "Int"
  <2>1. v.word = "number" /\ v.num \in 0..MaxLong
    BY <1>3 DEF Canonical
  <2>2. v = Decimal(v.num) /\ Strtol(v) = v.num
    BY <2>1, TextFields, TableAssumption DEF Strtol, Number
  <2>3. v.num \in RegValues
    BY <2>1, TableAssumption DEF RegValues, Word32
  <2>4. RegValue(i, v) = v.num
    BY <1>3, <2>2, <2>3, Modulo DEF RegValue
  <2>. QED
    BY <1>3, <2>2, <2>4, ItemValueCases DEF Accepts, RegOf
<1>. QED
  BY <1>1, <1>2, <1>3 DEF Canonical

(* Writing what was read from a restorable register leaves the register.   *)
LEMMA GetSet ==
    ASSUME NEW i \in Items, NEW r \in RegValues, Restorable(i, r), NEW method,
           Accepts(i, ItemValue(i, r, method))
    PROVE  RegValue(i, ItemValue(i, r, method)) = r
<1>. DEFINE v == ItemValue(i, r, method)
<1>1. CASE Type[i] = "String"
  <2>1. v.word \in DOMAIN Combos[i]
    BY <1>1 DEF Accepts
  <2>2. v.word # NoText
    BY <2>1, TableAssumption
  <2>3. PICK w \in Named(i, r) : v = Word(w)
    BY <1>1, <2>2, ItemValueCases DEF Word
  <2>4. v.word = w
    BY <2>3 DEF Word
  <2>. QED
    BY <1>1, <2>3, <2>4 DEF RegValue, Named
<1>2. CASE Type[i] = "Bool"
  <2>1. r \in {0, 1}
    BY <1>2 DEF Restorable
  <2>2. Word("True") # Word("False")
    BY DEF Word
  <2>3. v = IF r = 1 THEN Word("True") ELSE Word("False")
    BY <1>2, ItemValueCases
  <2>4. RegValue(i, v) = IF v = Word("True") THEN 1 ELSE 0
    BY <1>2 DEF RegValue
  <2>. QED
    BY <2>1, <2>2, <2>3, <2>4
<1>3. CASE Type[i] = "Int"
  <2>1. v = Decimal(r) /\ r <= MaxLong
    BY <1>3, ItemValueCases DEF Restorable
  <2>2. Strtol(v) = r
    BY <2>1, TableAssumption DEF Strtol, Number, Decimal, RegValues
  <2>. QED
    BY <1>3, <2>2, Modulo DEF RegValue
<1>. QED
  BY <1>1, <1>2, <1>3 DEF Restorable

---------------------------------------------------------------------------
(* The types.                                                              *)

Entries == [name : Items, val : Texts]

(* A document names each item once; the empty one is that of no file.      *)
IsDocument(f) ==
    /\ f \in Seq(Entries)
    /\ \A k, l \in 1..Len(f) : f[k].name = f[l].name => k = l

(* Two documents name the same items at the same places.                   *)
SameItems(f, g) ==
    Len(f) = Len(g) /\ \A k \in 1..Len(f) : f[k].name = g[k].name

Setting == pc \in {"set", "notify"}
Getting == pc \in {"get", "save", "write"}

TypeInv ==
    /\ IsDocument(file) /\ IsDocument(doc) /\ IsDocument(asSet)
    /\ pc \in {"idle", "set", "notify", "get", "save", "write"}
    /\ pc = "idle" => doc = <<>> /\ at = 0
    /\ pc \in {"set", "get"} => at \in 1..Len(doc)
    /\ pc \in {"notify", "save", "write"} => at = Len(doc) + 1 /\ doc # <<>>
    /\ regs \in [Regs -> RegValues]
    /\ applied \in [Regs -> RegValues] /\ base \in [Regs -> RegValues]
    /\ before \in [Regs -> RegValues] /\ missed \subseteq Items
    /\ got \in BOOLEAN
    /\ since \in [{"set", "get"} -> SUBSET Regs] /\ troubles \in 0..MaxTroubles

---------------------------------------------------------------------------
(* What the history says of the registers and of the file.                 *)

(* Every item of the document before the n-th has its value in its         *)
(* register, unless somebody else touched the register.                    *)
WrittenUpTo(d, n) ==
    \A k \in 1..Len(d) :
        k < n /\ Accepts(d[k].name, d[k].val) /\ RegOf(d[k].name) \notin since["set"]
            => regs[RegOf(d[k].name)] = RegValue(d[k].name, d[k].val)

SetInv ==
    /\ Setting => doc = file /\ asSet = <<>> /\ WrittenUpTo(doc, at)
    /\ WrittenUpTo(asSet, Len(asSet) + 1)

(* Every canonical item of the file that was set, before the n-th, is as   *)
(* it was.                                                                 *)
UnchangedUpTo(d, n) ==
    \A k \in 1..Len(asSet) :
        k < n /\ Canonical(asSet[k].name, asSet[k].val)
              /\ Reg[asSet[k].name] \notin since["set"]
            => d[k] = asSet[k]

ReadBackInv ==
    /\ Getting => ~got
    /\ got => file # <<>>
    /\ pc = "write" => file = <<>>
    /\ pc \in {"get", "save"} => SameItems(doc, file)
    /\ asSet # <<>> =>
        /\ Getting => SameItems(doc, asSet) /\ UnchangedUpTo(doc, at)
        /\ file # <<>> => SameItems(file, asSet)
        /\ got => UnchangedUpTo(file, Len(asSet) + 1)

(* Every restorable item of the document before the n-th holds what its    *)
(* register held when the latest XmlGetting began.                         *)
Kept(i) == Restorable(i, base[Reg[i]]) /\ Reg[i] \notin since["get"]
ReadUpTo(d, n) ==
    \A k \in 1..Len(d) :
        k < n /\ Kept(d[k].name) =>
            \E method \in {"static", "dhcp", "none"} :
                d[k].val = ItemValue(d[k].name, base[Reg[d[k].name]], method)

RestoreInv ==
    /\ Getting => /\ ReadUpTo(doc, at)
                  /\ \A r \in Regs \ since["get"] : regs[r] = base[r]
    /\ got => /\ ReadUpTo(file, Len(file) + 1)
              /\ \A k \in 1..Len(file) :
                    Kept(file[k].name) => regs[Reg[file[k].name]] = base[Reg[file[k].name]]
---------------------------------------------------------------------------
(* Every step keeps the types.                                             *)

(* An item of a document names a parameter and a text.                     *)
LEMMA ItemOf ==
    ASSUME NEW d, IsDocument(d), NEW k \in 1..Len(d)
    PROVE  /\ d[k].name \in Items /\ d[k].val \in Texts
           /\ RegOf(d[k].name) \in Regs /\ Reg[d[k].name] \in Regs
<1>1. d[k] \in Entries
  BY DEF IsDocument
<1>. QED
  BY <1>1 DEF Entries, RegOf, Regs

(* The next item of the document that is set or read.                      *)
LEMMA NextItem ==
    ASSUME TypeInv, pc \in {"set", "get"}
    PROVE  /\ at \in 1..Len(doc) /\ doc # <<>>
           /\ doc[at].name \in Items /\ doc[at].val \in Texts
           /\ RegOf(doc[at].name) \in Regs
<1>1. at \in 1..Len(doc) /\ doc \in Seq(Entries)
  BY DEF TypeInv, IsDocument
<1>2. doc[at] \in Entries
  BY <1>1
<1>. QED
  BY <1>1, <1>2 DEF Entries, RegOf, Regs

(* What a failed open or a driver that starts touches.                     *)
LEMMA TouchType ==
    ASSUME TypeInv, NEW r \in Regs, Touch(r)
    PROVE  /\ since' \in [{"set", "get"} -> SUBSET Regs] /\ troubles' \in 0..MaxTroubles
           /\ \A o \in {"set", "get"} : since'[o] = since[o] \cup {r}
  BY BoundAssumption DEF TypeInv, Touch, Trouble

(* An item that is set or read touches at most its register.               *)
LEMMA OpensType ==
    ASSUME TypeInv, NEW i \in Items, RegOf(i) \in Regs, NEW ok \in BOOLEAN, Opens(i, ok)
    PROVE  /\ since' \in [{"set", "get"} -> SUBSET Regs] /\ troubles' \in 0..MaxTroubles
           /\ \A o \in {"set", "get"} :
                since'[o] = IF ok THEN since[o] ELSE since[o] \cup {RegOf(i)}
<1>1. CASE ok
  BY <1>1 DEF Opens, Untouched, TypeInv
<1>2. CASE ~ok
  <2>1. Touch(RegOf(i))
    BY <1>2 DEF Opens
  <2>. QED
    BY <1>2, <2>1, TouchType
<1>. QED
  BY <1>1, <1>2

(* A document under way names every item once and has a text for each, and *)
(* the process is at an item of it, or behind the last one.                *)
THEOREM TypeCorrect == Spec => []TypeInv
<1>0. /\ IsDocument(<<>>) /\ Len(<<>>) = 0
      /\ Nothing \in [Regs -> RegValues]
      /\ \A f \in Files : IsDocument(f)
  <2>1. IsDocument(<<>>) /\ Len(<<>>) = 0
    BY DEF IsDocument
  <2>2. Nothing \in [Regs -> RegValues]
    BY TableAssumption DEF Nothing, RegValues, Word32
  <2>3. \A f \in Files : IsDocument(f)
    BY FileAssumption DEF IsDocument, Entries
  <2>. QED
    BY <2>1, <2>2, <2>3
<1>1. Init => TypeInv
  <2>. SUFFICES ASSUME Init PROVE TypeInv
    OBVIOUS
  <2>1. IsDocument(file) /\ IsDocument(doc) /\ IsDocument(asSet)
    BY <1>0, Zenon DEF Init
  <2>2. /\ regs \in [Regs -> RegValues] /\ applied \in [Regs -> RegValues]
        /\ base \in [Regs -> RegValues] /\ before \in [Regs -> RegValues]
    BY <1>0, TableAssumption, Zenon DEF Init
  <2>3. got \in BOOLEAN
    BY Zenon DEF Init
  <2>. QED
    BY <2>1, <2>2, <2>3, BoundAssumption DEF Init, TypeInv
<1>2. TypeInv /\ [Next]_vars => TypeInv'
  <2>. USE DEF setVars
  <2>. SUFFICES ASSUME TypeInv, [Next]_vars PROVE TypeInv'
    OBVIOUS
  <2>1. CASE XmlSetting
    <3>1. Len(file) \in Nat /\ Len(file) # 0
      BY <2>1 DEF XmlSetting, TypeInv, IsDocument
    <3>. QED
      BY <2>1, <1>0, <3>1 DEF XmlSetting, TypeInv
  <2>2. CASE XmlGetting
    <3>1. Len(file) \in Nat /\ Len(file) # 0
      BY <2>2 DEF XmlGetting, TypeInv, IsDocument
    <3>2. got' \in BOOLEAN
      BY <2>2, Zenon DEF XmlGetting
    <3>. QED
      BY <2>2, <1>0, <3>1, <3>2 DEF XmlGetting, TypeInv
  <2>3. ASSUME NEW ok \in BOOLEAN, pc = "set", SetItem(Item.name, Item.val, ok)
        PROVE  TypeInv'
    <3>. DEFINE i == doc[at].name
                v == doc[at].val
    <3>1. /\ at \in 1..Len(doc) /\ doc # <<>>
          /\ i \in Items /\ v \in Texts /\ RegOf(i) \in Regs
      BY <2>3, NextItem
    <3>2. since' \in [{"set", "get"} -> SUBSET Regs] /\ troubles' \in 0..MaxTroubles
      BY <2>3, <3>1, OpensType DEF SetItem, Item
    <3>3. regs' \in [Regs -> RegValues]
      BY <2>3, <3>1, RegValueType DEF SetItem, Item, TypeInv
    <3>4. missed' \subseteq Items
      BY <2>3, <3>1 DEF SetItem, Item, TypeInv
    <3>. QED
      BY <2>3, <3>1, <3>2, <3>3, <3>4 DEF SetItem, TypeInv
  <2>4. ASSUME NEW ok \in BOOLEAN, pc = "get", GetItem(Item.name, ok) PROVE TypeInv'
    <3>. DEFINE i == doc[at].name
                r == IF ok THEN regs[RegOf(i)] ELSE 0
    <3>1. /\ at \in 1..Len(doc) /\ doc # <<>>
          /\ i \in Items /\ RegOf(i) \in Regs
      BY <2>4, NextItem
    <3>2. since' \in [{"set", "get"} -> SUBSET Regs] /\ troubles' \in 0..MaxTroubles
      BY <2>4, <3>1, OpensType DEF GetItem, Item
    <3>3. r \in RegValues
      BY <3>1, TableAssumption DEF TypeInv, RegValues, Word32
    <3>4. PICK method \in {"static", "dhcp", "none"} :
             doc' = [doc EXCEPT ![at].val = ItemValue(i, r, method)]
      BY <2>4 DEF GetItem, Item
    <3>. DEFINE w == ItemValue(i, r, method)
    <3>5. w \in Texts
      BY <3>1, <3>3, ItemValueType
    <3>. HIDE DEF w
    <3>6. doc \in Seq(Entries) /\ \A k, l \in 1..Len(doc) : doc[k].name = doc[l].name => k = l
      BY DEF TypeInv, IsDocument
    <3>. DEFINE e == [doc[at] EXCEPT !.val = w]
    <3>7. doc' = [doc EXCEPT ![at] = e]
      BY <3>4 DEF w
    <3>8. e \in Entries /\ e.name = doc[at].name
      <4>1. doc[at] \in Entries
        BY <3>1, <3>6
      <4>. HIDE DEF w
      <4>. QED
        BY <3>5, <4>1 DEF Entries
    <3>. HIDE DEF e
    <3>9. doc' \in Seq(Entries) /\ Len(doc') = Len(doc)
          /\ \A k \in 1..Len(doc) : doc'[k].name = doc[k].name
      BY <3>1, <3>6, <3>7, <3>8
    <3>. QED
      BY <2>4, <3>1, <3>2, <3>6, <3>9 DEF GetItem, TypeInv, IsDocument
  <2>5. ASSUME NEW ok \in BOOLEAN, Notify(ok) PROVE TypeInv'
    <3>1. troubles' \in 0..MaxTroubles
      BY <2>5, BoundAssumption DEF Notify, Trouble, TypeInv
    <3>2. IsDocument(asSet') /\ IsDocument(doc') /\ applied' \in [Regs -> RegValues]
      BY <2>5, <1>0 DEF Notify, TypeInv
    <3>. QED
      BY <2>5, <3>1, <3>2 DEF Notify, TypeInv
  <2>6. ASSUME NEW ok \in BOOLEAN, Save(ok) PROVE TypeInv'
    BY <2>6, <1>0 DEF Save, TypeInv
  <2>7. CASE Write
    BY <2>7, <1>0 DEF Write, TypeInv
  <2>8. CASE Crash
    BY <2>8, <1>0 DEF Crash, TypeInv
  <2>9. CASE Edit
    <3>1. IsDocument(file') /\ IsDocument(asSet')
      BY <2>9, <1>0, Zenon DEF Edit
    <3>2. got' \in BOOLEAN
      BY <2>9, Zenon DEF Edit
    <3>. QED
      BY <2>9, <1>0, <3>1, <3>2 DEF Edit, TypeInv
  <2>10. CASE DriverStart
    <3>1. TriggerReg \in Regs /\ 0 \in RegValues
      BY TableAssumption DEF Regs, RegValues, Word32
    <3>2. since' \in [{"set", "get"} -> SUBSET Regs] /\ troubles' \in 0..MaxTroubles
      BY <2>10, <3>1, TouchType DEF DriverStart
    <3>. QED
      BY <2>10, <3>1, <3>2 DEF DriverStart, TypeInv
  <2>11. CASE UNCHANGED vars
    BY <2>11 DEF vars, TypeInv
  <2>. QED
    BY <2>1, <2>2, <2>3, <2>4, <2>5, <2>6, <2>7, <2>8, <2>9, <2>10, <2>11 DEF Next
<1>. QED
  BY <1>1, <1>2, PTL DEF Spec

(* The types that the runs check.                                          *)
THEOREM TypeOKHolds == Spec => []TypeOK
<1>1. TypeInv => TypeOK
  <2>. SUFFICES ASSUME TypeInv PROVE TypeOK
    OBVIOUS
  <2>1. \A f \in {file, doc, asSet} : \A k \in 1..Len(f) : f[k].val \in Texts
    BY ItemOf DEF TypeInv
  <2>2. Len(doc) \in Nat
    BY DEF TypeInv, IsDocument
  <2>3. at \in 0..(Len(doc) + 1)
    BY <2>2 DEF TypeInv
  <2>. QED
    BY <2>1, <2>3 DEF TypeInv, TypeOK
<1>. QED
  BY <1>1, TypeCorrect, PTL
---------------------------------------------------------------------------
(* What a step does to the registers.                                      *)

(* Items of these types have a register that ParamItemSet writes.          *)
IsWritten(i) == Type[i] \in {"String", "Int", "Bool", "Double"}

(* Two items of a document that are written go to different registers.     *)
LEMMA OwnRegister ==
    ASSUME NEW d, IsDocument(d), NEW k \in 1..Len(d), NEW l \in 1..Len(d), k # l,
           IsWritten(d[k].name), IsWritten(d[l].name)
    PROVE  RegOf(d[k].name) # RegOf(d[l].name)
<1>1. d[k] \in Entries /\ d[l] \in Entries
  BY DEF IsDocument
<1>2. d[k].name \in Items /\ d[l].name \in Items
  BY <1>1 DEF Entries
<1>3. d[k].name # d[l].name
  BY DEF IsDocument
<1>. QED
  BY <1>2, <1>3, RegisterAssumption DEF IsWritten

(* Setting an item: its register gets its value, or is marked as touched;  *)
(* no other register changes.                                              *)
LEMMA SetItemStep ==
    ASSUME TypeInv, NEW ok \in BOOLEAN, pc = "set", SetItem(Item.name, Item.val, ok)
    PROVE  /\ at \in 1..Len(doc) /\ at' = at + 1 /\ pc' \in {"set", "notify"}
           /\ \A r \in Regs : r # RegOf(doc[at].name) => regs'[r] = regs[r]
           /\ ~Accepts(doc[at].name, doc[at].val) => regs' = regs
           /\ ok /\ Accepts(doc[at].name, doc[at].val) =>
                regs'[RegOf(doc[at].name)] = RegValue(doc[at].name, doc[at].val)
           /\ \A o \in {"set", "get"} :
                since'[o] = IF ok THEN since[o] ELSE since[o] \cup {RegOf(doc[at].name)}
           /\ missed' = IF ok THEN missed \ {doc[at].name} ELSE missed \cup {doc[at].name}
           /\ UNCHANGED <<file, doc, applied, asSet, got, base, before>>
<1>1. /\ at \in 1..Len(doc) /\ doc[at].name \in Items /\ RegOf(doc[at].name) \in Regs
  BY NextItem
<1>2. regs \in [Regs -> RegValues]
  BY DEF TypeInv
<1>3. \A o \in {"set", "get"} :
        since'[o] = IF ok THEN since[o] ELSE since[o] \cup {RegOf(doc[at].name)}
  BY <1>1, OpensType DEF SetItem, Item
<1>. QED
  BY <1>1, <1>2, <1>3 DEF SetItem, Item

(* Reading an item: its text is what the register shows, or the register   *)
(* is marked as touched; no register changes.                              *)
LEMMA GetItemStep ==
    ASSUME TypeInv, NEW ok \in BOOLEAN, pc = "get", GetItem(Item.name, ok)
    PROVE  /\ at \in 1..Len(doc) /\ at' = at + 1 /\ pc' \in {"get", "save"}
           /\ Len(doc') = Len(doc)
           /\ \A k \in 1..Len(doc) : /\ doc'[k].name = doc[k].name
                                     /\ k # at => doc'[k] = doc[k]
           /\ ok => \E method \in {"static", "dhcp", "none"} :
                doc'[at].val =
                    ItemValue(doc[at].name, regs[RegOf(doc[at].name)], method)
           /\ \A o \in {"set", "get"} :
                since'[o] = IF ok THEN since[o] ELSE since[o] \cup {RegOf(doc[at].name)}
           /\ UNCHANGED <<file, regs, applied, asSet, got, base, setVars>>
<1>1. /\ at \in 1..Len(doc) /\ doc[at].name \in Items /\ RegOf(doc[at].name) \in Regs
  BY NextItem
<1>2. doc \in Seq(Entries)
  BY DEF TypeInv, IsDocument
<1>. DEFINE r == IF ok THEN regs[RegOf(doc[at].name)] ELSE 0
<1>3. PICK method \in {"static", "dhcp", "none"} :
        doc' = [doc EXCEPT ![at].val = ItemValue(doc[at].name, r, method)]
  BY DEF GetItem, Item
<1>. DEFINE w == ItemValue(doc[at].name, r, method)
            e == [doc[at] EXCEPT !.val = w]
<1>4. doc' = [doc EXCEPT ![at] = e]
  BY <1>3
<1>5. e.name = doc[at].name /\ e.val = w
  <2>1. doc[at] \in Entries
    BY <1>1, <1>2
  <2>. HIDE DEF w
  <2>. QED
    BY <2>1 DEF Entries
<1>6. /\ Len(doc') = Len(doc)
      /\ \A k \in 1..Len(doc) : /\ doc'[k].name = doc[k].name
                                /\ k # at => doc'[k] = doc[k]
      /\ doc'[at].val = w
  <2>. HIDE DEF w, e
  <2>. QED
    BY <1>1, <1>2, <1>4, <1>5
<1>7. \A o \in {"set", "get"} :
        since'[o] = IF ok THEN since[o] ELSE since[o] \cup {RegOf(doc[at].name)}
  BY <1>1, OpensType DEF GetItem, Item
<1>8. ok => \E m \in {"static", "dhcp", "none"} :
              doc'[at].val = ItemValue(doc[at].name, regs[RegOf(doc[at].name)], m)
  BY <1>3, <1>6
<1>. HIDE DEF w, e
<1>. QED
  BY <1>1, <1>6, <1>7, <1>8 DEF GetItem

(* A driver that starts changes one register and marks it as touched.      *)
LEMMA DriverStartStep ==
    ASSUME TypeInv, DriverStart
    PROVE  /\ \A r \in Regs : r # TriggerReg => regs'[r] = regs[r]
           /\ \A o \in {"set", "get"} : since'[o] = since[o] \cup {TriggerReg}
           /\ UNCHANGED <<file, pc, doc, at, applied, asSet, got, base, setVars>>
<1>1. TriggerReg \in Regs /\ regs \in [Regs -> RegValues]
  BY DEF Regs, TypeInv
<1>2. \A o \in {"set", "get"} : since'[o] = since[o] \cup {TriggerReg}
  BY <1>1, TouchType DEF DriverStart
<1>. QED
  BY <1>1, <1>2 DEF DriverStart

---------------------------------------------------------------------------
(* XmlSetting.                                                             *)

(* An item that is accepted is written.                                    *)
LEMMA AcceptedIsWritten ==
    ASSUME NEW i, NEW v, Accepts(i, v)
    PROVE  IsWritten(i)
  BY DEF Accepts, IsWritten

(* While XmlSetting runs, the registers hold the items it has reached;     *)
(* once it has ended they hold the file, but for those somebody touched.   *)
THEOREM SetInvariant == Spec => []SetInv
<1>1. Init => SetInv
  BY DEF Init, SetInv, Setting, WrittenUpTo
<1>2. TypeInv /\ SetInv /\ [Next]_vars => SetInv'
  <2>. SUFFICES ASSUME TypeInv, SetInv, [Next]_vars PROVE SetInv'
    OBVIOUS
  <2>. USE DEF SetInv, Setting
  <2>1. CASE XmlSetting
    <3>1. asSet' = <<>> /\ doc' = file /\ file' = file /\ at' = 1
      BY <2>1 DEF XmlSetting
    <3>. QED
      BY <3>1 DEF WrittenUpTo
  <2>2. CASE XmlGetting
    <3>1. UNCHANGED <<regs, asSet, applied>> /\ since'["set"] = since["set"]
      BY <2>2 DEF XmlGetting, TypeInv
    <3>. QED
      BY <2>2, <3>1 DEF XmlGetting, WrittenUpTo
  <2>3. ASSUME NEW ok \in BOOLEAN, pc = "set", SetItem(Item.name, Item.val, ok)
        PROVE  SetInv'
    <3>1. asSet = <<>> /\ doc = file /\ WrittenUpTo(doc, at)
      BY <2>3
    <3>2. IsDocument(doc)
      BY DEF TypeInv
    <3>3. ASSUME NEW k \in 1..Len(doc), k < at + 1,
                 Accepts(doc[k].name, doc[k].val), RegOf(doc[k].name) \notin since'["set"]
          PROVE  regs'[RegOf(doc[k].name)] = RegValue(doc[k].name, doc[k].val)
      <4>1. CASE k = at
        <5>1. ok
          BY <2>3, <3>3, <4>1, SetItemStep
        <5>. QED
          BY <2>3, <3>3, <4>1, <5>1, SetItemStep
      <4>2. CASE k # at
        <5>1. at \in 1..Len(doc) /\ k < at
          BY <2>3, <3>3, <4>2, SetItemStep
        <5>2. regs[RegOf(doc[k].name)] = RegValue(doc[k].name, doc[k].val)
          BY <2>3, <3>1, <3>3, <5>1, SetItemStep DEF WrittenUpTo
        <5>3. regs'[RegOf(doc[k].name)] = regs[RegOf(doc[k].name)]
          <6>1. CASE Accepts(doc[at].name, doc[at].val)
            BY <2>3, <3>2, <3>3, <4>2, <5>1, <6>1, AcceptedIsWritten, OwnRegister,
               ItemOf, SetItemStep
          <6>2. CASE ~Accepts(doc[at].name, doc[at].val)
            BY <2>3, <6>2, SetItemStep
          <6>. QED
            BY <6>1, <6>2
        <5>. QED
          BY <5>2, <5>3
      <4>. QED
        BY <4>1, <4>2
    <3>4. WrittenUpTo(doc, at)'
      BY <2>3, <3>3, SetItemStep DEF WrittenUpTo
    <3>5. asSet' = <<>> /\ doc' = file'
      BY <2>3, <3>1, SetItemStep
    <3>. QED
      BY <3>4, <3>5 DEF WrittenUpTo
  <2>4. ASSUME NEW ok \in BOOLEAN, pc = "get", GetItem(Item.name, ok) PROVE SetInv'
    <3>1. since["set"] \subseteq since'["set"] /\ pc' \notin {"set", "notify"}
      BY <2>4, GetItemStep
    <3>2. UNCHANGED <<regs, asSet, applied>>
      BY <2>4, GetItemStep
    <3>. QED
      BY <3>1, <3>2 DEF WrittenUpTo
  <2>5. ASSUME NEW ok \in BOOLEAN, Notify(ok) PROVE SetInv'
    <3>1. CASE ok
      <4>1. /\ asSet' = doc /\ applied' = regs /\ regs' = regs /\ since' = since
            /\ pc' = "idle"
        BY <2>5, <3>1 DEF Notify
      <4>2. WrittenUpTo(doc, Len(doc) + 1)
        BY <2>5 DEF Notify, TypeInv
      <4>3. WrittenUpTo(asSet, Len(asSet) + 1)'
        BY <4>1, <4>2 DEF WrittenUpTo
      <4>. QED
        BY <4>1, <4>3
    <3>2. CASE ~ok
      BY <2>5, <3>2 DEF Notify, WrittenUpTo
    <3>. QED
      BY <3>1, <3>2
  <2>6. ASSUME NEW ok \in BOOLEAN, Save(ok) PROVE SetInv'
    BY <2>6 DEF Save, WrittenUpTo
  <2>7. CASE Write
    BY <2>7 DEF Write, WrittenUpTo
  <2>8. CASE Crash
    BY <2>8 DEF Crash, WrittenUpTo
  <2>9. CASE Edit
    <3>1. asSet' = <<>> /\ pc' = "idle"
      BY <2>9 DEF Edit
    <3>. QED
      BY <3>1 DEF WrittenUpTo
  <2>10. CASE DriverStart
    <3>1. /\ \A r \in Regs : r # TriggerReg => regs'[r] = regs[r]
          /\ since'["set"] = since["set"] \cup {TriggerReg}
          /\ UNCHANGED <<file, pc, doc, at, applied, asSet>>
      BY <2>10, DriverStartStep
    <3>2. IsDocument(doc) /\ IsDocument(asSet)
      BY DEF TypeInv
    <3>3. ASSUME NEW d, NEW n, IsDocument(d), WrittenUpTo(d, n),
                 NEW k \in 1..Len(d), k < n,
                 Accepts(d[k].name, d[k].val), RegOf(d[k].name) \notin since'["set"]
          PROVE  regs'[RegOf(d[k].name)] = RegValue(d[k].name, d[k].val)
      BY <3>1, <3>3, ItemOf DEF WrittenUpTo
    <3>4. WrittenUpTo(asSet, Len(asSet) + 1)'
      BY <3>1, <3>2, <3>3 DEF WrittenUpTo
    <3>5. pc \in {"set", "notify"} => WrittenUpTo(doc, at)'
      BY <3>1, <3>2, <3>3 DEF WrittenUpTo
    <3>. QED
      BY <3>1, <3>4, <3>5
  <2>11. CASE UNCHANGED vars
    BY <2>11 DEF vars, WrittenUpTo
  <2>. QED
    BY <2>1, <2>2, <2>3, <2>4, <2>5, <2>6, <2>7, <2>8, <2>9, <2>10, <2>11 DEF Next
<1>. QED
  BY <1>1, <1>2, TypeCorrect, PTL DEF Spec

---------------------------------------------------------------------------
(* What takes effect.                                                      *)

AppliedInv ==
    /\ Setting => SetUpTo(doc, at, regs)
    /\ AppliedIsFile

(* Setting one item more: the items before it keep their registers, and    *)
(* it sets its own if it is accepted and its device opens.                 *)
LEMMA SetOneMore ==
    ASSUME TypeInv, SetUpTo(doc, at, regs), NEW ok \in BOOLEAN, pc = "set",
           SetItem(Item.name, Item.val, ok)
    PROVE  SetUpTo(doc, at, regs)'
<1>. DEFINE i == doc[at].name
            v == doc[at].val
<1>1. /\ at \in 1..Len(doc) /\ at' = at + 1 /\ doc' = doc /\ before' = before
      /\ missed' = IF ok THEN missed \ {i} ELSE missed \cup {i}
      /\ since["set"] \subseteq since'["set"]
  BY SetItemStep
<1>2. PICK here \in 1..Len(doc) : here = at
  BY <1>1
<1>3. IsDocument(doc)
  BY DEF TypeInv
<1>4. \A k \in 1..Len(doc) : k # at => doc[k].name # i
  BY <1>1, <1>3 DEF IsDocument
<1>5. ASSUME NEW k \in 1..Len(doc), NEW r, k # at
      PROVE  Sets(doc, k, r)' <=> Sets(doc, k, r)
  <2>1. doc[k].name \in missed' <=> doc[k].name \in missed
    BY <1>1, <1>4, <1>5
  <2>. HIDE DEF i
  <2>. QED
    BY <1>1, <2>1 DEF Sets
<1>6. ASSUME NEW r \in Regs, r # TriggerReg \/ r \notin since'["set"]
      PROVE  /\ \A k \in 1..Len(doc) :
                  k < at + 1 /\ Sets(doc, k, r)' => regs'[r] = RegValue(doc[k].name, doc[k].val)
             /\ (\A k \in 1..Len(doc) : k < at + 1 => ~Sets(doc, k, r)')
                  => regs'[r] = before[r]
  <2>1. /\ \A k \in 1..Len(doc) :
              k < at /\ Sets(doc, k, r) => regs[r] = RegValue(doc[k].name, doc[k].val)
        /\ (\A k \in 1..Len(doc) : k < at => ~Sets(doc, k, r)) => regs[r] = before[r]
    BY <1>1, <1>6 DEF SetUpTo
  <2>2. CASE Accepts(i, v) /\ RegOf(i) = r
    <3>1. \A k \in 1..Len(doc) : k # at => ~Sets(doc, k, r)
      BY <1>1, <1>3, <2>2, AcceptedIsWritten, OwnRegister DEF Sets
    <3>2. \A k \in 1..Len(doc) : k # at => ~Sets(doc, k, r)'
      BY <1>5, <3>1
    <3>3. CASE ok
      <4>1. Sets(doc, here, r)'
        BY <1>1, <1>2, <2>2, <3>3 DEF Sets
      <4>2. regs'[r] = RegValue(i, v)
        BY <2>2, <3>3, SetItemStep
      <4>. QED
        BY <1>1, <1>2, <3>2, <4>1, <4>2
    <3>4. CASE ~ok
      <4>1. ~Sets(doc, here, r)'
        BY <1>1, <1>2, <3>4 DEF Sets
      <4>2. regs' = regs
        BY <3>4 DEF SetItem
      <4>3. regs[r] = before[r]
        BY <1>1, <2>1, <3>1
      <4>. QED
        BY <1>2, <3>2, <4>1, <4>2, <4>3
    <3>. QED
      BY <3>3, <3>4
  <2>3. CASE ~(Accepts(i, v) /\ RegOf(i) = r)
    <3>1. ~Sets(doc, here, r)'
      BY <1>1, <1>2, <2>3 DEF Sets
    <3>2. regs'[r] = regs[r]
      BY <1>6, <2>3, SetItemStep
    <3>3. \A k \in 1..Len(doc) : k < at + 1 /\ k # at => k < at
      BY <1>1
    <3>4. \A k \in 1..Len(doc) : k < at => k < at + 1 /\ k # at
      BY <1>1
    <3>. QED
      BY <1>2, <1>5, <2>1, <3>1, <3>2, <3>3, <3>4
  <2>. QED
    BY <2>2, <2>3
<1>. HIDE DEF i, v
<1>. QED
  BY <1>1, <1>6 DEF SetUpTo, Sets

(* A driver that starts changes the trigger register only, and marks it.   *)
LEMMA SetUpToDriver ==
    ASSUME TypeInv, DriverStart
    PROVE  /\ SetUpTo(doc, at, regs) => SetUpTo(doc, at, regs)'
           /\ SetUpTo(asSet, Len(asSet) + 1, applied)
                => SetUpTo(asSet, Len(asSet) + 1, applied)'
<1>1. /\ \A r \in Regs : r # TriggerReg => regs'[r] = regs[r]
      /\ since'["set"] = since["set"] \cup {TriggerReg}
      /\ UNCHANGED <<doc, at, applied, asSet, before, missed>>
  BY DriverStartStep DEF setVars
<1>. QED
  BY <1>1 DEF SetUpTo, Sets

(* While XmlSetting runs the registers are what the items it has reached   *)
(* make of the old ones; what it makes effective is what all items make of *)
(* them.                                                                   *)
THEOREM AppliedInvariant == Spec => []AppliedInv
<1>1. Init => AppliedInv
  BY DEF Init, AppliedInv, Setting, AppliedIsFile
<1>2. TypeInv /\ SetInv /\ AppliedInv /\ [Next]_vars => AppliedInv'
  <2>. SUFFICES ASSUME TypeInv, SetInv, AppliedInv, [Next]_vars PROVE AppliedInv'
    OBVIOUS
  <2>. USE DEF AppliedInv, Setting, AppliedIsFile
  <2>1. CASE XmlSetting
    <3>1. /\ asSet' = <<>> /\ doc' = file /\ at' = 1 /\ before' = regs
          /\ regs' = regs /\ since'["set"] = {}
      BY <2>1 DEF XmlSetting, TypeInv
    <3>2. \A k \in 1..Len(doc') : ~(k < 1)
      OBVIOUS
    <3>. QED
      BY <3>1, <3>2 DEF SetUpTo
  <2>2. CASE XmlGetting
    <3>1. /\ UNCHANGED <<asSet, applied, setVars>> /\ since'["set"] = since["set"]
          /\ pc' = "get"
      BY <2>2 DEF XmlGetting, TypeInv
    <3>. QED
      BY <3>1 DEF SetUpTo, Sets, setVars
  <2>3. ASSUME NEW ok \in BOOLEAN, pc = "set", SetItem(Item.name, Item.val, ok)
        PROVE  AppliedInv'
    <3>1. asSet' = <<>>
      BY <2>3, SetItemStep DEF SetInv
    <3>2. SetUpTo(doc, at, regs)'
      BY <2>3, SetOneMore
    <3>. QED
      BY <3>1, <3>2
  <2>4. ASSUME NEW ok \in BOOLEAN, pc = "get", GetItem(Item.name, ok) PROVE AppliedInv'
    <3>1. /\ UNCHANGED <<asSet, applied, setVars>> /\ pc' \notin {"set", "notify"}
          /\ since["set"] \subseteq since'["set"]
      BY <2>4, GetItemStep
    <3>. QED
      BY <3>1 DEF SetUpTo, Sets, setVars
  <2>5. ASSUME NEW ok \in BOOLEAN, Notify(ok) PROVE AppliedInv'
    <3>1. UNCHANGED <<since, setVars>> /\ pc = "notify" /\ pc' = "idle"
          /\ at = Len(doc) + 1
      BY <2>5 DEF Notify, TypeInv
    <3>2. CASE ok
      <4>1. asSet' = doc /\ applied' = regs
        BY <2>5, <3>2 DEF Notify
      <4>2. SetUpTo(doc, Len(doc) + 1, regs)
        BY <3>1
      <4>. QED
        BY <3>1, <4>1, <4>2 DEF SetUpTo, Sets, setVars
    <3>3. CASE ~ok
      BY <2>5, <3>1, <3>3 DEF Notify
    <3>. QED
      BY <3>2, <3>3
  <2>6. ASSUME NEW ok \in BOOLEAN, Save(ok) PROVE AppliedInv'
    <3>1. UNCHANGED <<asSet, applied, since, setVars>> /\ pc' \in {"write", "idle"}
      BY <2>6 DEF Save
    <3>. QED
      BY <3>1 DEF SetUpTo, Sets, setVars
  <2>7. CASE Write
    <3>1. UNCHANGED <<asSet, applied, since, setVars>> /\ pc' = "idle"
      BY <2>7 DEF Write
    <3>. QED
      BY <3>1 DEF SetUpTo, Sets, setVars
  <2>8. CASE Crash
    <3>1. UNCHANGED <<asSet, applied, since, setVars>> /\ pc' = "idle"
      BY <2>8 DEF Crash
    <3>. QED
      BY <3>1 DEF SetUpTo, Sets, setVars
  <2>9. CASE Edit
    BY <2>9 DEF Edit
  <2>10. CASE DriverStart
    <3>1. UNCHANGED <<pc, asSet>>
      BY <2>10 DEF DriverStart
    <3>. QED
      BY <2>10, <3>1, SetUpToDriver
  <2>11. CASE UNCHANGED vars
    BY <2>11 DEF vars, setVars, SetUpTo, Sets
  <2>. QED
    BY <2>1, <2>2, <2>3, <2>4, <2>5, <2>6, <2>7, <2>8, <2>9, <2>10, <2>11 DEF Next
<1>. QED
  BY <1>1, <1>2, TypeCorrect, SetInvariant, PTL DEF Spec

(* What the FPGA takes over when XmlSetting ends is what the accepted      *)
(* items whose device opened make of the registers as they were when it    *)
(* began, no less and no more.                                             *)
THEOREM AppliedIsFileHolds == Spec => []AppliedIsFile
<1>1. AppliedInv => AppliedIsFile
  BY DEF AppliedInv
<1>. QED
  BY <1>1, AppliedInvariant, PTL
---------------------------------------------------------------------------
(* XmlGetting after XmlSetting.                                            *)

(* The item read last is as it was set: its register still holds the value *)
(* that XmlSetting gave it, which reads as the text it was made from.      *)
LEMMA ReadAsSet ==
    ASSUME TypeInv, TypeInv', SetInv, NEW ok \in BOOLEAN, pc = "get",
           GetItem(Item.name, ok), SameItems(doc, asSet),
           Canonical(asSet[at].name, asSet[at].val),
           Reg[asSet[at].name] \notin since'["set"]
    PROVE  doc'[at] = asSet[at]
<1>. DEFINE i == asSet[at].name
            v == asSet[at].val
<1>1. at \in 1..Len(doc) /\ at \in 1..Len(asSet) /\ doc[at].name = i
      /\ Len(doc') = Len(doc) /\ doc'[at].name = i
  <2>1. at \in 1..Len(doc) /\ Len(doc') = Len(doc)
    BY GetItemStep
  <2>2. doc'[at].name = doc[at].name
    BY <2>1, GetItemStep
  <2>3. Len(doc) = Len(asSet) /\ doc[at].name = i
    BY <2>1 DEF SameItems
  <2>. QED
    BY <2>1, <2>2, <2>3
<1>2. asSet[at] \in Entries /\ doc'[at] \in Entries
  BY <1>1 DEF TypeInv, IsDocument
<1>3. i \in Items /\ v \in Texts
  BY <1>2 DEF Entries
<1>4. Accepts(i, v) /\ RegOf(i) = Reg[i]
      /\ \A method : ItemValue(i, RegValue(i, v), method) = v
  BY <1>3, SetGet
<1>5. ok /\ RegOf(i) \notin since["set"]
  BY <1>1, <1>4, GetItemStep
<1>6. regs[RegOf(i)] = RegValue(i, v)
  <2>1. at < Len(asSet) + 1
    BY <1>1
  <2>. QED
    BY <1>1, <1>4, <1>5, <2>1 DEF SetInv, WrittenUpTo
<1>7. doc'[at].val = v
  <2>1. PICK method \in {"static", "dhcp", "none"} :
           doc'[at].val = ItemValue(doc[at].name, regs[RegOf(doc[at].name)], method)
    BY <1>5, GetItemStep
  <2>. HIDE DEF i, v
  <2>. QED
    BY <1>1, <1>4, <1>6, <2>1
<1>. QED
  BY <1>1, <1>2, <1>7 DEF Entries

(* What XmlGetting has read of a file that was set is as it was set, and   *)
(* the file it has written is the file that was set.                       *)
THEOREM ReadBackInvariant == Spec => []ReadBackInv
<1>1. Init => ReadBackInv
  BY DEF Init, ReadBackInv, Getting
<1>2. TypeInv /\ TypeInv' /\ SetInv /\ ReadBackInv /\ [Next]_vars => ReadBackInv'
  <2>. SUFFICES ASSUME TypeInv, TypeInv', SetInv, ReadBackInv, [Next]_vars
                PROVE  ReadBackInv'
    OBVIOUS
  <2>. USE DEF ReadBackInv, Getting
  <2>1. CASE XmlSetting
    BY <2>1 DEF XmlSetting
  <2>2. CASE XmlGetting
    <3>1. Len(asSet) \in Nat
      BY DEF TypeInv, IsDocument
    <3>2. UNCHANGED <<file, asSet>> /\ doc' = file /\ at' = 1 /\ file # <<>> /\ pc' = "get"
      BY <2>2 DEF XmlGetting
    <3>3. got' = FALSE
      BY <2>2, Zenon DEF XmlGetting
    <3>4. SameItems(doc, file)'
      BY <3>2 DEF SameItems
    <3>5. UnchangedUpTo(doc, at)'
      BY <3>1, <3>2 DEF UnchangedUpTo
    <3>6. asSet # <<>> => SameItems(doc, asSet)' /\ SameItems(file, asSet)'
      BY <3>2 DEF SameItems
    <3>. QED
      BY <3>2, <3>3, <3>4, <3>5, <3>6
  <2>3. ASSUME NEW ok \in BOOLEAN, pc = "set", SetItem(Item.name, Item.val, ok)
        PROVE  ReadBackInv'
    <3>1. asSet = <<>>
      BY <2>3 DEF SetInv, Setting
    <3>. QED
      BY <2>3, <3>1, SetItemStep
  <2>4. ASSUME NEW ok \in BOOLEAN, pc = "get", GetItem(Item.name, ok)
        PROVE  ReadBackInv'
    <3>1. /\ UNCHANGED <<file, asSet, got>> /\ pc' \in {"get", "save"}
          /\ at \in 1..Len(doc) /\ at' = at + 1
          /\ since["set"] \subseteq since'["set"]
      BY <2>4, GetItemStep
    <3>5. /\ Len(doc') = Len(doc)
          /\ \A k \in 1..Len(doc) : doc'[k].name = doc[k].name
          /\ \A k \in 1..Len(doc) : k # at => doc'[k] = doc[k]
      BY <2>4, GetItemStep
    <3>2. SameItems(doc, file)'
      BY <2>4, <3>1, <3>5 DEF SameItems
    <3>3. ASSUME asSet # <<>>
          PROVE  SameItems(doc, asSet)' /\ UnchangedUpTo(doc, at)'
      <4>1. SameItems(doc, asSet) /\ UnchangedUpTo(doc, at)
        BY <2>4, <3>3
      <4>2. SameItems(doc, asSet)'
        BY <3>1, <3>5, <4>1 DEF SameItems
      <4>3. ASSUME NEW k \in 1..Len(asSet), k < at + 1,
                   Canonical(asSet[k].name, asSet[k].val),
                   Reg[asSet[k].name] \notin since'["set"]
            PROVE  doc'[k] = asSet[k]
        <5>1. CASE k = at
          BY <2>4, <4>1, <4>3, <5>1, ReadAsSet
        <5>2. CASE k # at
          <6>1. k < at /\ k \in 1..Len(doc)
            BY <3>1, <4>1, <4>3, <5>2 DEF SameItems
          <6>2. doc'[k] = doc[k]
            BY <3>5, <5>2, <6>1
          <6>. QED
            BY <3>1, <4>1, <4>3, <6>1, <6>2 DEF UnchangedUpTo
        <5>. QED
          BY <5>1, <5>2
      <4>. QED
        BY <3>1, <4>2, <4>3 DEF UnchangedUpTo
    <3>4. asSet # <<>> => SameItems(file, asSet)'
      BY <2>4, <3>1, <3>2, <3>3 DEF SameItems
    <3>. QED
      BY <2>4, <3>1, <3>2, <3>3, <3>4
  <2>5. ASSUME NEW ok \in BOOLEAN, Notify(ok) PROVE ReadBackInv'
    <3>1. UNCHANGED <<file, got>> /\ pc' = "idle"
      BY <2>5 DEF Notify
    <3>2. CASE ok
      <4>1. asSet' = file
        BY <2>5, <3>2 DEF Notify, SetInv, Setting
      <4>2. SameItems(file, asSet)' /\ UnchangedUpTo(file, Len(asSet) + 1)'
        BY <3>1, <4>1 DEF SameItems, UnchangedUpTo
      <4>. QED
        BY <2>5, <3>1, <4>2
    <3>3. CASE ~ok
      BY <2>5, <3>1, <3>3 DEF Notify
    <3>. QED
      BY <3>2, <3>3
  <2>6. ASSUME NEW ok \in BOOLEAN, Save(ok) PROVE ReadBackInv'
    <3>1. UNCHANGED <<asSet, got, since>> /\ ~got /\ pc = "save"
      BY <2>6 DEF Save
    <3>2. CASE ok /\ file' = <<>> /\ pc' = "write" /\ UNCHANGED <<doc, at>>
      BY <3>1, <3>2 DEF SameItems, UnchangedUpTo
    <3>3. CASE pc' = "idle" /\ UNCHANGED file
      BY <3>1, <3>3 DEF SameItems
    <3>. QED
      BY <2>6, <3>2, <3>3 DEF Save
  <2>7. CASE Write
    <3>1. file' = doc /\ pc = "write" /\ pc' = "idle" /\ UNCHANGED <<asSet, since>>
      BY <2>7 DEF Write
    <3>2. doc # <<>> /\ at = Len(doc) + 1
      BY <3>1 DEF TypeInv
    <3>3. asSet # <<>> => SameItems(file, asSet)' /\ UnchangedUpTo(file, Len(asSet) + 1)'
      BY <3>1, <3>2 DEF SameItems, UnchangedUpTo
    <3>. QED
      BY <3>1, <3>2, <3>3
  <2>8. CASE Crash
    BY <2>8 DEF Crash, SameItems, UnchangedUpTo
  <2>9. CASE Edit
    <3>1. asSet' = <<>> /\ pc' = "idle"
      BY <2>9 DEF Edit
    <3>2. got' = FALSE
      BY <2>9, Zenon DEF Edit
    <3>. QED
      BY <3>1, <3>2
  <2>10. CASE DriverStart
    <3>1. /\ since["set"] \subseteq since'["set"]
          /\ UNCHANGED <<file, pc, doc, at, asSet, got>>
      BY <2>10, DriverStartStep
    <3>2. \A d, n : UnchangedUpTo(d, n) =>
            \A k \in 1..Len(asSet) :
               k < n /\ Canonical(asSet[k].name, asSet[k].val)
                     /\ Reg[asSet[k].name] \notin since'["set"] => d[k] = asSet[k]
      BY <3>1 DEF UnchangedUpTo
    <3>3. UnchangedUpTo(doc, at) => UnchangedUpTo(doc, at)'
      BY <3>1, <3>2 DEF UnchangedUpTo
    <3>4. UnchangedUpTo(file, Len(asSet) + 1) => UnchangedUpTo(file, Len(asSet) + 1)'
      BY <3>1, <3>2 DEF UnchangedUpTo
    <3>5. /\ SameItems(doc, file)' = SameItems(doc, file)
          /\ SameItems(doc, asSet)' = SameItems(doc, asSet)
          /\ SameItems(file, asSet)' = SameItems(file, asSet)
      BY <3>1 DEF SameItems
    <3>. QED
      BY <3>1, <3>3, <3>4, <3>5
  <2>11. CASE UNCHANGED vars
    BY <2>11 DEF vars, SameItems, UnchangedUpTo
  <2>. QED
    BY <2>1, <2>2, <2>3, <2>4, <2>5, <2>6, <2>7, <2>8, <2>9, <2>10, <2>11 DEF Next
<1>. QED
  BY <1>1, <1>2, TypeCorrect, SetInvariant, PTL DEF Spec

(* Reading back a file that has been set does not change it: the canonical *)
(* items whose registers nobody else wrote and whose device opened.        *)
THEOREM SetThenGetHolds == Spec => []SetThenGet
<1>1. TypeInv /\ ReadBackInv => SetThenGet
  BY DEF TypeInv, IsDocument, ReadBackInv, UnchangedUpTo, SetThenGet
<1>. QED
  BY <1>1, TypeCorrect, ReadBackInvariant, PTL
---------------------------------------------------------------------------
(* XmlSetting after XmlGetting.                                            *)

(* A restorable item is written, to its own register.                      *)
LEMMA RestorableIsWritten ==
    ASSUME NEW i, NEW r, Restorable(i, r)
    PROVE  IsWritten(i) /\ RegOf(i) = Reg[i]
  BY DEF Restorable, IsWritten, RegOf

(* A step that leaves base alone and forgets no touched register keeps no  *)
(* more items than before, and with them what was read.                    *)
LEMMA KeptBefore ==
    ASSUME UNCHANGED base, since["get"] \subseteq since'["get"]
    PROVE  /\ \A i : Kept(i)' => Kept(i) /\ Reg[i] \notin since'["get"]
           /\ \A d, n : ReadUpTo(d, n) =>
                \A k \in 1..Len(d) :
                    k < n /\ Kept(d[k].name)' =>
                        \E method \in {"static", "dhcp", "none"} :
                            d[k].val = ItemValue(d[k].name, base[Reg[d[k].name]], method)
<1>1. \A i : Kept(i)' => Kept(i) /\ Reg[i] \notin since'["get"]
  BY DEF Kept
<1>. QED
  BY <1>1 DEF ReadUpTo

(* What XmlGetting has read is what the registers held when it began, and  *)
(* until the file is edited they hold it still, or again.                  *)
THEOREM RestoreInvariant == Spec => []RestoreInv
<1>1. Init => RestoreInv
  BY DEF Init, RestoreInv, Getting
<1>2. TypeInv /\ SetInv /\ ReadBackInv /\ RestoreInv /\ [Next]_vars => RestoreInv'
  <2>. SUFFICES ASSUME TypeInv, SetInv, ReadBackInv, RestoreInv, [Next]_vars
                PROVE  RestoreInv'
    OBVIOUS
  <2>. USE DEF RestoreInv, Getting
  <2>1. CASE XmlSetting
    <3>1. UNCHANGED <<file, regs, got, base>> /\ pc' = "set"
          /\ since'["get"] = since["get"]
      BY <2>1 DEF XmlSetting, TypeInv
    <3>. QED
      BY <3>1 DEF ReadUpTo, Kept
  <2>2. CASE XmlGetting
    <3>1. doc' = file /\ at' = 1 /\ base' = regs /\ regs' = regs
      BY <2>2 DEF XmlGetting
    <3>2. got' = FALSE
      BY <2>2, Zenon DEF XmlGetting
    <3>. QED
      BY <3>1, <3>2 DEF ReadUpTo
  <2>3. ASSUME NEW ok \in BOOLEAN, pc = "set", SetItem(Item.name, Item.val, ok)
        PROVE  RestoreInv'
    <3>1. /\ UNCHANGED <<file, got, base>> /\ pc' \in {"set", "notify"} /\ doc = file
          /\ since["get"] \subseteq since'["get"] /\ at \in 1..Len(doc)
      BY <2>3, SetItemStep DEF SetInv, Setting
    <3>2. SUFFICES ASSUME got
                   PROVE  /\ ReadUpTo(file, Len(file) + 1)'
                          /\ \A k \in 1..Len(file) : Kept(file[k].name)' =>
                                regs'[Reg[file[k].name]] = base[Reg[file[k].name]]
      BY <3>1, Zenon
    <3>3. ReadUpTo(file, Len(file) + 1)'
      BY <3>1, <3>2, KeptBefore DEF ReadUpTo
    <3>4. ASSUME NEW k \in 1..Len(doc), Kept(doc[k].name),
                 Reg[doc[k].name] \notin since'["get"]
          PROVE  regs'[Reg[doc[k].name]] = base[Reg[doc[k].name]]
      <4>. DEFINE i == doc[k].name
                  r == base[Reg[doc[k].name]]
      <4>1. Kept(i) /\ Reg[i] \notin since'["get"] /\ Restorable(i, r)
            /\ IsWritten(i) /\ RegOf(i) = Reg[i] /\ regs[Reg[i]] = r
        BY <3>1, <3>2, <3>4, RestorableIsWritten DEF Kept
      <4>2. IsDocument(doc) /\ i \in Items /\ RegOf(i) \in Regs /\ r \in RegValues
        BY <4>1, ItemOf DEF TypeInv
      <4>3. CASE k = at
        <5>1. ok
          BY <2>3, <4>1, <4>3, SetItemStep
        <5>2. CASE Accepts(i, doc[k].val)
          <6>1. PICK method \in {"static", "dhcp", "none"} :
                   doc[k].val = ItemValue(i, r, method)
            <7>1. k < Len(file) + 1
              BY <3>1
            <7>. QED
              BY <3>1, <3>2, <4>1, <7>1 DEF ReadUpTo
          <6>2. RegValue(i, doc[k].val) = r
            BY <4>1, <4>2, <5>2, <6>1, GetSet
          <6>. QED
            BY <2>3, <4>1, <4>3, <5>1, <5>2, <6>2, SetItemStep
        <5>3. CASE ~Accepts(i, doc[k].val)
          BY <2>3, <4>1, <4>3, <5>3, SetItemStep
        <5>. QED
          BY <5>2, <5>3
      <4>4. CASE k # at
        <5>1. CASE Accepts(doc[at].name, doc[at].val)
          <6>1. RegOf(i) # RegOf(doc[at].name)
            BY <3>1, <4>1, <4>2, <4>4, <5>1, AcceptedIsWritten, OwnRegister
          <6>. QED
            BY <2>3, <4>1, <4>2, <6>1, SetItemStep
        <5>2. CASE ~Accepts(doc[at].name, doc[at].val)
          BY <2>3, <4>1, <5>2, SetItemStep
        <5>. QED
          BY <5>1, <5>2
      <4>. QED
        BY <4>3, <4>4
    <3>5. ASSUME NEW k \in 1..Len(file), Kept(file[k].name)'
          PROVE  regs'[Reg[file[k].name]] = base[Reg[file[k].name]]
      <4>1. Kept(file[k].name) /\ Reg[file[k].name] \notin since'["get"]
        BY <3>1, <3>5, KeptBefore DEF Kept
      <4>. QED
        BY <3>1, <3>4, <4>1
    <3>. QED
      BY <3>3, <3>5
  <2>4. ASSUME NEW ok \in BOOLEAN, pc = "get", GetItem(Item.name, ok) PROVE RestoreInv'
    <3>1. /\ UNCHANGED <<regs, base>> /\ at \in 1..Len(doc) /\ at' = at + 1
          /\ since["get"] \subseteq since'["get"]
          /\ Len(doc') = Len(doc)
          /\ \A k \in 1..Len(doc) : /\ doc'[k].name = doc[k].name
                                    /\ k # at => doc'[k] = doc[k]
      BY <2>4, GetItemStep
    <3>2. ~got'
      BY <2>4, GetItemStep DEF ReadBackInv
    <3>3. ReadUpTo(doc, at) /\ \A r \in Regs \ since["get"] : regs[r] = base[r]
      BY <2>4
    <3>4. ASSUME NEW k \in 1..Len(doc), k < at + 1, Kept(doc[k].name),
                 Reg[doc[k].name] \notin since'["get"]
          PROVE  \E method \in {"static", "dhcp", "none"} :
                    doc'[k].val = ItemValue(doc[k].name, base[Reg[doc[k].name]], method)
      <4>1. CASE k = at
        <5>1. RegOf(doc[at].name) = Reg[doc[at].name]
          BY <3>4, <4>1, RestorableIsWritten DEF Kept
        <5>2. ok
          BY <2>4, <3>4, <4>1, <5>1, GetItemStep
        <5>3. PICK method \in {"static", "dhcp", "none"} :
                doc'[at].val = ItemValue(doc[at].name, regs[RegOf(doc[at].name)], method)
          BY <2>4, <5>2, GetItemStep
        <5>4. Reg[doc[at].name] \in Regs \ since["get"]
          BY <3>1, <3>4, <4>1, ItemOf DEF TypeInv
        <5>. QED
          BY <3>3, <4>1, <5>1, <5>3, <5>4
      <4>2. CASE k # at
        <5>1. k < at /\ doc'[k] = doc[k]
          BY <3>1, <3>4, <4>2
        <5>. QED
          BY <3>3, <3>4, <5>1 DEF ReadUpTo
      <4>. QED
        BY <4>1, <4>2
    <3>5. ReadUpTo(doc, at)'
      <4>1. ASSUME NEW k \in 1..Len(doc), k < at + 1, Kept(doc[k].name)'
            PROVE  \E method \in {"static", "dhcp", "none"} :
                      doc'[k].val = ItemValue(doc'[k].name, base[Reg[doc'[k].name]], method)
        <5>1. doc'[k].name = doc[k].name
          BY <3>1
        <5>2. Kept(doc[k].name) /\ Reg[doc[k].name] \notin since'["get"]
          BY <3>1, <4>1, <5>1 DEF Kept
        <5>. QED
          BY <3>4, <4>1, <5>1, <5>2
      <4>. QED
        BY <3>1, <4>1 DEF ReadUpTo
    <3>6. \A r \in Regs \ since'["get"] : regs'[r] = base'[r]
      BY <3>1, <3>3
    <3>. QED
      BY <3>2, <3>5, <3>6
  <2>5. ASSUME NEW ok \in BOOLEAN, Notify(ok) PROVE RestoreInv'
    BY <2>5 DEF Notify, ReadUpTo, Kept
  <2>6. ASSUME NEW ok \in BOOLEAN, Save(ok) PROVE RestoreInv'
    <3>1. UNCHANGED <<regs, got, base, since>> /\ ~got /\ pc = "save"
      BY <2>6 DEF Save, ReadBackInv
    <3>2. CASE UNCHANGED <<doc, at>>
      BY <3>1, <3>2 DEF ReadUpTo, Kept
    <3>3. CASE pc' = "idle"
      BY <3>1, <3>3
    <3>. QED
      BY <2>6, <3>2, <3>3 DEF Save
  <2>7. CASE Write
    <3>1. file' = doc /\ pc = "write" /\ pc' = "idle" /\ UNCHANGED <<regs, base, since>>
      BY <2>7 DEF Write
    <3>2. at = Len(doc) + 1 /\ IsDocument(doc)
      BY <3>1 DEF TypeInv
    <3>3. ReadUpTo(doc, at) /\ \A r \in Regs \ since["get"] : regs[r] = base[r]
      BY <3>1
    <3>4. \A k \in 1..Len(doc) :
             Kept(doc[k].name) => regs[Reg[doc[k].name]] = base[Reg[doc[k].name]]
      BY <3>2, <3>3, ItemOf DEF Kept
    <3>5. ReadUpTo(file, Len(file) + 1)'
      BY <3>1, <3>2, <3>3 DEF ReadUpTo, Kept
    <3>6. \A k \in 1..Len(file') :
             Kept(file[k].name)' => regs'[Reg[file'[k].name]] = base'[Reg[file'[k].name]]
      BY <3>1, <3>4 DEF Kept
    <3>. QED
      BY <3>1, <3>5, <3>6
  <2>8. CASE Crash
    BY <2>8 DEF Crash, ReadUpTo, Kept
  <2>9. CASE Edit
    <3>1. pc' = "idle"
      BY <2>9 DEF Edit
    <3>2. got' = FALSE
      BY <2>9, Zenon DEF Edit
    <3>. QED
      BY <3>1, <3>2
  <2>10. CASE DriverStart
    <3>1. /\ \A r \in Regs : r # TriggerReg => regs'[r] = regs[r]
          /\ since'["get"] = since["get"] \cup {TriggerReg}
          /\ UNCHANGED <<file, pc, doc, at, got, base>>
      BY <2>10, DriverStartStep
    <3>2. IsDocument(file) /\ IsDocument(doc)
      BY DEF TypeInv
    <3>3. \A d, n : ReadUpTo(d, n) => ReadUpTo(d, n)'
      BY <3>1 DEF ReadUpTo, Kept
    <3>4. ASSUME NEW k \in 1..Len(file), Kept(file[k].name)',
                 regs[Reg[file[k].name]] = base[Reg[file[k].name]]
          PROVE  regs'[Reg[file[k].name]] = base[Reg[file[k].name]]
      BY <3>1, <3>2, <3>4, ItemOf DEF Kept
    <3>5. \A i : Kept(i)' => Kept(i)
      BY <3>1 DEF Kept
    <3>. QED
      BY <3>1, <3>3, <3>4, <3>5
  <2>11. CASE UNCHANGED vars
    BY <2>11 DEF vars, ReadUpTo, Kept
  <2>. QED
    BY <2>1, <2>2, <2>3, <2>4, <2>5, <2>6, <2>7, <2>8, <2>9, <2>10, <2>11 DEF Next
<1>. QED
  BY <1>1, <1>2, TypeCorrect, SetInvariant, ReadBackInvariant, PTL DEF Spec

(* Setting a file that was read back restores the registers that hold what *)
(* a long can hold and that nobody else wrote since.                       *)
THEOREM GetThenSetHolds == Spec => []GetThenSet
<1>1. SetInv /\ RestoreInv => GetThenSet
  BY DEF SetInv, Setting, RestoreInv, Kept, GetThenSet
<1>. QED
  BY <1>1, SetInvariant, RestoreInvariant, PTL
=============================================================================
