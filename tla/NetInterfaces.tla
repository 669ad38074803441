--------------------------- MODULE NetInterfaces ---------------------------
(***************************************************************************)
(* MxcNetWork (src/src/libnetwork.cpp): getNetWork and setNetWork on       *)
(* /etc/network/interfaces for one interface, ethX.  A file is a sequence  *)
(* of lines; a line has a kind, the interfaces it names and a value.       *)
(* Blank lines are comments, indentation is left out, and the file ends    *)
(* with a newline.                                                         *)
(*                                                                         *)
(* One process at a time writes the file, with one MxcNetWork object that  *)
(* lives over many calls (test/t_network.cpp); it may crash at any step.   *)
(* The file is short: it is read with one system call and written, when it *)
(* is closed, with one.                                                    *)
(***************************************************************************)
EXTENDS Naturals, Sequences, FiniteSets

CONSTANTS
    EthX,       \* the interface of the object
    Containing, \* interface names whose text contains that of EthX
    Names,      \* all interface names
    NoVal,      \* the empty string
    Values,     \* values of address, netmask, gateway and other options
    Files,      \* contents of the file before the first call
    Networks    \* arguments of setNetWork

ASSUME NameAssumption == EthX \in Containing /\ Containing \subseteq Names

Methods == {"AUTO", "DHCP", "STATIC", "NONE"}
Word == [AUTO |-> "manual", DHCP |-> "dhcp", STATIC |-> "static", NONE |-> "loopback"]
Kinds == {"auto", "iface", "address", "netmask", "gateway", "option", "comment", "end"}
Lines == [kind : Kinds, names : SUBSET Names,
          val : Values \cup {NoVal} \cup {Word[x] : x \in Methods}]
Line(kind, names, val) == [kind |-> kind, names |-> names, val |-> val]

ASSUME FileAssumption ==
    \A f \in Files : f \in Seq(Lines) /\ \A i \in 1..Len(f) : f[i].kind # "end"
ASSUME NetworkAssumption ==
    Networks \subseteq [method : Methods, ip : Values \cup {NoVal},
                        netmask : Values \cup {NoVal}, gateway : Values \cup {NoVal}]

VARIABLES
    file,       \* /etc/network/interfaces
    pc,         \* the process: none (no object), idle, truncate, write
    isaddEthX,  \* the auto line is still to be added
    doc,        \* interfacesDoc, while setNetWork saves it
    asked,      \* argument of the setNetWork in progress, or of the last one
    last,       \* history: asked has been saved
    others,     \* history: the other interfaces' lines before the first call
    torn        \* history: a process died between truncation and write

vars == <<file, pc, isaddEthX, doc, asked, last, others, torn>>

---------------------------------------------------------------------------
(* The lines of d whose index is in I, in their order.  This and ScanAll   *)
(* are recursive functions, so that proofs can use their equations.        *)
Pick(d, I) ==
    LET picked[i \in 0..Len(d)] ==
            IF i = 0 THEN <<>>
            ELSE IF i \in I THEN Append(picked[i - 1], d[i]) ELSE picked[i - 1]
    IN  picked[Len(d)]

(* An auto line that mentions ethX; a line of the stanza below it.         *)
Own(line) == line.kind = "auto" /\ line.names \cap Containing # {}
InStanza(acc, line) == acc.started /\ line.kind \notin {"auto", "comment"}

(* The files the functions below are meant for: at most one auto line      *)
(* mentions ethX, its stanza is directly below it, and nothing else in the *)
(* file configures ethX.                                                   *)
Foreign(d) ==
    \A i \in 1..Len(d) :
        ~Own(d[i]) /\ (d[i].kind = "iface" => EthX \notin d[i].names)
Body(d) ==
    \A i \in 1..Len(d) :
        d[i].kind # "auto" /\ (d[i].kind = "iface" => EthX \in d[i].names)
HasStanza(d) ==
    \E p \in 1..Len(d) : \E q \in p..Len(d) :
        /\ Foreign(SubSeq(d, 1, p - 1))
        /\ d[p].kind = "auto" /\ EthX \in d[p].names
        /\ Body(SubSeq(d, p + 1, q))
        /\ Foreign(SubSeq(d, q + 1, Len(d)))
        /\ q < Len(d) => d[q + 1].kind = "auto"
WellFormed == \A f \in Files : Foreign(f) \/ HasStanza(f)

---------------------------------------------------------------------------
(* Plausible mistakes in the code below; TLC uses them to show that the    *)
(* properties at the end of this module can fail.  No action refers to     *)
(* them.                                                                   *)

(* An auto line of another interface does not end the stanza.              *)
ScanNoEnd(acc, line) ==
    LET own == Own(line)
        in == acc.started /\ ~own /\ line.kind # "comment"
    IN  [started |-> acc.started \/ own,
         pos     |-> IF own THEN Len(acc.kept) + 1 ELSE acc.pos,
         kept    |-> IF in THEN acc.kept ELSE Append(acc.kept, line),
         node    |-> IF in THEN Append(acc.node, line) ELSE acc.node]

(* The new stanza goes before its auto line.                               *)
SpliceBefore(p, node) ==
    LET at == IF p.pos = 0 THEN Len(p.kept) ELSE p.pos - 1
    IN  SubSeq(p.kept, 1, at) \o node \o SubSeq(p.kept, at + 1, Len(p.kept))

(* setEthXNode always adds the auto line.                                  *)
NodeAlwaysAuto(n, addAuto) ==
    <<Line("auto", {EthX}, NoVal)>>
    \o (IF n.method = "NONE" THEN <<>>
        ELSE <<Line("iface", {EthX}, Word[n.method])>>)

(* setEthXNode writes the name of the method and not its word.             *)
NodeBadMethod(n, addAuto) ==
    <<Line("auto", {EthX}, NoVal), Line("iface", {EthX}, n.method)>>

(* paraseFile: one pass over the lines.  An auto line that mentions ethX   *)
(* starts its stanza, any other auto line ends it; comments stay where     *)
(* they are, the other lines of the stanza move to EthXNode.               *)

Scan(acc, line) ==
    [started |-> IF line.kind = "auto" THEN Own(line) ELSE acc.started,
     pos     |-> IF Own(line) THEN Len(acc.kept) + 1 ELSE acc.pos,
     kept    |-> IF InStanza(acc, line) THEN acc.kept ELSE Append(acc.kept, line),
     node    |-> IF InStanza(acc, line) THEN Append(acc.node, line) ELSE acc.node]

(* readFile: after the last line, fgets meets the end of the file once     *)
(* more and leaves an empty line, which is no comment; written back it is  *)
(* nothing.                                                                *)
readFile == Append(file, Line("end", {}, NoVal))
Written(d) == Pick(d, {i \in 1..Len(d) : d[i].kind # "end"})

ScanAll(acc, d) ==
    LET scanned[i \in 0..Len(d)] == IF i = 0 THEN acc ELSE Scan(scanned[i - 1], d[i])
    IN  scanned[Len(d)]
Parse ==
    ScanAll([started |-> FALSE, pos |-> 0, kept |-> <<>>, node |-> <<>>], readFile)

(* The stanza goes behind its auto line, or to the end of the file.        *)
Splice(p, node) ==
    LET at == IF p.pos = 0 THEN Len(p.kept) ELSE p.pos
    IN  SubSeq(p.kept, 1, at) \o node \o SubSeq(p.kept, at + 1, Len(p.kept))

(* setEthXNode.                                                            *)
Optional(kind, val) == IF val = NoVal THEN <<>> ELSE <<Line(kind, {}, val)>>

setEthXNode(n, addAuto) ==
    (IF addAuto THEN <<Line("auto", {EthX}, NoVal)>> ELSE <<>>)
    \o (IF n.method = "NONE" THEN <<>>
        ELSE <<Line("iface", {EthX}, Word[n.method])>>)
    \o (IF n.method # "STATIC" THEN <<>>
        ELSE Optional("address", n.ip) \o Optional("netmask", n.netmask)
             \o Optional("gateway", n.gateway))

(* getEthXNode fills in n, which the caller passes: the method is read off *)
(* the first line, if there is one and it has a known word, and the last   *)
(* line of a kind gives its value.                                         *)
ValueOf(node, kind, val) ==
    LET at == {i \in 1..Len(node) : node[i].kind = kind}
    IN  IF at = {} THEN val
        ELSE node[CHOOSE i \in at : \A j \in at : j <= i].val

MethodOf(node, method) ==
    LET known == {x \in {"AUTO", "STATIC", "DHCP"} : Word[x] = node[1].val}
    IN  IF node = <<>> THEN "NONE"
        ELSE IF known = {} THEN method
        ELSE CHOOSE x \in known : TRUE

getEthXNode(n, node) ==
    [method  |-> MethodOf(node, n.method),
     ip      |-> ValueOf(node, "address", n.ip),
     netmask |-> ValueOf(node, "netmask", n.netmask),
     gateway |-> ValueOf(node, "gateway", n.gateway)]

---------------------------------------------------------------------------
(* Reference: whose lines they are.  In this file format a line belongs to *)
(* the interface named by the nearest auto or iface line at or before it.  *)
(* Comments belong to nobody and are kept too.                             *)
Heads(d, i) == {j \in 1..i : d[j].kind \in {"auto", "iface"}}
IsOther(d, i) ==
    \/ d[i].kind = "comment"
    \/ Heads(d, i) = {}
    \/ EthX \notin d[CHOOSE j \in Heads(d, i) : \A k \in Heads(d, i) : k <= j].names
Others(d) == Pick(d, {i \in 1..Len(d) : IsOther(d, i)})

TypeOK ==
    /\ \A i \in 1..Len(file) : file[i] \in Lines
    /\ \A i \in 1..Len(doc) : doc[i] \in Lines
    /\ pc \in {"none", "idle", "truncate", "write"}
    /\ isaddEthX \in BOOLEAN /\ last \in BOOLEAN /\ torn \in BOOLEAN
    /\ asked \in Networks

Init ==
    /\ file \in Files
    /\ pc = "none" /\ isaddEthX = TRUE /\ doc = <<>>
    /\ asked \in Networks /\ last = FALSE
    /\ others = Others(file) /\ torn = FALSE

---------------------------------------------------------------------------
(* The operations.                                                         *)

(* MxcNetWork::MxcNetWork.                                                 *)
New ==
    /\ pc = "none"
    /\ pc' = "idle" /\ isaddEthX' = TRUE
    /\ UNCHANGED <<file, doc, asked, last, others, torn>>

(* ~MxcNetWork, or the end of the process between two calls.               *)
Delete ==
    /\ pc = "idle"
    /\ pc' = "none"
    /\ UNCHANGED <<file, isaddEthX, doc, asked, last, others, torn>>

(* Finding the stanza lowers the flag for the life of the object.          *)
Found == Parse.pos # 0
StillToAdd == isaddEthX /\ ~Found

(* getNetWork: reads the file and does not save it; the caller gets        *)
(* getEthXNode of the stanza.                                              *)
getNetWork ==
    /\ pc = "idle"
    /\ isaddEthX' = StillToAdd
    /\ UNCHANGED <<file, pc, doc, asked, last, others, torn>>

(* setNetWork: read and change the document, then saveFile, which          *)
(* truncates the file and writes it.                                       *)
setNetWork(n) ==
    /\ pc = "idle"
    /\ isaddEthX' = StillToAdd
    /\ doc' = Splice(Parse, setEthXNode(n, StillToAdd))
    /\ asked' = n /\ last' = FALSE
    /\ pc' = "truncate"
    /\ UNCHANGED <<file, others, torn>>

Truncate ==
    /\ pc = "truncate"
    /\ file' = <<>>
    /\ pc' = "write"
    /\ UNCHANGED <<isaddEthX, doc, asked, last, others, torn>>

Write ==
    /\ pc = "write"
    /\ file' = Written(doc) /\ doc' = <<>>
    /\ last' = TRUE
    /\ pc' = "idle"
    /\ UNCHANGED <<isaddEthX, asked, others, torn>>

(* The process dies while it saves; between truncation and write the file  *)
(* stays empty.                                                            *)
Crash ==
    /\ pc \in {"truncate", "write"}
    /\ pc' = "none" /\ doc' = <<>>
    /\ torn' = (torn \/ pc = "write")
    /\ UNCHANGED <<file, isaddEthX, asked, last, others>>

Next ==
    \/ New \/ Delete \/ getNetWork \/ Truncate \/ Write \/ Crash
    \/ \E n \in Networks : setNetWork(n)

Spec == Init /\ [][Next]_vars

---------------------------------------------------------------------------
(* Properties.                                                             *)

(* What the file holds, or will hold when the save under way is complete.  *)
Content == IF pc = "write" THEN Written(doc) ELSE file

(* The lines of the other interfaces and the comments are those of the     *)
(* file before the first call, all of them and in their order, over any    *)
(* calls, objects and crashes; except that once a process has died between *)
(* the truncation and the write of saveFile they are lost, all of them and *)
(* for good.                                                               *)
Kept == IF torn THEN <<>> ELSE others
OthersKept == Others(Content) = Kept

(* What is read back with getNetWork is what setNetWork saved last; only a *)
(* static configuration has addresses.  The caller passes empty strings    *)
(* and any method.  NONE is read back only where a line follows the auto   *)
(* line, so it is left out.                                                *)
Unset(method) == [method |-> method, ip |-> NoVal, netmask |-> NoVal, gateway |-> NoVal]
Visible(n) == IF n.method = "STATIC" THEN n ELSE Unset(n.method)
RoundTrip ==
    last /\ asked.method # "NONE" =>
        \A x \in Methods : getEthXNode(Unset(x), Parse.node) = Visible(asked)

(* The interface has exactly one auto line once it has been set, and never *)
(* more: after any number of calls, with the same object or a new one.     *)
AutoLines(d) == {i \in 1..Len(d) : d[i].kind = "auto" /\ EthX \in d[i].names}
OneAuto ==
    /\ Cardinality(AutoLines(Content)) <= 1
    /\ last => Cardinality(AutoLines(file)) = 1
=============================================================================
