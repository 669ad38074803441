----------------------------- MODULE DatesProofs -----------------------------
(***************************************************************************)
(* What TLAPS proves about Dates, for any threads, zones, dates and word   *)
(* size: the types, the zone of the process, the dates that are returned   *)
(* and what the clocks are set to.                                         *)
(***************************************************************************)
EXTENDS Dates, FiniteSetTheorems, TLAPS

---------------------------------------------------------------------------
(* Times.                                                                  *)

(* A timestamp fits in its word, ...                                       *)
LEMMA TimestampType ==
    ASSUME NEW s \in Int
    PROVE  Timestamp(s) \in 0..(Word - 1)
  BY WordAssumption, EpochAssumption DEF Timestamp

(* ... what is read from it in a time_t, ...                               *)
LEMMA TimeTType ==
    ASSUME NEW w \in Int
    PROVE  TimeT(w) \in Int /\ 2 * TimeT(w) < Word
  <1>1. (w - Epoch) % Word \in 0..(Word - 1)
    BY WordAssumption, EpochAssumption
  <1>. QED BY <1>1, WordAssumption DEF TimeT, Signed

(* ... and it is the server's time, unless it lies before 1970: the        *)
(* differences wrap around as often as the sums.                           *)
LEMMA TimestampRoundTrip ==
    ASSUME NEW s \in ServerTimes, TimeT(Timestamp(s)) >= 0 \/ 2 * s < Word
    PROVE  TimeT(Timestamp(s)) = s
  <1>1. s \in 0..(Word - 1)
    BY DatesAssumption
  <1>2. ASSUME NEW x \in 0..(Word - 1) PROVE x % Word = x
    BY <1>2, WordAssumption
  <1>3. ASSUME NEW x \in Word..(2 * Word - 1) PROVE x % Word = x - Word
    BY <1>3, WordAssumption
  <1>4. ASSUME NEW x \in (-Word)..(-1) PROVE x % Word = x + Word
    BY <1>4, WordAssumption
  <1>. QED BY <1>1, <1>2, <1>3, <1>4, WordAssumption, EpochAssumption
       DEF TimeT, Signed, Timestamp

(* mktime returns a time_t, and localtime_r a date.                        *)
LEMMA MktimeType ==
    ASSUME NEW z \in AllZones, NEW d \in Int
    PROVE  /\ Mktime(z, d) \in Int /\ 2 * Mktime(z, d) < Word
           /\ LocalTime(z, d) \in Int
  <1>1. Offset[z] \in Int
    BY OffsetAssumption
  <1>2. Word \in Nat
    BY WordAssumption
  <1>3. Word > 0
    BY WordAssumption
  <1>4. Mktime(z, d) \in Int /\ 2 * Mktime(z, d) < Word
    <2>. DEFINE s == d - Offset[z]
    <2>1. s \in Int
      BY <1>1
    <2>. HIDE DEF s
    <2>2. Mktime(z, d) = IF -Word <= 2 * s /\ 2 * s < Word THEN s ELSE -1
      BY DEF Mktime, s
    <2>. QED BY <1>2, <1>3, <2>1, <2>2
  <1>. QED BY <1>1, <1>4 DEF LocalTime, Hour

---------------------------------------------------------------------------
(* Types.                                                                  *)

(* The parts of the type invariant.                                        *)
ClockType ==
    /\ clock \in [Clocks -> Nat] /\ \A c \in Clocks : 2 * clock[c] < Word
    /\ source \in [Clocks -> Sources]
ZoneType == tzfile \in Chosen \cup {""} /\ {env, tz, zone} \subseteq AllZones
NtpType ==
    /\ fds \in 0..MaxFds
    /\ packet \in [buf : 0..(Word - 1), transmit : 0..(Word - 1)]
    /\ built \in BOOLEAN
PcType == pc \in [Threads -> Steps]
OpType == op \in [Threads -> Operations \cup {""}]
ValType == val \in [Threads -> Int]
OldType == old \in [Threads -> AllZones]
TodoType == todo \in [Threads -> SUBSET Zones]
FromType == from \in [Threads -> Sources]

(* Every socket in use is open.                                            *)
Open == {t \in Threads : pc[t] \in {"send", "select"}}

(* A time_t about to be set fits.                                          *)
Fitting == \A t \in Threads : pc[t] = "setclock" => 2 * val[t] < Word

(* What is written to /etc/timezone is a zone the application chose.       *)
Writing ==
    \A t \in Threads : pc[t] \in {"truncate", "write"} => old[t] \in Chosen

TypeInv ==
    /\ ClockType /\ ZoneType /\ NtpType /\ PcType /\ OpType /\ ValType
    /\ OldType /\ TodoType /\ FromType
    /\ Fitting /\ Writing
    /\ Cardinality(Open) <= fds

(* The histories that the actions build are sources.                       *)
LEMMA SourceTypes ==
    ASSUME NEW s \in Int, NEW z \in AllZones, NEW by \in {"none", "date", "server"}
    PROVE  /\ [by |-> by, at |-> s, zone |-> z] \in Sources
           /\ NoSource \in Sources /\ Unset \in AllZones
           /\ [NoSource EXCEPT !.at = s] \in Sources
           /\ [NoSource EXCEPT !.zone = z] \in Sources
  <1>1. Unset \in AllZones
    BY DEF AllZones
  <1>2. 0 \in Int
    OBVIOUS
  <1>3. \A i \in Int, y \in AllZones, b \in {"none", "date", "server"} :
            [by |-> b, at |-> i, zone |-> y] \in Sources
    BY DEF Sources
  <1>4. NoSource \in Sources
    BY <1>1, <1>2, <1>3 DEF NoSource
  <1>5. [NoSource EXCEPT !.at = s] = [by |-> "none", at |-> s, zone |-> Unset]
    BY DEF NoSource
  <1>6. [NoSource EXCEPT !.zone = z] = [by |-> "none", at |-> 0, zone |-> z]
    BY DEF NoSource
  <1>. QED BY <1>1, <1>2, <1>3, <1>4, <1>5, <1>6, ZenonT(60)

(* A count of sockets that holds still holds when threads stop using one.  *)
LEMMA FewerSockets ==
    ASSUME IsFiniteSet(Open), Cardinality(Open) <= fds, fds \in Nat,
           Open' \subseteq Open, fds' = fds
    PROVE  Cardinality(Open') <= fds'
  <1>1. Cardinality(Open') <= Cardinality(Open) /\ Cardinality(Open') \in Nat
    BY FS_Subset, FS_CardinalityType
  <1>2. Cardinality(Open) \in Nat
    BY FS_CardinalityType
  <1>. QED BY <1>1, <1>2

(* The types are inductive once a time_t about to be set is known to fit   *)
(* and a thread that closes a socket is known to have one.                 *)
THEOREM TypeCorrect == Spec => []TypeInv
<1>. USE DEF clockVars, worldVars, zoneVars, ntpVars, callVars
<1>1. NoSource \in Sources
  <2>1. Unset \in AllZones /\ 0 \in Int
    BY DEF AllZones
  <2>. QED BY <2>1, SourceTypes
<1>2. Init => TypeInv
  <2>. SUFFICES ASSUME Init PROVE TypeInv
    OBVIOUS
  <2>1. ClockType
    BY <1>1, StartAssumption DEF Init, ClockType
  <2>2. ZoneType
    BY ZoneAssumption DEF Init, ZoneType
  <2>3. fds \in 0..MaxFds
    <3>1. fds = 0
      BY DEF Init
    <3>. QED BY <3>1, FdsAssumption
  <2>4. packet \in [buf : 0..(Word - 1), transmit : 0..(Word - 1)]
    <3>1. 0 \in 0..(Word - 1)
      BY WordAssumption
    <3>. QED BY <3>1 DEF Init
  <2>5. NtpType
    BY <2>3, <2>4 DEF Init, NtpType
  <2>6. PcType /\ OpType
    BY DEF Init, PcType, OpType, Steps
  <2>7. ValType /\ OldType
    <3>1. val = [t \in Threads |-> 0] /\ old = [t \in Threads |-> Unset]
      BY DEF Init
    <3>. QED BY <3>1 DEF ValType, OldType, AllZones
  <2>8. TodoType /\ FromType
    BY <1>1 DEF Init, TodoType, FromType
  <2>9. Open = {} /\ Fitting /\ Writing /\ fds = 0
    BY DEF Init, Open, Fitting, Writing
  <2>10. Cardinality(Open) <= fds
    BY <2>9, FS_EmptySet
  <2>. QED BY <2>1, <2>2, <2>5, <2>6, <2>7, <2>8, <2>9, <2>10 DEF TypeInv
<1>3. TypeInv /\ [Next]_vars => TypeInv'
  <2>. SUFFICES ASSUME TypeInv, [Next]_vars PROVE TypeInv'
    OBVIOUS
  <2>1. IsFiniteSet(Open) /\ Cardinality(Open) \in Nat /\ fds \in Nat
    <3>1. Open \in SUBSET Threads
      BY DEF Open
    <3>2. IsFiniteSet(Open) /\ Cardinality(Open) \in Nat
      BY <3>1, FS_Subset, FS_CardinalityType, ThreadsAssumption
    <3>3. fds \in Nat
      BY FdsAssumption DEF TypeInv, NtpType
    <3>. QED BY <3>2, <3>3
  <2>2. CASE UNCHANGED vars
    <3>1. Open' = Open
      BY <2>2 DEF vars, Open
    <3>2. ClockType' /\ ZoneType' /\ NtpType'
      BY <2>2 DEF vars, TypeInv, ClockType, ZoneType, NtpType
    <3>3. PcType' /\ OpType' /\ ValType' /\ OldType' /\ TodoType' /\ FromType'
      BY <2>2 DEF vars, TypeInv, PcType, OpType, ValType, OldType,
         TodoType, FromType
    <3>4. Fitting' /\ Writing' /\ fds' = fds
      BY <2>2 DEF vars, TypeInv, Fitting, Writing
    <3>. QED BY <3>1, <3>2, <3>3, <3>4 DEF TypeInv
  <2>3. CASE Crash
    <3>1. ClockType' /\ (tzfile \in Chosen \cup {""})'
      BY <2>3 DEF Crash, TypeInv, ClockType, ZoneType
    <3>2. ({env, tz, zone} \subseteq AllZones)'
      BY <2>3, ZoneAssumption DEF Crash, Boot
    <3>3. ZoneType'
      BY <3>1, <3>2 DEF ZoneType
    <3>4. (fds \in 0..MaxFds)'
      <4>1. fds' = 0
        BY <2>3 DEF Crash, Boot
      <4>. QED BY <4>1, FdsAssumption
    <3>5. (packet \in [buf : 0..(Word - 1), transmit : 0..(Word - 1)])'
      <4>1. 0 \in 0..(Word - 1)
        BY WordAssumption
      <4>. QED BY <2>3, <4>1 DEF Crash, Boot
    <3>6. NtpType'
      BY <2>3, <3>4, <3>5 DEF Crash, Boot, NtpType
    <3>7. PcType' /\ OpType'
      BY <2>3 DEF Crash, Boot, PcType, OpType, Steps
    <3>8. ValType' /\ OldType'
      <4>1. /\ val' = [t \in Threads |-> 0]
            /\ old' = [t \in Threads |-> Unset]
        BY <2>3 DEF Crash, Boot
      <4>. QED BY <4>1 DEF ValType, OldType, AllZones
    <3>9. TodoType' /\ FromType'
      BY <1>1, <2>3 DEF Crash, Boot, TodoType, FromType
    <3>10. Open' = {} /\ Fitting' /\ Writing' /\ fds' = 0
      BY <2>3 DEF Crash, Boot, Open, Fitting, Writing
    <3>11. Cardinality(Open') <= fds'
      BY <3>10, FS_EmptySet
    <3>. QED BY <3>1, <3>3, <3>6, <3>7, <3>8, <3>9, <3>10, <3>11 DEF TypeInv
  <2>4. ASSUME NEW t \in Threads, NEW o \in Operations, Begin(t, o) PROVE TypeInv'
    <3>1. PcType'
      BY <2>4 DEF Begin, Enter, Goto, Entry, Operations, TypeInv, PcType,
         Steps, SwapSteps
    <3>2. OpType'
      BY <2>4 DEF Begin, Enter, Goto, Entry, Operations, TypeInv, OpType
    <3>3. ValType'
      BY DatesAssumption, <2>4 DEF Begin, Enter, Goto, TypeInv, ValType
    <3>4. OldType'
      BY ZoneAssumption, <2>4 DEF Begin, Enter, Goto, TypeInv, OldType,
         AllZones
    <3>5. TodoType'
      BY <2>4 DEF Begin, Enter, Goto, TypeInv, TodoType
    <3>6. FromType'
      <4>1. from' = [from EXCEPT ![t] = NoSource]
        BY <2>4 DEF Begin, Enter
      <4>. QED BY <1>1, <4>1 DEF TypeInv, FromType
    <3>7. ClockType' /\ ZoneType' /\ NtpType'
      BY <2>4 DEF Begin, Enter, Goto, TypeInv, ClockType, ZoneType, NtpType
    <3>8. Fitting'
      <4>1. Entry[o] # "setclock"
        BY DEF Entry, Operations
      <4>2. \A u \in Threads :
               pc'[u] = (IF u = t THEN Entry[o] ELSE pc[u]) /\ (u # t => val'[u] = val[u])
        BY <2>4 DEF Begin, Enter, Goto, TypeInv, PcType, ValType
      <4>. QED BY <4>1, <4>2 DEF TypeInv, Fitting
    <3>9. Writing'
      <4>1. Entry[o] \in {"truncate", "write"} => o = "setTimeZone"
        BY DEF Entry, Operations
      <4>2. \A u \in Threads :
               /\ pc'[u] = IF u = t THEN Entry[o] ELSE pc[u]
               /\ u # t => old'[u] = old[u]
               /\ u = t /\ o = "setTimeZone" => old'[u] \in Chosen
        BY <2>4 DEF Begin, Enter, Goto, TypeInv, PcType, OldType
      <4>. QED BY <4>1, <4>2 DEF TypeInv, Writing
    <3>10. Open' \subseteq Open /\ fds' = fds
      BY <2>4 DEF Begin, Enter, Goto, Entry, Operations, TypeInv, PcType, Open
    <3>. QED BY <2>1, <3>10, <3>1, <3>2, <3>3, <3>4, <3>5, <3>6, <3>7,
       <3>8, <3>9, FewerSockets DEF TypeInv
  <2>5. ASSUME NEW t \in Threads, Return(t) PROVE TypeInv'
    <3>1. NtpType'
      BY <2>5 DEF Return, Enter, Goto, TypeInv, NtpType
    <3>2. PcType'
      BY <2>5 DEF Return, Enter, Goto, TypeInv, PcType, Steps, SwapSteps
    <3>3. OpType'
      BY <2>5 DEF Return, Enter, Goto, TypeInv, OpType
    <3>4. ValType'
      <4>1. val' = [val EXCEPT ![t] = 0]
        BY <2>5 DEF Return, Enter
      <4>. QED BY <4>1 DEF TypeInv, ValType
    <3>5. OldType'
      BY <2>5 DEF Return, Enter, Goto, TypeInv, OldType, AllZones
    <3>6. TodoType'
      BY <2>5 DEF Return, Enter, Goto, TypeInv, TodoType
    <3>7. FromType'
      <4>1. from' = [from EXCEPT ![t] = NoSource]
        BY <2>5 DEF Return, Enter
      <4>. QED BY <1>1, <4>1 DEF TypeInv, FromType
    <3>8. ClockType' /\ ZoneType'
      BY <2>5 DEF Return, Enter, Goto, TypeInv, ClockType, ZoneType
    <3>9. Fitting'
      BY <2>5 DEF Return, Enter, Goto, TypeInv, PcType, ValType, Fitting
    <3>10. Writing'
      BY <2>5 DEF Return, Enter, Goto, TypeInv, PcType, OldType, Writing
    <3>11. Open' \subseteq Open /\ fds' = fds
      BY <2>5 DEF Return, Enter, Goto, TypeInv, PcType, Open
    <3>. QED BY <2>1, <3>11, <3>1, <3>2, <3>3, <3>4, <3>5, <3>6, <3>7,
       <3>8, <3>9, <3>10, FewerSockets DEF TypeInv
  <2>6. ASSUME NEW t \in Threads, ReadFile(t) PROVE TypeInv'
    <3>1. PcType'
      BY <2>6 DEF ReadFile, Goto, Unmoved, TypeInv, PcType, Steps, SwapSteps
    <3>2. OldType'
      <4>1. tzfile \in AllZones
        BY ZoneAssumption DEF TypeInv, ZoneType, AllZones
      <4>2. old' = [old EXCEPT ![t] = tzfile] \/ old' = old
        BY <2>6 DEF ReadFile
      <4>. QED BY <4>1, <4>2 DEF TypeInv, OldType
    <3>3. /\ ClockType' /\ ZoneType' /\ NtpType' /\ OpType'
          /\ ValType' /\ TodoType' /\ FromType'
      BY <2>6 DEF ReadFile, Goto, Unmoved, TypeInv, ClockType, ZoneType,
         NtpType, OpType, ValType, TodoType, FromType
    <3>4. Fitting'
      BY <2>6 DEF ReadFile, Goto, Unmoved, TypeInv, PcType, ValType, Fitting
    <3>5. Writing'
      BY <2>6 DEF ReadFile, Goto, Unmoved, TypeInv, PcType, OldType, Writing
    <3>6. Open' \subseteq Open /\ fds' = fds
      BY <2>6 DEF ReadFile, Goto, Unmoved, TypeInv, PcType, Open
    <3>. QED BY <2>1, <3>6, <3>1, <3>2, <3>3, <3>4, <3>5, FewerSockets DEF
       TypeInv
  <2>7. ASSUME NEW t \in Threads, TruncateFile(t) PROVE TypeInv'
    <3>1. ZoneType'
      BY <2>7 DEF TruncateFile, Goto, TypeInv, ZoneType, AllZones
    <3>2. PcType'
      BY <2>7 DEF TruncateFile, Goto, TypeInv, PcType, Steps, SwapSteps
    <3>3. /\ ClockType' /\ NtpType' /\ OpType' /\ ValType'
          /\ OldType' /\ TodoType' /\ FromType'
      BY <2>7 DEF TruncateFile, Goto, TypeInv, ClockType, NtpType,
         OpType, ValType, OldType, TodoType, FromType
    <3>4. Fitting'
      BY <2>7 DEF TruncateFile, Goto, TypeInv, PcType, ValType, Fitting
    <3>5. Writing'
      BY <2>7 DEF TruncateFile, Goto, TypeInv, PcType, OldType, Writing
    <3>6. Open' \subseteq Open /\ fds' = fds
      BY <2>7 DEF TruncateFile, Goto, TypeInv, PcType, Open
    <3>. QED BY <2>1, <3>6, <3>1, <3>2, <3>3, <3>4, <3>5, FewerSockets DEF
       TypeInv
  <2>8. ASSUME NEW t \in Threads, WriteFile(t) PROVE TypeInv'
    <3>1. ZoneType'
      <4>1. tzfile' \in Chosen
        BY <2>8 DEF WriteFile, TypeInv, Writing
      <4>2. UNCHANGED <<env, tz, zone>>
        BY <2>8 DEF WriteFile
      <4>. QED BY <4>1, <4>2 DEF TypeInv, ZoneType
    <3>2. PcType'
      BY <2>8 DEF WriteFile, Goto, TypeInv, PcType, Steps, SwapSteps
    <3>3. /\ ClockType' /\ NtpType' /\ OpType' /\ ValType'
          /\ OldType' /\ TodoType' /\ FromType'
      BY <2>8 DEF WriteFile, Goto, TypeInv, ClockType, NtpType, OpType,
         ValType, OldType, TodoType, FromType
    <3>4. Fitting'
      BY <2>8 DEF WriteFile, Goto, TypeInv, PcType, ValType, Fitting
    <3>5. Writing'
      BY <2>8 DEF WriteFile, Goto, TypeInv, PcType, OldType, Writing
    <3>6. Open' \subseteq Open /\ fds' = fds
      BY <2>8 DEF WriteFile, Goto, TypeInv, PcType, Open
    <3>. QED BY <2>1, <3>6, <3>1, <3>2, <3>3, <3>4, <3>5, FewerSockets DEF
       TypeInv
  <2>9. ASSUME NEW t \in Threads, SetEnv(t) PROVE TypeInv'
    <3>1. ZoneType'
      BY <2>9 DEF SetEnv, PutEnv, Goto, TypeInv, ZoneType, OldType, AllZones
    <3>2. PcType'
      BY <2>9 DEF SetEnv, PutEnv, Goto, TypeInv, PcType, Steps, SwapSteps
    <3>3. /\ ClockType' /\ NtpType' /\ OpType' /\ ValType'
          /\ OldType' /\ TodoType' /\ FromType'
      BY <2>9 DEF SetEnv, PutEnv, Goto, TypeInv, ClockType, NtpType,
         OpType, ValType, OldType, TodoType, FromType
    <3>4. Fitting'
      BY <2>9 DEF SetEnv, PutEnv, Goto, TypeInv, PcType, ValType, Fitting
    <3>5. Writing'
      BY <2>9 DEF SetEnv, PutEnv, Goto, TypeInv, PcType, OldType, Writing
    <3>6. Open' \subseteq Open /\ fds' = fds
      BY <2>9 DEF SetEnv, PutEnv, Goto, TypeInv, PcType, Open
    <3>. QED BY <2>1, <3>6, <3>1, <3>2, <3>3, <3>4, <3>5, FewerSockets DEF
       TypeInv
  <2>10. ASSUME NEW t \in Threads, Tzset(t) PROVE TypeInv'
    <3>1. ZoneType'
      BY <2>10 DEF Tzset, TzsetThen, Goto, TypeInv, ZoneType, AllZones
    <3>2. PcType'
      BY <2>10 DEF Tzset, TzsetThen, Goto, TypeInv, PcType, Steps, SwapSteps
    <3>3. /\ ClockType' /\ NtpType' /\ OpType' /\ ValType'
          /\ OldType' /\ TodoType' /\ FromType'
      BY <2>10 DEF Tzset, TzsetThen, Goto, TypeInv, ClockType, NtpType,
         OpType, ValType, OldType, TodoType, FromType
    <3>4. Fitting'
      BY <2>10 DEF Tzset, TzsetThen, Goto, TypeInv, PcType, ValType, Fitting
    <3>5. Writing'
      BY <2>10 DEF Tzset, TzsetThen, Goto, TypeInv, PcType, OldType, Writing
    <3>6. Open' \subseteq Open /\ fds' = fds
      BY <2>10 DEF Tzset, TzsetThen, Goto, TypeInv, PcType, Open
    <3>. QED BY <2>1, <3>6, <3>1, <3>2, <3>3, <3>4, <3>5, FewerSockets DEF
       TypeInv
  <2>11. ASSUME NEW t \in Threads, GetEnv(t), ~Crash PROVE TypeInv'
    <3>1. PcType'
      BY <2>11 DEF GetEnv, Goto, Unmoved, TypeInv, PcType, Steps, SwapSteps
    <3>2. OldType'
      BY <2>11 DEF GetEnv, Goto, Unmoved, TypeInv, OldType, ZoneType, AllZones
    <3>3. /\ ClockType' /\ ZoneType' /\ NtpType' /\ OpType'
          /\ ValType' /\ TodoType' /\ FromType'
      BY <2>11 DEF GetEnv, Goto, Unmoved, TypeInv, ClockType, ZoneType,
         NtpType, OpType, ValType, TodoType, FromType
    <3>4. Fitting'
      BY <2>11 DEF GetEnv, Goto, Unmoved, TypeInv, PcType, ValType, Fitting
    <3>5. Writing'
      BY <2>11 DEF GetEnv, Goto, Unmoved, TypeInv, PcType, OldType, Writing
    <3>6. Open' \subseteq Open /\ fds' = fds
      BY <2>11 DEF GetEnv, Goto, Unmoved, TypeInv, PcType, Open
    <3>. QED BY <2>1, <3>6, <3>1, <3>2, <3>3, <3>4, <3>5, FewerSockets DEF
       TypeInv
  <2>12. ASSUME NEW t \in Threads, ListZones(t) PROVE TypeInv'
    <3>1. PcType'
      BY <2>12 DEF ListZones, Goto, Unmoved, TypeInv, PcType, Steps, SwapSteps
    <3>2. OldType'
      BY <2>12 DEF ListZones, Goto, Unmoved, TypeInv, OldType, ZoneType,
         AllZones
    <3>3. TodoType'
      BY <2>12 DEF ListZones, Goto, Unmoved, TypeInv, TodoType
    <3>4. /\ ClockType' /\ ZoneType' /\ NtpType' /\ OpType'
          /\ ValType' /\ FromType'
      BY <2>12 DEF ListZones, Goto, Unmoved, TypeInv, ClockType,
         ZoneType, NtpType, OpType, ValType, FromType
    <3>5. Fitting'
      BY <2>12 DEF ListZones, Goto, Unmoved, TypeInv, PcType, ValType, Fitting
    <3>6. Writing'
      BY <2>12 DEF ListZones, Goto, Unmoved, TypeInv, PcType, OldType, Writing
    <3>7. Open' \subseteq Open /\ fds' = fds
      BY <2>12 DEF ListZones, Goto, Unmoved, TypeInv, PcType, Open
    <3>. QED BY <2>1, <3>7, <3>1, <3>2, <3>3, <3>4, <3>5, <3>6,
       FewerSockets DEF TypeInv
  <2>13. ASSUME NEW t \in Threads, NextZone(t) PROVE TypeInv'
    <3>1. ZoneType'
      <4>1. env' \in AllZones
        BY <2>13 DEF NextZone, PutEnv, TypeInv, TodoType, AllZones
      <4>2. UNCHANGED <<tzfile, tz, zone>>
        BY <2>13 DEF NextZone, PutEnv
      <4>. QED BY <4>1, <4>2 DEF TypeInv, ZoneType
    <3>2. PcType'
      BY <2>13 DEF NextZone, PutEnv, Goto, TypeInv, PcType, Steps, SwapSteps
    <3>3. TodoType'
      BY <2>13 DEF NextZone, PutEnv, Goto, TypeInv, TodoType
    <3>4. FromType'
      <4>1. PICK z \in todo[t] :
               from' = [from EXCEPT ![t] = [NoSource EXCEPT !.zone = z]]
        BY <2>13 DEF NextZone
      <4>2. z \in AllZones
        BY <4>1 DEF TypeInv, TodoType, AllZones
      <4>3. 0 \in Int
        OBVIOUS
      <4>4. [NoSource EXCEPT !.zone = z] \in Sources
        BY <4>2, <4>3, SourceTypes
      <4>. QED BY <4>1, <4>4 DEF TypeInv, FromType
    <3>5. /\ ClockType' /\ NtpType' /\ OpType' /\ ValType'
          /\ OldType'
      BY <2>13 DEF NextZone, PutEnv, Goto, TypeInv, ClockType, NtpType,
         OpType, ValType, OldType
    <3>6. Fitting'
      BY <2>13 DEF NextZone, PutEnv, Goto, TypeInv, PcType, ValType, Fitting
    <3>7. Writing'
      BY <2>13 DEF NextZone, PutEnv, Goto, TypeInv, PcType, OldType, Writing
    <3>8. Open' \subseteq Open /\ fds' = fds
      BY <2>13 DEF NextZone, PutEnv, Goto, TypeInv, PcType, Open
    <3>. QED BY <2>1, <3>8, <3>1, <3>2, <3>3, <3>4, <3>5, <3>6, <3>7,
       FewerSockets DEF TypeInv
  <2>14. ASSUME NEW t \in Threads, ZoneTzset(t) PROVE TypeInv'
    <3>1. ZoneType'
      BY <2>14 DEF ZoneTzset, TzsetThen, Goto, TypeInv, ZoneType, AllZones
    <3>2. PcType'
      BY <2>14 DEF ZoneTzset, TzsetThen, Goto, TypeInv, PcType, Steps,
         SwapSteps
    <3>3. /\ ClockType' /\ NtpType' /\ OpType' /\ ValType'
          /\ OldType' /\ TodoType' /\ FromType'
      BY <2>14 DEF ZoneTzset, TzsetThen, Goto, TypeInv, ClockType,
         NtpType, OpType, ValType, OldType, TodoType, FromType
    <3>4. Fitting'
      BY <2>14 DEF ZoneTzset, TzsetThen, Goto, TypeInv, PcType, ValType,
         Fitting
    <3>5. Writing'
      BY <2>14 DEF ZoneTzset, TzsetThen, Goto, TypeInv, PcType, OldType,
         Writing
    <3>6. Open' \subseteq Open /\ fds' = fds
      BY <2>14 DEF ZoneTzset, TzsetThen, Goto, TypeInv, PcType, Open
    <3>. QED BY <2>1, <3>6, <3>1, <3>2, <3>3, <3>4, <3>5, FewerSockets DEF
       TypeInv
  <2>15. ASSUME NEW t \in Threads, ZoneTime(t) PROVE TypeInv'
    <3>1. ZoneType'
      BY <2>15 DEF ZoneTime, TzsetThen, Goto, TypeInv, ZoneType, AllZones
    <3>2. PcType'
      BY <2>15 DEF ZoneTime, TzsetThen, Goto, TypeInv, PcType, Steps, SwapSteps
    <3>3. ValType'
      <4>1. clock["sys"] \in Int
        BY DEF TypeInv, ClockType, Clocks
      <4>2. tz \in AllZones
        BY DEF TypeInv, ZoneType
      <4>3. LocalTime(tz, clock["sys"]) \in Int
        BY <4>1, <4>2, MktimeType
      <4>4. val' = [val EXCEPT ![t] = LocalTime(tz, clock["sys"])]
        BY <2>15 DEF ZoneTime
      <4>. QED BY <4>3, <4>4 DEF TypeInv, ValType
    <3>4. /\ ClockType' /\ NtpType' /\ OpType' /\ OldType'
          /\ TodoType' /\ FromType'
      BY <2>15 DEF ZoneTime, TzsetThen, Goto, TypeInv, ClockType,
         NtpType, OpType, OldType, TodoType, FromType
    <3>5. Fitting'
      BY <2>15 DEF ZoneTime, TzsetThen, Goto, TypeInv, PcType, ValType, Fitting
    <3>6. Writing'
      BY <2>15 DEF ZoneTime, TzsetThen, Goto, TypeInv, PcType, OldType, Writing
    <3>7. Open' \subseteq Open /\ fds' = fds
      BY <2>15 DEF ZoneTime, TzsetThen, Goto, TypeInv, PcType, Open
    <3>. QED BY <2>1, <3>7, <3>1, <3>2, <3>3, <3>4, <3>5, <3>6,
       FewerSockets DEF TypeInv
  <2>16. ASSUME NEW t \in Threads, LastZone(t) PROVE TypeInv'
    <3>1. ZoneType'
      BY <2>16 DEF LastZone, PutEnv, Goto, TypeInv, ZoneType, OldType, AllZones
    <3>2. PcType'
      BY <2>16 DEF LastZone, PutEnv, Goto, TypeInv, PcType, Steps, SwapSteps
    <3>3. /\ ClockType' /\ NtpType' /\ OpType' /\ ValType'
          /\ OldType' /\ TodoType' /\ FromType'
      BY <2>16 DEF LastZone, PutEnv, Goto, TypeInv, ClockType, NtpType,
         OpType, ValType, OldType, TodoType, FromType
    <3>4. Fitting'
      BY <2>16 DEF LastZone, PutEnv, Goto, TypeInv, PcType, ValType, Fitting
    <3>5. Writing'
      BY <2>16 DEF LastZone, PutEnv, Goto, TypeInv, PcType, OldType, Writing
    <3>6. Open' \subseteq Open /\ fds' = fds
      BY <2>16 DEF LastZone, PutEnv, Goto, TypeInv, PcType, Open
    <3>. QED BY <2>1, <3>6, <3>1, <3>2, <3>3, <3>4, <3>5, FewerSockets DEF
       TypeInv
  <2>17. ASSUME NEW t \in Threads, GetTime(t) PROVE TypeInv'
    <3>1. PcType'
      BY <2>17 DEF GetTime, Goto, Unmoved, TypeInv, PcType, Steps, SwapSteps
    <3>2. ValType'
      <4>1. clock["sys"] \in Int
        BY DEF TypeInv, ClockType, Clocks
      <4>2. val' = [val EXCEPT ![t] = clock["sys"]]
        BY <2>17 DEF GetTime
      <4>. QED BY <4>1, <4>2 DEF TypeInv, ValType
    <3>3. FromType'
      <4>1. [NoSource EXCEPT !.at = clock["sys"]] \in Sources
        <5>1. clock["sys"] \in Int /\ Unset \in AllZones
          BY DEF TypeInv, ClockType, Clocks, AllZones
        <5>. QED BY <5>1, SourceTypes
      <4>2. from' = [from EXCEPT ![t] = [NoSource EXCEPT !.at = clock["sys"]]]
        BY <2>17 DEF GetTime
      <4>. QED BY <4>1, <4>2 DEF TypeInv, FromType
    <3>4. /\ ClockType' /\ ZoneType' /\ NtpType' /\ OpType'
          /\ OldType' /\ TodoType'
      BY <2>17 DEF GetTime, Goto, Unmoved, TypeInv, ClockType, ZoneType,
         NtpType, OpType, OldType, TodoType
    <3>5. Fitting'
      BY <2>17 DEF GetTime, Goto, Unmoved, TypeInv, PcType, ValType, Fitting
    <3>6. Writing'
      BY <2>17 DEF GetTime, Goto, Unmoved, TypeInv, PcType, OldType, Writing
    <3>7. Open' \subseteq Open /\ fds' = fds
      BY <2>17 DEF GetTime, Goto, Unmoved, TypeInv, PcType, Open
    <3>. QED BY <2>1, <3>7, <3>1, <3>2, <3>3, <3>4, <3>5, <3>6,
       FewerSockets DEF TypeInv
  <2>18. ASSUME NEW t \in Threads, ToLocal(t) PROVE TypeInv'
    <3>1. PcType'
      BY <2>18 DEF ToLocal, Goto, Unmoved, TypeInv, PcType, Steps, SwapSteps
    <3>2. ValType'
      BY MktimeType, <2>18 DEF ToLocal, Goto, Unmoved, TypeInv, ValType,
         ZoneType
    <3>3. /\ ClockType' /\ ZoneType' /\ NtpType' /\ OpType'
          /\ OldType' /\ TodoType' /\ FromType'
      BY <2>18 DEF ToLocal, Goto, Unmoved, TypeInv, ClockType, ZoneType,
         NtpType, OpType, OldType, TodoType, FromType
    <3>4. Fitting'
      BY <2>18 DEF ToLocal, Goto, Unmoved, TypeInv, PcType, ValType, Fitting
    <3>5. Writing'
      BY <2>18 DEF ToLocal, Goto, Unmoved, TypeInv, PcType, OldType, Writing
    <3>6. Open' \subseteq Open /\ fds' = fds
      BY <2>18 DEF ToLocal, Goto, Unmoved, TypeInv, PcType, Open
    <3>. QED BY <2>1, <3>6, <3>1, <3>2, <3>3, <3>4, <3>5, FewerSockets DEF
       TypeInv
  <2>19. ASSUME NEW t \in Threads, FromLocal(t) PROVE TypeInv'
    <3>1. ZoneType'
      BY <2>19 DEF FromLocal, TzsetThen, Goto, TypeInv, ZoneType, AllZones
    <3>2. PcType'
      BY <2>19 DEF FromLocal, TzsetThen, Goto, TypeInv, PcType, Steps,
         SwapSteps
    <3>3. ValType'
      BY MktimeType, <2>19 DEF FromLocal, TzsetThen, Goto, TypeInv,
         ValType, ZoneType
    <3>4. FromType'
      <4>1. val[t] \in Int /\ zone \in AllZones
        BY DEF TypeInv, ValType, ZoneType
      <4>2. [by |-> "date", at |-> val[t], zone |-> zone] \in Sources
        BY <4>1, SourceTypes
      <4>3. \/ from' = [from EXCEPT
                   ![t] = [by |-> "date", at |-> val[t], zone |-> zone]]
            \/ from' = [from EXCEPT ![t] = NoSource]
        BY <2>19 DEF FromLocal
      <4>. QED BY <1>1, <4>2, <4>3 DEF TypeInv, FromType
    <3>5. /\ ClockType' /\ NtpType' /\ OpType' /\ OldType'
          /\ TodoType'
      BY <2>19 DEF FromLocal, TzsetThen, Goto, TypeInv, ClockType,
         NtpType, OpType, OldType, TodoType
    <3>6. Fitting'
      BY MktimeType, <2>19 DEF FromLocal, TzsetThen, Goto, TypeInv,
         PcType, ValType, ZoneType, NtpType, Fitting
    <3>7. Writing'
      BY <2>19 DEF FromLocal, TzsetThen, Goto, TypeInv, PcType, OldType,
         Writing
    <3>8. Open' \subseteq Open /\ fds' = fds
      BY <2>19 DEF FromLocal, TzsetThen, Goto, TypeInv, PcType, Open
    <3>. QED BY <2>1, <3>8, <3>1, <3>2, <3>3, <3>4, <3>5, <3>6, <3>7,
       FewerSockets DEF TypeInv
  <2>20. ASSUME NEW t \in Threads, SetSys(t) PROVE TypeInv'
    <3>1. ClockType'
      BY <2>20 DEF SetSys, Goto, Set, SetsSys, TypeInv, ClockType,
         ValType, FromType, Fitting, Clocks
    <3>2. PcType'
      BY <2>20 DEF SetSys, Goto, Set, SetsSys, TypeInv, PcType, Steps,
         SwapSteps
    <3>3. /\ ZoneType' /\ NtpType' /\ OpType' /\ ValType'
          /\ OldType' /\ TodoType' /\ FromType'
      BY <2>20 DEF SetSys, Goto, Set, SetsSys, TypeInv, ZoneType,
         NtpType, OpType, ValType, OldType, TodoType, FromType
    <3>4. Fitting'
      BY <2>20 DEF SetSys, Goto, Set, SetsSys, TypeInv, PcType, ValType,
         Fitting
    <3>5. Writing'
      BY <2>20 DEF SetSys, Goto, Set, SetsSys, TypeInv, PcType, OldType,
         Writing
    <3>6. Open' \subseteq Open /\ fds' = fds
      BY <2>20 DEF SetSys, Goto, Set, SetsSys, TypeInv, PcType, Open
    <3>. QED BY <2>1, <3>6, <3>1, <3>2, <3>3, <3>4, <3>5, FewerSockets DEF
       TypeInv
  <2>21. ASSUME NEW t \in Threads, SetRtc(t) PROVE TypeInv'
    <3>1. ClockType'
      BY <2>21 DEF SetRtc, Goto, Set, SetsSys, TypeInv, ClockType,
         ValType, FromType, Fitting, Clocks
    <3>2. PcType'
      BY <2>21 DEF SetRtc, Goto, Set, SetsSys, TypeInv, PcType, Steps,
         SwapSteps
    <3>3. /\ ZoneType' /\ NtpType' /\ OpType' /\ ValType'
          /\ OldType' /\ TodoType' /\ FromType'
      BY <2>21 DEF SetRtc, Goto, Set, SetsSys, TypeInv, ZoneType,
         NtpType, OpType, ValType, OldType, TodoType, FromType
    <3>4. Fitting'
      BY <2>21 DEF SetRtc, Goto, Set, SetsSys, TypeInv, PcType, ValType,
         Fitting
    <3>5. Writing'
      BY <2>21 DEF SetRtc, Goto, Set, SetsSys, TypeInv, PcType, OldType,
         Writing
    <3>6. Open' \subseteq Open /\ fds' = fds
      BY <2>21 DEF SetRtc, Goto, Set, SetsSys, TypeInv, PcType, Open
    <3>. QED BY <2>1, <3>6, <3>1, <3>2, <3>3, <3>4, <3>5, FewerSockets DEF
       TypeInv
  <2>22. ASSUME NEW t \in Threads, ReadRtc(t) PROVE TypeInv'
    <3>1. PcType'
      BY <2>22 DEF ReadRtc, Goto, Unmoved, TypeInv, PcType, Steps, SwapSteps
    <3>2. ValType'
      <4>1. clock["rtc"] \in Int
        BY DEF TypeInv, ClockType, Clocks
      <4>2. val' = [val EXCEPT ![t] = clock["rtc"]] \/ val' = val
        BY <2>22 DEF ReadRtc
      <4>. QED BY <4>1, <4>2 DEF TypeInv, ValType
    <3>3. FromType'
      <4>1. [NoSource EXCEPT !.at = clock["rtc"]] \in Sources
        <5>1. clock["rtc"] \in Int /\ Unset \in AllZones
          BY DEF TypeInv, ClockType, Clocks, AllZones
        <5>. QED BY <5>1, SourceTypes
      <4>2. \/ from' = [from EXCEPT ![t] = [NoSource EXCEPT !.at = clock["rtc"]]]
            \/ from' = from
        BY <2>22 DEF ReadRtc
      <4>. QED BY <4>1, <4>2 DEF TypeInv, FromType
    <3>4. /\ ClockType' /\ ZoneType' /\ NtpType' /\ OpType'
          /\ OldType' /\ TodoType'
      BY <2>22 DEF ReadRtc, Goto, Unmoved, TypeInv, ClockType, ZoneType,
         NtpType, OpType, OldType, TodoType
    <3>5. Fitting'
      BY <2>22 DEF ReadRtc, Goto, Unmoved, TypeInv, PcType, ValType, Fitting
    <3>6. Writing'
      BY <2>22 DEF ReadRtc, Goto, Unmoved, TypeInv, PcType, OldType, Writing
    <3>7. Open' \subseteq Open /\ fds' = fds
      BY <2>22 DEF ReadRtc, Goto, Unmoved, TypeInv, PcType, Open
    <3>. QED BY <2>1, <3>7, <3>1, <3>2, <3>3, <3>4, <3>5, <3>6,
       FewerSockets DEF TypeInv
  <2>23. ASSUME NEW t \in Threads, SwapZone(t) PROVE TypeInv'
    <3>1. ZoneType'
      BY <2>23 DEF SwapZone, PutEnv, Goto, TypeInv, ZoneType, AllZones
    <3>2. PcType'
      BY <2>23 DEF SwapZone, PutEnv, Goto, TypeInv, PcType, Steps, SwapSteps
    <3>3. OldType'
      BY <2>23 DEF SwapZone, PutEnv, Goto, TypeInv, OldType, ZoneType, AllZones
    <3>4. /\ ClockType' /\ NtpType' /\ OpType' /\ ValType'
          /\ TodoType' /\ FromType'
      BY <2>23 DEF SwapZone, PutEnv, Goto, TypeInv, ClockType, NtpType,
         OpType, ValType, TodoType, FromType
    <3>5. Fitting'
      BY <2>23 DEF SwapZone, PutEnv, Goto, TypeInv, PcType, ValType, Fitting
    <3>6. Writing'
      BY <2>23 DEF SwapZone, PutEnv, Goto, TypeInv, PcType, OldType, Writing
    <3>7. Open' \subseteq Open /\ fds' = fds
      BY <2>23 DEF SwapZone, PutEnv, Goto, TypeInv, PcType, Open
    <3>. QED BY <2>1, <3>7, <3>1, <3>2, <3>3, <3>4, <3>5, <3>6,
       FewerSockets DEF TypeInv
  <2>24. ASSUME NEW t \in Threads, FromUtc(t) PROVE TypeInv'
    <3>1. ZoneType'
      BY <2>24 DEF FromUtc, TzsetThen, Goto, TypeInv, ZoneType, AllZones
    <3>2. PcType'
      BY <2>24 DEF FromUtc, TzsetThen, Goto, TypeInv, PcType, Steps, SwapSteps
    <3>3. ValType'
      BY MktimeType, <2>24 DEF FromUtc, TzsetThen, Goto, TypeInv,
         ValType, ZoneType
    <3>4. /\ ClockType' /\ NtpType' /\ OpType' /\ OldType'
          /\ TodoType' /\ FromType'
      BY <2>24 DEF FromUtc, TzsetThen, Goto, TypeInv, ClockType, NtpType,
         OpType, OldType, TodoType, FromType
    <3>5. Fitting'
      BY <2>24 DEF FromUtc, TzsetThen, Goto, TypeInv, PcType, ValType, Fitting
    <3>6. Writing'
      BY <2>24 DEF FromUtc, TzsetThen, Goto, TypeInv, PcType, OldType, Writing
    <3>7. Open' \subseteq Open /\ fds' = fds
      BY <2>24 DEF FromUtc, TzsetThen, Goto, TypeInv, PcType, Open
    <3>. QED BY <2>1, <3>7, <3>1, <3>2, <3>3, <3>4, <3>5, <3>6,
       FewerSockets DEF TypeInv
  <2>25. ASSUME NEW t \in Threads, UnsetZone(t) PROVE TypeInv'
    <3>1. ZoneType'
      BY <2>25 DEF UnsetZone, PutEnv, Goto, TypeInv, ZoneType, AllZones
    <3>2. PcType'
      BY <2>25 DEF UnsetZone, PutEnv, Goto, TypeInv, PcType, Steps, SwapSteps
    <3>3. /\ ClockType' /\ NtpType' /\ OpType' /\ ValType'
          /\ OldType' /\ TodoType' /\ FromType'
      BY <2>25 DEF UnsetZone, PutEnv, Goto, TypeInv, ClockType, NtpType,
         OpType, ValType, OldType, TodoType, FromType
    <3>4. Fitting'
      BY <2>25 DEF UnsetZone, PutEnv, Goto, TypeInv, PcType, ValType, Fitting
    <3>5. Writing'
      BY <2>25 DEF UnsetZone, PutEnv, Goto, TypeInv, PcType, OldType, Writing
    <3>6. Open' \subseteq Open /\ fds' = fds
      BY <2>25 DEF UnsetZone, PutEnv, Goto, TypeInv, PcType, Open
    <3>. QED BY <2>1, <3>6, <3>1, <3>2, <3>3, <3>4, <3>5, FewerSockets DEF
       TypeInv
  <2>26. ASSUME NEW t \in Threads, RestoreZone(t), ~Crash PROVE TypeInv'
    <3>1. ZoneType'
      BY <2>26 DEF RestoreZone, PutEnv, Goto, TypeInv, ZoneType, OldType,
         AllZones
    <3>2. PcType'
      BY <2>26 DEF RestoreZone, PutEnv, Goto, TypeInv, PcType, Steps, SwapSteps
    <3>3. /\ ClockType' /\ NtpType' /\ OpType' /\ ValType'
          /\ OldType' /\ TodoType' /\ FromType'
      BY <2>26 DEF RestoreZone, PutEnv, Goto, TypeInv, ClockType,
         NtpType, OpType, ValType, OldType, TodoType, FromType
    <3>4. Fitting'
      BY <2>26 DEF RestoreZone, PutEnv, Goto, TypeInv, PcType, ValType, Fitting
    <3>5. Writing'
      BY <2>26 DEF RestoreZone, PutEnv, Goto, TypeInv, PcType, OldType, Writing
    <3>6. Open' \subseteq Open /\ fds' = fds
      BY <2>26 DEF RestoreZone, PutEnv, Goto, TypeInv, PcType, Open
    <3>. QED BY <2>1, <3>6, <3>1, <3>2, <3>3, <3>4, <3>5, FewerSockets DEF
       TypeInv
  <2>27. ASSUME NEW t \in Threads, Retzset(t) PROVE TypeInv'
    <3>1. ZoneType'
      BY <2>27 DEF Retzset, TzsetThen, Goto, TypeInv, ZoneType, AllZones
    <3>2. PcType'
      BY <2>27 DEF Retzset, TzsetThen, Goto, TypeInv, PcType, Steps, SwapSteps
    <3>3. /\ ClockType' /\ NtpType' /\ OpType' /\ ValType'
          /\ OldType' /\ TodoType' /\ FromType'
      BY <2>27 DEF Retzset, TzsetThen, Goto, TypeInv, ClockType, NtpType,
         OpType, ValType, OldType, TodoType, FromType
    <3>4. Fitting'
      BY <2>27 DEF Retzset, TzsetThen, Goto, TypeInv, PcType, ValType, Fitting
    <3>5. Writing'
      BY <2>27 DEF Retzset, TzsetThen, Goto, TypeInv, PcType, OldType, Writing
    <3>6. Open' \subseteq Open /\ fds' = fds
      BY <2>27 DEF Retzset, TzsetThen, Goto, TypeInv, PcType, Open
    <3>. QED BY <2>1, <3>6, <3>1, <3>2, <3>3, <3>4, <3>5, FewerSockets DEF
       TypeInv
  <2>28. ASSUME NEW t \in Threads, NtpSocket(t) PROVE TypeInv'
    <3>1. NtpType'
      <4>1. fds' \in 0..MaxFds
        BY <2>28, FdsAssumption DEF NtpSocket, TypeInv, NtpType
      <4>2. UNCHANGED <<packet, built>>
        BY <2>28 DEF NtpSocket
      <4>. QED BY <4>1, <4>2 DEF TypeInv, NtpType
    <3>2. PcType'
      BY <2>28 DEF NtpSocket, Goto, TypeInv, PcType, Steps, SwapSteps
    <3>3. /\ ClockType' /\ ZoneType' /\ OpType' /\ ValType'
          /\ OldType' /\ TodoType' /\ FromType'
      BY <2>28 DEF NtpSocket, Goto, TypeInv, ClockType, ZoneType, OpType,
         ValType, OldType, TodoType, FromType
    <3>4. Fitting'
      BY <2>28 DEF NtpSocket, Goto, TypeInv, PcType, ValType, Fitting
    <3>5. Writing'
      BY <2>28 DEF NtpSocket, Goto, TypeInv, PcType, OldType, Writing
    <3>6. CASE fds' = fds
      <4>1. Open' \subseteq Open
        BY <2>28, <3>6 DEF NtpSocket, Goto, TypeInv, PcType, NtpType, Open
      <4>. QED BY <2>1, <3>6, <4>1, <3>1, <3>2, <3>3, <3>4, <3>5, FewerSockets DEF TypeInv
    <3>7. CASE fds' = fds + 1
      <4>1. Open' = Open \cup {t}
        BY <2>28, <3>7 DEF NtpSocket, Goto, TypeInv, PcType, NtpType, Open
      <4>2. Cardinality(Open') \in {Cardinality(Open), Cardinality(Open) + 1}
        BY <2>1, <4>1, FS_AddElement
      <4>3. Cardinality(Open') <= fds'
        BY <2>1, <3>7, <4>2 DEF TypeInv
      <4>. QED BY <4>3, <3>1, <3>2, <3>3, <3>4, <3>5 DEF TypeInv
    <3>. QED BY <2>28, <3>6, <3>7 DEF NtpSocket
  <2>29. ASSUME NEW t \in Threads, NtpSend(t) PROVE TypeInv'
    <3>1. NtpType'
      <4>1. clock["sys"] \in Int
        BY DEF TypeInv, ClockType, Clocks
      <4>2. Timestamp(clock["sys"]) \in 0..(Word - 1)
        BY <4>1, TimestampType
      <4>3. packet' = [packet EXCEPT !.buf = Timestamp(clock["sys"])]
        BY <2>29 DEF NtpSend
      <4>4. UNCHANGED <<fds, built>>
        BY <2>29 DEF NtpSend
      <4>. QED BY <4>2, <4>3, <4>4 DEF TypeInv, NtpType
    <3>2. PcType'
      BY <2>29 DEF NtpSend, Goto, TypeInv, PcType, Steps, SwapSteps
    <3>3. /\ ClockType' /\ ZoneType' /\ OpType' /\ ValType'
          /\ OldType' /\ TodoType' /\ FromType'
      BY <2>29 DEF NtpSend, Goto, TypeInv, ClockType, ZoneType, OpType,
         ValType, OldType, TodoType, FromType
    <3>4. Fitting'
      BY <2>29 DEF NtpSend, Goto, TypeInv, PcType, ValType, Fitting
    <3>5. Writing'
      BY <2>29 DEF NtpSend, Goto, TypeInv, PcType, OldType, Writing
    <3>6. Open' \subseteq Open /\ fds' = fds
      BY <2>29 DEF NtpSend, Goto, TypeInv, PcType, Open
    <3>. QED BY <2>1, <3>6, <3>1, <3>2, <3>3, <3>4, <3>5, FewerSockets DEF
       TypeInv
  <2>30. ASSUME NEW t \in Threads, NtpTimeout(t) PROVE TypeInv'
    <3>1. PcType'
      BY <2>30 DEF NtpTimeout, Goto, TypeInv, PcType, Steps, SwapSteps
    <3>2. /\ ClockType' /\ ZoneType' /\ OpType' /\ ValType'
          /\ OldType' /\ TodoType' /\ FromType'
      BY <2>30 DEF NtpTimeout, Goto, TypeInv, ClockType, ZoneType,
         OpType, ValType, OldType, TodoType, FromType
    <3>3. Fitting'
      BY <2>30 DEF NtpTimeout, Goto, TypeInv, PcType, ValType, Fitting
    <3>4. Writing'
      BY <2>30 DEF NtpTimeout, Goto, TypeInv, PcType, OldType, Writing
    <3>5. t \in Open /\ Open' = Open \ {t} /\ fds' = fds - 1
      BY <2>30 DEF NtpTimeout, TypeInv, PcType, Open, Goto
    <3>6. Cardinality(Open') = Cardinality(Open) - 1
      BY <2>1, <3>5, FS_RemoveElement
    <3>7. Cardinality(Open') \in Nat
      BY <2>1, <3>5, FS_RemoveElement, FS_CardinalityType
    <3>8. Cardinality(Open') <= fds'
      BY <2>1, <3>5, <3>6, <3>7 DEF TypeInv
    <3>9. fds' \in 0..MaxFds
      BY <2>1, <3>5, <3>7, <3>8, FdsAssumption DEF TypeInv, NtpType
    <3>10. NtpType'
      BY <2>30, <3>9 DEF NtpTimeout, NtpType, TypeInv
    <3>. QED BY <3>1, <3>2, <3>3, <3>4, <3>8, <3>10 DEF TypeInv
  <2>31. ASSUME NEW t \in Threads, NtpReceive(t) PROVE TypeInv'
    <3>1. NtpType'
      <4>1. \A s \in ServerTimes : Timestamp(s) \in 0..(Word - 1)
        BY TimestampType, DatesAssumption
      <4>2. \/ UNCHANGED packet
            \/ \E s \in ServerTimes :
                  packet' = [packet EXCEPT !.buf = Timestamp(s)]
        BY <2>31 DEF NtpReceive
      <4>3. UNCHANGED <<fds, built>>
        BY <2>31 DEF NtpReceive
      <4>. QED BY <4>1, <4>2, <4>3 DEF TypeInv, NtpType
    <3>2. PcType'
      BY <2>31 DEF NtpReceive, Goto, TypeInv, PcType, Steps, SwapSteps
    <3>3. FromType'
      <4>1. ASSUME NEW s \in ServerTimes
            PROVE  [by |-> "server", at |-> s, zone |-> Unset] \in Sources
        <5>1. s \in Int /\ Unset \in AllZones
          BY DatesAssumption DEF AllZones
        <5>. QED BY <5>1, SourceTypes
      <4>2. CASE from' = from
        BY <4>2 DEF TypeInv, FromType
      <4>3. CASE from' # from
        <5>1. PICK s \in ServerTimes :
                 from' = [from EXCEPT ![t] = [by |-> "server", at |-> s, zone |-> Unset]]
          BY <2>31, <4>3 DEF NtpReceive
        <5>. QED BY <4>1, <5>1 DEF TypeInv, FromType
      <4>. QED BY <4>2, <4>3
    <3>4. /\ ClockType' /\ ZoneType' /\ OpType' /\ ValType'
          /\ OldType' /\ TodoType'
      BY <2>31 DEF NtpReceive, Goto, TypeInv, ClockType, ZoneType,
         OpType, ValType, OldType, TodoType
    <3>5. Fitting'
      BY <2>31 DEF NtpReceive, Goto, TypeInv, PcType, ValType, Fitting
    <3>6. Writing'
      BY <2>31 DEF NtpReceive, Goto, TypeInv, PcType, OldType, Writing
    <3>7. Open' \subseteq Open /\ fds' = fds
      BY <2>31 DEF NtpReceive, Goto, TypeInv, PcType, Open
    <3>. QED BY <2>1, <3>7, <3>1, <3>2, <3>3, <3>4, <3>5, <3>6,
       FewerSockets DEF TypeInv
  <2>32. ASSUME NEW t \in Threads, NtpParse(t) PROVE TypeInv'
    <3>1. NtpType'
      BY <2>32 DEF NtpParse, Goto, TypeInv, NtpType
    <3>2. PcType'
      BY <2>32 DEF NtpParse, Goto, TypeInv, PcType, Steps, SwapSteps
    <3>3. /\ ClockType' /\ ZoneType' /\ OpType' /\ ValType'
          /\ OldType' /\ TodoType' /\ FromType'
      BY <2>32 DEF NtpParse, Goto, TypeInv, ClockType, ZoneType, OpType,
         ValType, OldType, TodoType, FromType
    <3>4. Fitting'
      BY <2>32 DEF NtpParse, Goto, TypeInv, PcType, ValType, Fitting
    <3>5. Writing'
      BY <2>32 DEF NtpParse, Goto, TypeInv, PcType, OldType, Writing
    <3>6. Open' \subseteq Open /\ fds' = fds
      BY <2>32 DEF NtpParse, Goto, TypeInv, PcType, Open
    <3>. QED BY <2>1, <3>6, <3>1, <3>2, <3>3, <3>4, <3>5, FewerSockets DEF
       TypeInv
  <2>33. ASSUME NEW t \in Threads, NtpUse(t) PROVE TypeInv'
    <3>1. PcType'
      BY <2>33 DEF NtpUse, Goto, Unmoved, TypeInv, PcType, Steps, SwapSteps
    <3>2. ValType'
      BY TimeTType, <2>33 DEF NtpUse, Goto, Unmoved, TypeInv, ValType, NtpType
    <3>3. /\ ClockType' /\ ZoneType' /\ NtpType' /\ OpType'
          /\ OldType' /\ TodoType' /\ FromType'
      BY <2>33 DEF NtpUse, Goto, Unmoved, TypeInv, ClockType, ZoneType,
         NtpType, OpType, OldType, TodoType, FromType
    <3>4. Fitting'
      <4>1. packet.transmit \in Int
        BY DEF TypeInv, NtpType
      <4>2. 2 * TimeT(packet.transmit) < Word
        BY <4>1, TimeTType
      <4>. QED BY <2>33, <4>2 DEF NtpUse, Goto, TypeInv, PcType, ValType, Fitting
    <3>5. Writing'
      BY <2>33 DEF NtpUse, Goto, Unmoved, TypeInv, PcType, OldType, Writing
    <3>6. Open' \subseteq Open /\ fds' = fds
      BY <2>33 DEF NtpUse, Goto, Unmoved, TypeInv, PcType, Open
    <3>. QED BY <2>1, <3>6, <3>1, <3>2, <3>3, <3>4, <3>5, FewerSockets DEF
       TypeInv
  <2>. QED
    BY <2>2, <2>3, <2>4, <2>5, <2>6, <2>7, <2>8, <2>9, <2>10, <2>11,
       <2>12, <2>13, <2>14, <2>15, <2>16, <2>17, <2>18, <2>19, <2>20,
       <2>21, <2>22, <2>23, <2>24, <2>25, <2>26, <2>27, <2>28, <2>29,
       <2>30, <2>31, <2>32, <2>33
       DEF Next, Step, GetEnv, RestoreZone
<1>. QED
  BY <1>2, <1>3, PTL DEF Spec

(* All state has its type for any number of threads and sockets.           *)
THEOREM TypeOKHolds == Spec => []TypeOK
<1>1. TypeInv => TypeOK
  BY DEF TypeInv, TypeOK, ClockType, ZoneType, NtpType, PcType, OpType,
     ValType, OldType, TodoType, FromType
<1>. QED BY <1>1, TypeCorrect, PTL

---------------------------------------------------------------------------
(* Which calls take which steps.                                           *)

ZoneSteps == {"setenv", "readrtc", "swap", "zones"} \cup SwapSteps
NtpSteps == {"socket", "send", "select", "parse", "use"}

OpInv ==
    \A t \in Threads :
        /\ pc[t] # "idle" => op[t] \in Calls[t]
        /\ pc[t] \in ZoneSteps => op[t] \in ZoneCalls
        /\ pc[t] \in NtpSteps => op[t] \in NtpCalls

(* A thread is at a step of a call it uses, and only the calls of          *)
(* ZoneCalls put another zone in place, only those of NtpCalls use a       *)
(* socket and the packet.                                                  *)
THEOREM StepsOfCalls == Spec => []OpInv
<1>. USE DEF clockVars, worldVars, zoneVars, ntpVars, callVars
<1>1. Init => OpInv
  BY DEF Init, OpInv, ZoneSteps, SwapSteps, NtpSteps
<1>2. TypeInv /\ OpInv /\ [Next]_vars => OpInv'
  <2>. SUFFICES ASSUME TypeInv, OpInv, [Next]_vars PROVE OpInv'
    OBVIOUS
  <2>1. CASE UNCHANGED vars
    BY <2>1 DEF vars, OpInv
  <2>2. CASE Crash
    BY <2>2 DEF Crash, Boot, OpInv, ZoneSteps, SwapSteps, NtpSteps
  <2>3. ASSUME NEW t \in Threads, NEW o \in Operations, Begin(t, o) PROVE OpInv'
    <3>1. OpInv'
      <4>1. /\ Entry[o] \in ZoneSteps \/ o = "initLocalZone" => o \in ZoneCalls
            /\ Entry[o] \in NtpSteps => o \in NtpCalls
        BY DEF Entry, Operations, ZoneSteps, SwapSteps, NtpSteps,
           ZoneCalls, NtpCalls
      <4>2. \A u \in Threads :
               /\ pc'[u] = IF u = t THEN Entry[o] ELSE pc[u]
               /\ op'[u] = IF u = t THEN o ELSE op[u]
        BY <2>3 DEF Begin, Enter, Goto, TypeInv, PcType, OpType
      <4>3. o \in Calls[t]
        BY <2>3 DEF Begin
      <4>. QED BY <4>1, <4>2, <4>3 DEF OpInv
    <3>. QED BY <3>1 DEF OpInv
  <2>4. ASSUME NEW t \in Threads, Return(t) PROVE OpInv'
    BY <2>4 DEF Return, Enter, Goto, TypeInv, PcType, OpType, OpInv,
       ZoneSteps, SwapSteps, NtpSteps, ZoneCalls, NtpCalls
  <2>5. ASSUME NEW t \in Threads, ReadFile(t) PROVE OpInv'
    BY <2>5 DEF ReadFile, Goto, Unmoved, TypeInv, PcType, OpType, OpInv,
       ZoneSteps, SwapSteps, NtpSteps, ZoneCalls, NtpCalls
  <2>6. ASSUME NEW t \in Threads, TruncateFile(t) PROVE OpInv'
    BY <2>6, ZenonT(60) DEF TruncateFile, Goto, TypeInv, PcType, OpType, OpInv,
       ZoneSteps, SwapSteps, NtpSteps, ZoneCalls, NtpCalls
  <2>7. ASSUME NEW t \in Threads, WriteFile(t) PROVE OpInv'
    BY <2>7 DEF WriteFile, Goto, TypeInv, PcType, OpType, OpInv, ZoneSteps,
       SwapSteps, NtpSteps, ZoneCalls, NtpCalls
  <2>8. ASSUME NEW t \in Threads, SetEnv(t) PROVE OpInv'
    BY <2>8 DEF SetEnv, PutEnv, Goto, TypeInv, PcType, OpType, OpInv,
       ZoneSteps, SwapSteps, NtpSteps, ZoneCalls, NtpCalls
  <2>9. ASSUME NEW t \in Threads, Tzset(t) PROVE OpInv'
    BY <2>9 DEF Tzset, TzsetThen, Goto, TypeInv, PcType, OpType, OpInv,
       ZoneSteps, SwapSteps, NtpSteps, ZoneCalls, NtpCalls
  <2>10. ASSUME NEW t \in Threads, GetEnv(t), ~Crash PROVE OpInv'
    BY <2>10 DEF GetEnv, Goto, Unmoved, TypeInv, PcType, OpType, OpInv,
       ZoneSteps, SwapSteps, NtpSteps, ZoneCalls, NtpCalls
  <2>11. ASSUME NEW t \in Threads, ListZones(t) PROVE OpInv'
    BY <2>11 DEF ListZones, Goto, Unmoved, TypeInv, PcType, OpType, OpInv,
       ZoneSteps, SwapSteps, NtpSteps, ZoneCalls, NtpCalls
  <2>12. ASSUME NEW t \in Threads, NextZone(t) PROVE OpInv'
    BY <2>12 DEF NextZone, PutEnv, Goto, TypeInv, PcType, OpType, OpInv,
       ZoneSteps, SwapSteps, NtpSteps, ZoneCalls, NtpCalls
  <2>13. ASSUME NEW t \in Threads, ZoneTzset(t) PROVE OpInv'
    BY <2>13 DEF ZoneTzset, TzsetThen, Goto, TypeInv, PcType, OpType,
       OpInv, ZoneSteps, SwapSteps, NtpSteps, ZoneCalls, NtpCalls
  <2>14. ASSUME NEW t \in Threads, ZoneTime(t) PROVE OpInv'
    BY <2>14 DEF ZoneTime, TzsetThen, Goto, TypeInv, PcType, OpType, OpInv,
       ZoneSteps, SwapSteps, NtpSteps, ZoneCalls, NtpCalls
  <2>15. ASSUME NEW t \in Threads, LastZone(t) PROVE OpInv'
    BY <2>15 DEF LastZone, PutEnv, Goto, TypeInv, PcType, OpType, OpInv,
       ZoneSteps, SwapSteps, NtpSteps, ZoneCalls, NtpCalls
  <2>16. ASSUME NEW t \in Threads, GetTime(t) PROVE OpInv'
    BY <2>16 DEF GetTime, Goto, Unmoved, TypeInv, PcType, OpType, OpInv,
       ZoneSteps, SwapSteps, NtpSteps, ZoneCalls, NtpCalls
  <2>17. ASSUME NEW t \in Threads, ToLocal(t) PROVE OpInv'
    BY <2>17 DEF ToLocal, Goto, Unmoved, TypeInv, PcType, OpType, OpInv,
       ZoneSteps, SwapSteps, NtpSteps, ZoneCalls, NtpCalls
  <2>18. ASSUME NEW t \in Threads, FromLocal(t) PROVE OpInv'
    BY <2>18 DEF FromLocal, TzsetThen, Goto, TypeInv, PcType, OpType,
       OpInv, ZoneSteps, SwapSteps, NtpSteps, ZoneCalls, NtpCalls
  <2>19. ASSUME NEW t \in Threads, SetSys(t) PROVE OpInv'
    BY <2>19 DEF SetSys, Goto, Set, SetsSys, TypeInv, PcType, OpType,
       OpInv, ZoneSteps, SwapSteps, NtpSteps, ZoneCalls, NtpCalls
  <2>20. ASSUME NEW t \in Threads, SetRtc(t) PROVE OpInv'
    BY <2>20 DEF SetRtc, Goto, Set, SetsSys, TypeInv, PcType, OpType,
       OpInv, ZoneSteps, SwapSteps, NtpSteps, ZoneCalls, NtpCalls
  <2>21. ASSUME NEW t \in Threads, ReadRtc(t) PROVE OpInv'
    BY <2>21 DEF ReadRtc, Goto, Unmoved, TypeInv, PcType, OpType, OpInv,
       ZoneSteps, SwapSteps, NtpSteps, ZoneCalls, NtpCalls
  <2>22. ASSUME NEW t \in Threads, SwapZone(t) PROVE OpInv'
    BY <2>22 DEF SwapZone, PutEnv, Goto, TypeInv, PcType, OpType, OpInv,
       ZoneSteps, SwapSteps, NtpSteps, ZoneCalls, NtpCalls
  <2>23. ASSUME NEW t \in Threads, FromUtc(t) PROVE OpInv'
    BY <2>23 DEF FromUtc, TzsetThen, Goto, TypeInv, PcType, OpType, OpInv,
       ZoneSteps, SwapSteps, NtpSteps, ZoneCalls, NtpCalls
  <2>24. ASSUME NEW t \in Threads, UnsetZone(t) PROVE OpInv'
    BY <2>24 DEF UnsetZone, PutEnv, Goto, TypeInv, PcType, OpType, OpInv,
       ZoneSteps, SwapSteps, NtpSteps, ZoneCalls, NtpCalls
  <2>25. ASSUME NEW t \in Threads, RestoreZone(t), ~Crash PROVE OpInv'
    BY <2>25 DEF RestoreZone, PutEnv, Goto, TypeInv, PcType, OpType, OpInv,
       ZoneSteps, SwapSteps, NtpSteps, ZoneCalls, NtpCalls
  <2>26. ASSUME NEW t \in Threads, Retzset(t) PROVE OpInv'
    BY <2>26 DEF Retzset, TzsetThen, Goto, TypeInv, PcType, OpType, OpInv,
       ZoneSteps, SwapSteps, NtpSteps, ZoneCalls, NtpCalls
  <2>27. ASSUME NEW t \in Threads, NtpSocket(t) PROVE OpInv'
    BY <2>27 DEF NtpSocket, Goto, TypeInv, PcType, OpType, OpInv,
       ZoneSteps, SwapSteps, NtpSteps, ZoneCalls, NtpCalls
  <2>28. ASSUME NEW t \in Threads, NtpSend(t) PROVE OpInv'
    BY <2>28 DEF NtpSend, Goto, TypeInv, PcType, OpType, OpInv, ZoneSteps,
       SwapSteps, NtpSteps, ZoneCalls, NtpCalls
  <2>29. ASSUME NEW t \in Threads, NtpTimeout(t) PROVE OpInv'
    BY <2>29 DEF NtpTimeout, Goto, TypeInv, PcType, OpType, OpInv,
       ZoneSteps, SwapSteps, NtpSteps, ZoneCalls, NtpCalls
  <2>30. ASSUME NEW t \in Threads, NtpReceive(t) PROVE OpInv'
    BY <2>30, ZenonT(60) DEF NtpReceive, Goto, TypeInv, PcType, OpType, OpInv,
       ZoneSteps, SwapSteps, NtpSteps, ZoneCalls, NtpCalls
  <2>31. ASSUME NEW t \in Threads, NtpParse(t) PROVE OpInv'
    BY <2>31 DEF NtpParse, Goto, TypeInv, PcType, OpType, OpInv, ZoneSteps,
       SwapSteps, NtpSteps, ZoneCalls, NtpCalls
  <2>32. ASSUME NEW t \in Threads, NtpUse(t) PROVE OpInv'
    BY <2>32 DEF NtpUse, Goto, Unmoved, TypeInv, PcType, OpType, OpInv,
       ZoneSteps, SwapSteps, NtpSteps, ZoneCalls, NtpCalls
  <2>. QED
    BY <2>1, <2>2, <2>3, <2>4, <2>5, <2>6, <2>7, <2>8, <2>9, <2>10,
       <2>11, <2>12, <2>13, <2>14, <2>15, <2>16, <2>17, <2>18, <2>19,
       <2>20, <2>21, <2>22, <2>23, <2>24, <2>25, <2>26, <2>27, <2>28,
       <2>29, <2>30, <2>31, <2>32
       DEF Next, Step, GetEnv, RestoreZone
<1>. QED
  BY <1>1, <1>2, TypeCorrect, PTL DEF Spec

(* The one thread that uses some calls has no other one beside it in them. *)
LEMMA NoOtherUser ==
    ASSUME NEW ops, OneUser(ops), OpInv, NEW t \in Threads, NEW u \in Threads,
           pc[t] # "idle", op[t] \in ops, pc[u] # "idle", op[u] \in ops
    PROVE  u = t
  BY DEF OneUser, OpInv

---------------------------------------------------------------------------
(* The zone of the process.                                                *)

(* While a call has another zone in place, it remembers the process's own, *)
(* until that is back in the environment.                                  *)
OldSteps == {"utc", "unset", "restore", "zone", "zonetz", "zonetime"}
OldInv == \A t \in Threads : pc[t] \in OldSteps => old[t] = zone
EnvInv == \A t \in Threads : pc[t] \in {"tzset", "retz"} => env = zone
ZoneInv == OldInv /\ EnvInv /\ ZoneKept

(* With one thread that uses the calls that swap the zone, the process is  *)
(* in its own zone whenever no such call is under way.                     *)
THEOREM ZoneIsKept ==
    ASSUME OneUser(ZoneCalls)
    PROVE  Spec => []ZoneKept
<1>. USE DEF clockVars, worldVars, zoneVars, ntpVars, callVars
<1>1. Init => ZoneInv
  BY DEF Init, ZoneInv, OldInv, EnvInv, OldSteps, ZoneKept
<1>2. TypeInv /\ OpInv /\ ZoneInv /\ [Next]_vars => ZoneInv'
  <2>. SUFFICES ASSUME TypeInv, OpInv, ZoneInv, [Next]_vars PROVE ZoneInv'
    OBVIOUS
  <2>1. CASE UNCHANGED vars
    BY <2>1 DEF vars, ZoneInv, OldInv, EnvInv, ZoneKept
  <2>2. CASE Crash
    BY <2>2 DEF Crash, Boot, ZoneInv, OldInv, EnvInv, OldSteps, ZoneKept
  <2>3. ASSUME NEW t \in Threads, NEW u \in Threads, pc[t] \in ZoneSteps, pc[u] \in ZoneSteps
        PROVE  u = t
    <3>1. /\ pc[t] # "idle" /\ pc[u] # "idle"
          /\ op[t] \in ZoneCalls /\ op[u] \in ZoneCalls
      BY <2>3 DEF OpInv, ZoneSteps, SwapSteps
    <3>. QED BY <3>1, NoOtherUser
  <2>4. ASSUME NEW t \in Threads, NEW s \in Steps \ SwapSteps, Goto(t, s),
               pc[t] \notin SwapSteps, UNCHANGED zoneVars,
               \A u \in Threads \ {t} : old'[u] = old[u]
        PROVE  ZoneInv'
    BY <2>4 DEF Goto, TypeInv, PcType, ZoneInv, OldInv, OldSteps, EnvInv,
       ZoneKept, SwapSteps
  <2>5. ASSUME NEW t \in Threads, NEW o \in Operations, Begin(t, o) PROVE ZoneInv'
    <3>1. \E s \in Steps \ SwapSteps : Goto(t, s)
      <4>1. Entry[o] \in Steps \ SwapSteps
        BY DEF Entry, Operations, Steps, SwapSteps
      <4>. QED BY <2>5, <4>1 DEF Begin, Enter
    <3>2. /\ pc[t] \notin SwapSteps /\ UNCHANGED zoneVars
          /\ \A u \in Threads \ {t} : old'[u] = old[u]
      BY <2>5 DEF Begin, Enter, Entry, Operations, SwapSteps, TypeInv, OldType
    <3>. QED BY <3>1, <3>2, <2>4
  <2>6. ASSUME NEW t \in Threads, Return(t) PROVE ZoneInv'
    <3>1. \E s \in Steps \ SwapSteps : Goto(t, s)
      BY <2>6 DEF Return, Enter, Goto, Steps, SwapSteps
    <3>2. /\ pc[t] \notin SwapSteps /\ UNCHANGED zoneVars
          /\ \A u \in Threads \ {t} : old'[u] = old[u]
      BY <2>6 DEF Return, Enter, SwapSteps, TypeInv, OldType
    <3>. QED BY <3>1, <3>2, <2>4
  <2>7. ASSUME NEW t \in Threads, ReadFile(t) PROVE ZoneInv'
    <3>1. \E s \in Steps \ SwapSteps : Goto(t, s)
      BY <2>7 DEF ReadFile, Goto, Unmoved, Steps, SwapSteps
    <3>2. /\ pc[t] \notin SwapSteps /\ UNCHANGED zoneVars
          /\ \A u \in Threads \ {t} : old'[u] = old[u]
      BY <2>7 DEF ReadFile, Unmoved, SwapSteps, TypeInv, OldType
    <3>. QED BY <3>1, <3>2, <2>4
  <2>8. ASSUME NEW t \in Threads, TruncateFile(t) PROVE ZoneInv'
    <3>1. \E s \in Steps \ SwapSteps : Goto(t, s)
      BY <2>8 DEF TruncateFile, Goto, Steps, SwapSteps
    <3>2. /\ pc[t] \notin SwapSteps /\ UNCHANGED zoneVars
          /\ \A u \in Threads \ {t} : old'[u] = old[u]
      BY <2>8 DEF TruncateFile, SwapSteps, TypeInv, OldType
    <3>. QED BY <3>1, <3>2, <2>4
  <2>9. ASSUME NEW t \in Threads, WriteFile(t) PROVE ZoneInv'
    <3>1. \E s \in Steps \ SwapSteps : Goto(t, s)
      BY <2>9 DEF WriteFile, Goto, Steps, SwapSteps
    <3>2. /\ pc[t] \notin SwapSteps /\ UNCHANGED zoneVars
          /\ \A u \in Threads \ {t} : old'[u] = old[u]
      BY <2>9 DEF WriteFile, SwapSteps, TypeInv, OldType
    <3>. QED BY <3>1, <3>2, <2>4
  <2>10. ASSUME NEW t \in Threads, GetEnv(t), ~Crash PROVE ZoneInv'
    <3>1. \E s \in Steps \ SwapSteps : Goto(t, s)
      BY <2>10 DEF GetEnv, Goto, Unmoved, Steps, SwapSteps
    <3>2. /\ pc[t] \notin SwapSteps /\ UNCHANGED zoneVars
          /\ \A u \in Threads \ {t} : old'[u] = old[u]
      BY <2>10 DEF GetEnv, Unmoved, SwapSteps, TypeInv, OldType
    <3>. QED BY <3>1, <3>2, <2>4
  <2>11. ASSUME NEW t \in Threads, GetTime(t) PROVE ZoneInv'
    <3>1. \E s \in Steps \ SwapSteps : Goto(t, s)
      BY <2>11 DEF GetTime, Goto, Unmoved, Steps, SwapSteps
    <3>2. /\ pc[t] \notin SwapSteps /\ UNCHANGED zoneVars
          /\ \A u \in Threads \ {t} : old'[u] = old[u]
      BY <2>11 DEF GetTime, Unmoved, SwapSteps, TypeInv, OldType
    <3>. QED BY <3>1, <3>2, <2>4
  <2>12. ASSUME NEW t \in Threads, ToLocal(t) PROVE ZoneInv'
    <3>1. \E s \in Steps \ SwapSteps : Goto(t, s)
      BY <2>12 DEF ToLocal, Goto, Unmoved, Steps, SwapSteps
    <3>2. /\ pc[t] \notin SwapSteps /\ UNCHANGED zoneVars
          /\ \A u \in Threads \ {t} : old'[u] = old[u]
      BY <2>12 DEF ToLocal, Unmoved, SwapSteps, TypeInv, OldType
    <3>. QED BY <3>1, <3>2, <2>4
  <2>13. ASSUME NEW t \in Threads, SetSys(t) PROVE ZoneInv'
    <3>1. \E s \in Steps \ SwapSteps : Goto(t, s)
      BY <2>13 DEF SetSys, Goto, Set, SetsSys, Steps, SwapSteps
    <3>2. /\ pc[t] \notin SwapSteps /\ UNCHANGED zoneVars
          /\ \A u \in Threads \ {t} : old'[u] = old[u]
      BY <2>13 DEF SetSys, Set, SetsSys, SwapSteps, TypeInv, OldType
    <3>. QED BY <3>1, <3>2, <2>4
  <2>14. ASSUME NEW t \in Threads, SetRtc(t) PROVE ZoneInv'
    <3>1. \E s \in Steps \ SwapSteps : Goto(t, s)
      BY <2>14 DEF SetRtc, Goto, Set, SetsSys, Steps, SwapSteps
    <3>2. /\ pc[t] \notin SwapSteps /\ UNCHANGED zoneVars
          /\ \A u \in Threads \ {t} : old'[u] = old[u]
      BY <2>14 DEF SetRtc, Set, SetsSys, SwapSteps, TypeInv, OldType
    <3>. QED BY <3>1, <3>2, <2>4
  <2>15. ASSUME NEW t \in Threads, ReadRtc(t) PROVE ZoneInv'
    <3>1. \E s \in Steps \ SwapSteps : Goto(t, s)
      BY <2>15 DEF ReadRtc, Goto, Unmoved, Steps, SwapSteps
    <3>2. /\ pc[t] \notin SwapSteps /\ UNCHANGED zoneVars
          /\ \A u \in Threads \ {t} : old'[u] = old[u]
      BY <2>15 DEF ReadRtc, Unmoved, SwapSteps, TypeInv, OldType
    <3>. QED BY <3>1, <3>2, <2>4
  <2>16. ASSUME NEW t \in Threads, NtpSocket(t) PROVE ZoneInv'
    <3>1. \E s \in Steps \ SwapSteps : Goto(t, s)
      BY <2>16 DEF NtpSocket, Goto, Steps, SwapSteps
    <3>2. /\ pc[t] \notin SwapSteps /\ UNCHANGED zoneVars
          /\ \A u \in Threads \ {t} : old'[u] = old[u]
      BY <2>16 DEF NtpSocket, SwapSteps, TypeInv, OldType
    <3>. QED BY <3>1, <3>2, <2>4
  <2>17. ASSUME NEW t \in Threads, NtpSend(t) PROVE ZoneInv'
    <3>1. \E s \in Steps \ SwapSteps : Goto(t, s)
      BY <2>17 DEF NtpSend, Goto, Steps, SwapSteps
    <3>2. /\ pc[t] \notin SwapSteps /\ UNCHANGED zoneVars
          /\ \A u \in Threads \ {t} : old'[u] = old[u]
      BY <2>17 DEF NtpSend, SwapSteps, TypeInv, OldType
    <3>. QED BY <3>1, <3>2, <2>4
  <2>18. ASSUME NEW t \in Threads, NtpTimeout(t) PROVE ZoneInv'
    <3>1. \E s \in Steps \ SwapSteps : Goto(t, s)
      BY <2>18 DEF NtpTimeout, Goto, Steps, SwapSteps
    <3>2. /\ pc[t] \notin SwapSteps /\ UNCHANGED zoneVars
          /\ \A u \in Threads \ {t} : old'[u] = old[u]
      BY <2>18 DEF NtpTimeout, SwapSteps, TypeInv, OldType
    <3>. QED BY <3>1, <3>2, <2>4
  <2>19. ASSUME NEW t \in Threads, NtpReceive(t) PROVE ZoneInv'
    <3>1. \E s \in Steps \ SwapSteps : Goto(t, s)
      BY <2>19 DEF NtpReceive, Goto, Steps, SwapSteps
    <3>2. /\ pc[t] \notin SwapSteps /\ UNCHANGED zoneVars
          /\ \A u \in Threads \ {t} : old'[u] = old[u]
      BY <2>19 DEF NtpReceive, SwapSteps, TypeInv, OldType
    <3>. QED BY <3>1, <3>2, <2>4
  <2>20. ASSUME NEW t \in Threads, NtpParse(t) PROVE ZoneInv'
    <3>1. \E s \in Steps \ SwapSteps : Goto(t, s)
      BY <2>20 DEF NtpParse, Goto, Steps, SwapSteps
    <3>2. /\ pc[t] \notin SwapSteps /\ UNCHANGED zoneVars
          /\ \A u \in Threads \ {t} : old'[u] = old[u]
      BY <2>20 DEF NtpParse, SwapSteps, TypeInv, OldType
    <3>. QED BY <3>1, <3>2, <2>4
  <2>21. ASSUME NEW t \in Threads, NtpUse(t) PROVE ZoneInv'
    <3>1. \E s \in Steps \ SwapSteps : Goto(t, s)
      BY <2>21 DEF NtpUse, Goto, Unmoved, Steps, SwapSteps
    <3>2. /\ pc[t] \notin SwapSteps /\ UNCHANGED zoneVars
          /\ \A u \in Threads \ {t} : old'[u] = old[u]
      BY <2>21 DEF NtpUse, Unmoved, SwapSteps, TypeInv, OldType
    <3>. QED BY <3>1, <3>2, <2>4
  <2>22. ASSUME NEW t \in Threads, SetEnv(t) PROVE ZoneInv'
    <3>1. OldInv'
      BY <2>3, <2>22 DEF SetEnv, PutEnv, Goto, TypeInv, PcType, OldType,
         ZoneInv, OldInv, OldSteps, ZoneKept, ZoneSteps, SwapSteps
    <3>2. EnvInv'
      BY <2>3, <2>22 DEF SetEnv, PutEnv, Goto, TypeInv, PcType, OldType,
         ZoneInv, EnvInv, OldInv, OldSteps, ZoneSteps, SwapSteps
    <3>3. ZoneKept'
      BY <2>3, <2>22 DEF SetEnv, PutEnv, Goto, TypeInv, PcType, ZoneInv,
         ZoneKept, SwapSteps, EnvInv
    <3>. QED BY <3>1, <3>2, <3>3 DEF ZoneInv
  <2>23. ASSUME NEW t \in Threads, Tzset(t) PROVE ZoneInv'
    <3>1. OldInv'
      BY <2>3, <2>23 DEF Tzset, TzsetThen, Goto, TypeInv, PcType,
         OldType, ZoneInv, OldInv, OldSteps, ZoneKept, ZoneSteps,
         SwapSteps
    <3>2. EnvInv'
      BY <2>3, <2>23 DEF Tzset, TzsetThen, Goto, TypeInv, PcType,
         OldType, ZoneInv, EnvInv, OldInv, OldSteps, ZoneSteps, SwapSteps
    <3>3. ZoneKept'
      BY <2>3, <2>23 DEF Tzset, TzsetThen, Goto, TypeInv, PcType,
         ZoneInv, ZoneKept, SwapSteps, EnvInv
    <3>. QED BY <3>1, <3>2, <3>3 DEF ZoneInv
  <2>24. ASSUME NEW t \in Threads, ListZones(t) PROVE ZoneInv'
    <3>1. OldInv'
      BY <2>3, <2>24 DEF ListZones, Goto, Unmoved, TypeInv, PcType,
         OldType, ZoneInv, OldInv, OldSteps, ZoneKept, ZoneSteps,
         SwapSteps
    <3>2. EnvInv'
      BY <2>3, <2>24 DEF ListZones, Goto, Unmoved, TypeInv, PcType,
         OldType, ZoneInv, EnvInv, OldInv, OldSteps, ZoneSteps, SwapSteps
    <3>3. ZoneKept'
      BY <2>3, <2>24 DEF ListZones, Goto, Unmoved, TypeInv, PcType,
         ZoneInv, ZoneKept, SwapSteps, EnvInv
    <3>. QED BY <3>1, <3>2, <3>3 DEF ZoneInv
  <2>25. ASSUME NEW t \in Threads, NextZone(t) PROVE ZoneInv'
    <3>1. OldInv'
      BY <2>3, <2>25 DEF NextZone, PutEnv, Goto, TypeInv, PcType,
         OldType, ZoneInv, OldInv, OldSteps, ZoneKept, ZoneSteps,
         SwapSteps
    <3>2. EnvInv'
      BY <2>3, <2>25 DEF NextZone, PutEnv, Goto, TypeInv, PcType,
         OldType, ZoneInv, EnvInv, OldInv, OldSteps, ZoneSteps, SwapSteps
    <3>3. ZoneKept'
      BY <2>3, <2>25 DEF NextZone, PutEnv, Goto, TypeInv, PcType,
         ZoneInv, ZoneKept, SwapSteps, EnvInv
    <3>. QED BY <3>1, <3>2, <3>3 DEF ZoneInv
  <2>26. ASSUME NEW t \in Threads, ZoneTzset(t) PROVE ZoneInv'
    <3>1. OldInv'
      BY <2>3, <2>26 DEF ZoneTzset, TzsetThen, Goto, TypeInv, PcType,
         OldType, ZoneInv, OldInv, OldSteps, ZoneKept, ZoneSteps,
         SwapSteps
    <3>2. EnvInv'
      BY <2>3, <2>26 DEF ZoneTzset, TzsetThen, Goto, TypeInv, PcType,
         OldType, ZoneInv, EnvInv, OldInv, OldSteps, ZoneSteps, SwapSteps
    <3>3. ZoneKept'
      BY <2>3, <2>26 DEF ZoneTzset, TzsetThen, Goto, TypeInv, PcType,
         ZoneInv, ZoneKept, SwapSteps, EnvInv
    <3>. QED BY <3>1, <3>2, <3>3 DEF ZoneInv
  <2>27. ASSUME NEW t \in Threads, ZoneTime(t) PROVE ZoneInv'
    <3>1. OldInv'
      BY <2>3, <2>27 DEF ZoneTime, TzsetThen, Goto, TypeInv, PcType,
         OldType, ZoneInv, OldInv, OldSteps, ZoneKept, ZoneSteps,
         SwapSteps
    <3>2. EnvInv'
      BY <2>3, <2>27 DEF ZoneTime, TzsetThen, Goto, TypeInv, PcType,
         OldType, ZoneInv, EnvInv, OldInv, OldSteps, ZoneSteps, SwapSteps
    <3>3. ZoneKept'
      BY <2>3, <2>27 DEF ZoneTime, TzsetThen, Goto, TypeInv, PcType,
         ZoneInv, ZoneKept, SwapSteps, EnvInv
    <3>. QED BY <3>1, <3>2, <3>3 DEF ZoneInv
  <2>28. ASSUME NEW t \in Threads, LastZone(t) PROVE ZoneInv'
    <3>1. OldInv'
      BY <2>3, <2>28 DEF LastZone, PutEnv, Goto, TypeInv, PcType,
         OldType, ZoneInv, OldInv, OldSteps, ZoneKept, ZoneSteps,
         SwapSteps
    <3>2. EnvInv'
      BY <2>3, <2>28 DEF LastZone, PutEnv, Goto, TypeInv, PcType,
         OldType, ZoneInv, EnvInv, OldInv, OldSteps, ZoneSteps, SwapSteps
    <3>3. ZoneKept'
      BY <2>3, <2>28 DEF LastZone, PutEnv, Goto, TypeInv, PcType,
         ZoneInv, ZoneKept, SwapSteps, EnvInv
    <3>. QED BY <3>1, <3>2, <3>3 DEF ZoneInv
  <2>29. ASSUME NEW t \in Threads, FromLocal(t) PROVE ZoneInv'
    <3>1. OldInv'
      BY <2>3, <2>29 DEF FromLocal, TzsetThen, Goto, TypeInv, PcType,
         OldType, ZoneInv, OldInv, OldSteps, ZoneKept, ZoneSteps,
         SwapSteps
    <3>2. EnvInv'
      BY <2>3, <2>29 DEF FromLocal, TzsetThen, Goto, TypeInv, PcType,
         OldType, ZoneInv, EnvInv, OldInv, OldSteps, ZoneSteps, SwapSteps
    <3>3. ZoneKept'
      BY <2>3, <2>29 DEF FromLocal, TzsetThen, Goto, TypeInv, PcType,
         ZoneInv, ZoneKept, SwapSteps, EnvInv
    <3>. QED BY <3>1, <3>2, <3>3 DEF ZoneInv
  <2>30. ASSUME NEW t \in Threads, SwapZone(t) PROVE ZoneInv'
    <3>1. OldInv'
      BY <2>3, <2>30 DEF SwapZone, PutEnv, Goto, TypeInv, PcType,
         OldType, ZoneInv, OldInv, OldSteps, ZoneKept, ZoneSteps,
         SwapSteps
    <3>2. EnvInv'
      BY <2>3, <2>30 DEF SwapZone, PutEnv, Goto, TypeInv, PcType,
         OldType, ZoneInv, EnvInv, OldInv, OldSteps, ZoneSteps, SwapSteps
    <3>3. ZoneKept'
      BY <2>3, <2>30 DEF SwapZone, PutEnv, Goto, TypeInv, PcType,
         ZoneInv, ZoneKept, SwapSteps, EnvInv
    <3>. QED BY <3>1, <3>2, <3>3 DEF ZoneInv
  <2>31. ASSUME NEW t \in Threads, FromUtc(t) PROVE ZoneInv'
    <3>1. OldInv'
      BY <2>3, <2>31 DEF FromUtc, TzsetThen, Goto, TypeInv, PcType,
         OldType, ZoneInv, OldInv, OldSteps, ZoneKept, ZoneSteps,
         SwapSteps
    <3>2. EnvInv'
      BY <2>3, <2>31 DEF FromUtc, TzsetThen, Goto, TypeInv, PcType,
         OldType, ZoneInv, EnvInv, OldInv, OldSteps, ZoneSteps, SwapSteps
    <3>3. ZoneKept'
      BY <2>3, <2>31 DEF FromUtc, TzsetThen, Goto, TypeInv, PcType,
         ZoneInv, ZoneKept, SwapSteps, EnvInv
    <3>. QED BY <3>1, <3>2, <3>3 DEF ZoneInv
  <2>32. ASSUME NEW t \in Threads, UnsetZone(t) PROVE ZoneInv'
    <3>1. OldInv'
      BY <2>3, <2>32 DEF UnsetZone, PutEnv, Goto, TypeInv, PcType,
         OldType, ZoneInv, OldInv, OldSteps, ZoneKept, ZoneSteps,
         SwapSteps
    <3>2. EnvInv'
      BY <2>3, <2>32 DEF UnsetZone, PutEnv, Goto, TypeInv, PcType,
         OldType, ZoneInv, EnvInv, OldInv, OldSteps, ZoneSteps, SwapSteps
    <3>3. ZoneKept'
      BY <2>3, <2>32 DEF UnsetZone, PutEnv, Goto, TypeInv, PcType,
         ZoneInv, ZoneKept, SwapSteps, EnvInv
    <3>. QED BY <3>1, <3>2, <3>3 DEF ZoneInv
  <2>33. ASSUME NEW t \in Threads, RestoreZone(t), ~Crash PROVE ZoneInv'
    <3>1. OldInv'
      BY <2>3, <2>33 DEF RestoreZone, PutEnv, Goto, TypeInv, PcType,
         OldType, ZoneInv, OldInv, OldSteps, ZoneKept, ZoneSteps,
         SwapSteps
    <3>2. EnvInv'
      BY <2>3, <2>33 DEF RestoreZone, PutEnv, Goto, TypeInv, PcType,
         OldType, ZoneInv, EnvInv, OldInv, OldSteps, ZoneSteps, SwapSteps
    <3>3. ZoneKept'
      BY <2>3, <2>33 DEF RestoreZone, PutEnv, Goto, TypeInv, PcType,
         ZoneInv, ZoneKept, SwapSteps, EnvInv
    <3>. QED BY <3>1, <3>2, <3>3 DEF ZoneInv
  <2>34. ASSUME NEW t \in Threads, Retzset(t) PROVE ZoneInv'
    <3>1. OldInv'
      BY <2>3, <2>34 DEF Retzset, TzsetThen, Goto, TypeInv, PcType,
         OldType, ZoneInv, OldInv, OldSteps, ZoneKept, ZoneSteps,
         SwapSteps
    <3>2. EnvInv'
      BY <2>3, <2>34 DEF Retzset, TzsetThen, Goto, TypeInv, PcType,
         OldType, ZoneInv, EnvInv, OldInv, OldSteps, ZoneSteps, SwapSteps
    <3>3. ZoneKept'
      BY <2>3, <2>34 DEF Retzset, TzsetThen, Goto, TypeInv, PcType,
         ZoneInv, ZoneKept, SwapSteps, EnvInv
    <3>. QED BY <3>1, <3>2, <3>3 DEF ZoneInv
  <2>. QED
    BY <2>1, <2>2, <2>5, <2>6, <2>7, <2>8, <2>9, <2>10, <2>11, <2>12,
       <2>13, <2>14, <2>15, <2>16, <2>17, <2>18, <2>19, <2>20, <2>21,
       <2>22, <2>23, <2>24, <2>25, <2>26, <2>27, <2>28, <2>29, <2>30,
       <2>31, <2>32, <2>33, <2>34
       DEF Next, Step, GetEnv, RestoreZone
<1>3. ZoneInv => ZoneKept
  BY DEF ZoneInv
<1>. QED
  BY <1>1, <1>2, <1>3, TypeCorrect, StepsOfCalls, PTL DEF Spec

---------------------------------------------------------------------------
(* Dates and clocks.                                                       *)

(* A date goes through mktime and localtime_r unchanged but for summer     *)
(* time.                                                                   *)
LEMMA MktimeInverse ==
    ASSUME NEW z \in AllZones, NEW d \in Int, Mktime(z, d) >= 0
    PROVE  LocalTime(z, Mktime(z, d))
              = d + (IF Mktime(z, d) \in Summer[z] THEN Hour ELSE 0)
  <1>1. Offset[z] \in Int
    BY OffsetAssumption
  <1>2. Mktime(z, d) = d - Offset[z]
    BY <1>1 DEF Mktime
  <1>3. Mktime(z, d) + Offset[z] = d
    BY <1>1, <1>2
  <1>. QED BY <1>3 DEF LocalTime

(* The instant a date is made of is the one that was read, ...             *)
DateInv ==
    \A t \in Threads :
        /\ pc[t] \in {"swap", "utc"} =>
             val[t] = from[t].at /\ val[t] \in Nat /\ 2 * val[t] < Word
        /\ pc[t] \in {"unset", "restore", "retz", "localtime"} =>
             (2 * from[t].at < Word => val[t] = from[t].at)

(* ... in the zone that has been put in place.                             *)
SwapInv ==
    \A t \in Threads :
        /\ pc[t] = "utc" => env = "UTC0"
        /\ pc[t] \in {"zonetz", "zonetime"} => env = from[t].zone
        /\ pc[t] = "zonetime" => tz = from[t].zone

(* The packet holds the server's answer until it is used.                  *)
NtpInv ==
    \A t \in Threads :
        /\ pc[t] \in {"parse", "use"} => from[t].by = "server" /\ from[t].at \in ServerTimes
        /\ pc[t] = "parse" => packet.buf = Timestamp(from[t].at)
        /\ pc[t] = "use" => packet.transmit = Timestamp(from[t].at)

(* What a clock is about to be set to.                                     *)
SetInv ==
    \A t \in Threads : pc[t] = "setclock" =>
        /\ from[t].by = "date" => val[t] = Mktime(from[t].zone, from[t].at)
        /\ from[t].by = "server" =>
             from[t].at \in ServerTimes /\ val[t] = TimeT(Timestamp(from[t].at))

(* A clock set from a date shows that date, or, when the date is taken in  *)
(* summer time, the date an hour later.                                    *)
ClockInv ==
    \A c \in Clocks :
        /\ source[c].by = "date" =>
             LocalTime(source[c].zone, clock[c]) =
                source[c].at + (IF clock[c] \in Summer[source[c].zone] THEN Hour ELSE 0)
        /\ source[c].by = "server" => clock[c] = source[c].at

LocalInv == DateInv /\ SwapInv /\ NtpInv /\ SetInv /\ ClockInv

(* The steps of which the parts above say something.                       *)
Marked == {"swap", "utc", "unset", "restore", "retz", "localtime", "zonetz",
           "zonetime", "parse", "use", "setclock"}

(* With one thread that uses the calls that swap the zone and one that     *)
(* uses the NTP client, an instant keeps its value from where it is read   *)
(* to where it is used.                                                    *)
THEOREM InstantsAreKept ==
    ASSUME OneUser(ZoneCalls), OneUser(NtpCalls)
    PROVE  Spec => []LocalInv
<1>. USE DEF clockVars, worldVars, zoneVars, ntpVars, callVars
<1>1. Init => LocalInv
  <2>1. Init => DateInv /\ SwapInv /\ NtpInv /\ SetInv
    BY DEF Init, DateInv, SwapInv, NtpInv, SetInv
  <2>2. Init => ClockInv
    <3>1. Init => source = [c \in Clocks |-> NoSource]
      BY DEF Init
    <3>2. NoSource.by = "none"
      BY DEF NoSource
    <3>. QED BY <3>1, <3>2 DEF ClockInv
  <2>. QED BY <2>1, <2>2 DEF LocalInv
<1>2. TypeInv /\ OpInv /\ ZoneKept /\ LocalInv /\ [Next]_vars => LocalInv'
  <2>. SUFFICES ASSUME TypeInv, OpInv, ZoneKept, LocalInv, [Next]_vars PROVE LocalInv'
    OBVIOUS
  <2>1. CASE UNCHANGED vars \/ Crash
    <3>1. CASE UNCHANGED vars
      BY <3>1 DEF vars, LocalInv, DateInv, SwapInv, NtpInv, SetInv,
         ClockInv
    <3>2. CASE Crash
      BY <3>2 DEF Crash, Boot, LocalInv, DateInv, SwapInv, NtpInv,
         SetInv, ClockInv
    <3>. QED BY <2>1, <3>1, <3>2
  <2>2. ASSUME NEW t \in Threads, NEW u \in Threads, pc[t] \in NtpSteps, pc[u] \in NtpSteps
        PROVE  u = t
    <3>1. /\ pc[t] # "idle" /\ pc[u] # "idle"
          /\ op[t] \in NtpCalls /\ op[u] \in NtpCalls
      BY <2>2 DEF OpInv, NtpSteps
    <3>. QED BY <3>1, NoOtherUser
  <2>3. ASSUME NEW t \in Threads, NEW u \in Threads, pc[t] \in ZoneSteps, pc[u] \in ZoneSteps
        PROVE  u = t
    <3>1. /\ pc[t] # "idle" /\ pc[u] # "idle"
          /\ op[t] \in ZoneCalls /\ op[u] \in ZoneCalls
      BY <2>3 DEF OpInv, ZoneSteps, SwapSteps
    <3>. QED BY <3>1, NoOtherUser
  <2>4. ASSUME NEW t \in Threads, NEW s \in Steps \ Marked, Goto(t, s),
               UNCHANGED <<clockVars, env, packet>>, tz' \in {tz, env},
               \A u \in Threads \ {t} : val'[u] = val[u] /\ from'[u] = from[u]
        PROVE  LocalInv'
    <3>1. \A u \in Threads : pc'[u] \in Marked => u # t /\ pc'[u] = pc[u]
      BY <2>4 DEF Goto, TypeInv, PcType
    <3>2. DateInv'
      BY <2>4, <3>1 DEF Marked, LocalInv, DateInv
    <3>3. SwapInv'
      BY <2>4, <3>1 DEF Marked, LocalInv, SwapInv
    <3>4. NtpInv' /\ SetInv'
      BY <2>4, <3>1 DEF Marked, LocalInv, NtpInv, SetInv
    <3>5. ClockInv'
      BY <2>4 DEF LocalInv, ClockInv
    <3>. QED BY <3>2, <3>3, <3>4, <3>5 DEF LocalInv
  <2>5. ASSUME NEW t \in Threads, NEW o \in Operations, Begin(t, o) PROVE LocalInv'
    <3>1. \E s \in Steps \ Marked : Goto(t, s)
      <4>1. Entry[o] \in Steps \ Marked
        BY DEF Entry, Operations, Steps, SwapSteps, Marked
      <4>. QED BY <2>5, <4>1 DEF Begin, Enter
    <3>2. /\ UNCHANGED <<clockVars, env, packet>> /\ tz' \in {tz, env}
          /\ \A u \in Threads \ {t} : val'[u] = val[u] /\ from'[u] = from[u]
      BY <2>5 DEF Begin, Enter, TypeInv, ValType, FromType
    <3>. QED BY <3>1, <3>2, <2>4
  <2>6. ASSUME NEW t \in Threads, Return(t) PROVE LocalInv'
    <3>1. \E s \in Steps \ Marked : Goto(t, s)
      BY <2>6 DEF Return, Enter, Goto, Steps, SwapSteps, Marked
    <3>2. /\ UNCHANGED <<clockVars, env, packet>> /\ tz' \in {tz, env}
          /\ \A u \in Threads \ {t} : val'[u] = val[u] /\ from'[u] = from[u]
      BY <2>6 DEF Return, Enter, TypeInv, ValType, FromType
    <3>. QED BY <3>1, <3>2, <2>4
  <2>7. ASSUME NEW t \in Threads, ReadFile(t) PROVE LocalInv'
    <3>1. \E s \in Steps \ Marked : Goto(t, s)
      BY <2>7 DEF ReadFile, Goto, Unmoved, Steps, SwapSteps, Marked
    <3>2. /\ UNCHANGED <<clockVars, env, packet>> /\ tz' \in {tz, env}
          /\ \A u \in Threads \ {t} : val'[u] = val[u] /\ from'[u] = from[u]
      BY <2>7 DEF ReadFile, Unmoved, TypeInv, ValType, FromType
    <3>. QED BY <3>1, <3>2, <2>4
  <2>8. ASSUME NEW t \in Threads, TruncateFile(t) PROVE LocalInv'
    <3>1. \E s \in Steps \ Marked : Goto(t, s)
      BY <2>8 DEF TruncateFile, Goto, Steps, SwapSteps, Marked
    <3>2. /\ UNCHANGED <<clockVars, env, packet>> /\ tz' \in {tz, env}
          /\ \A u \in Threads \ {t} : val'[u] = val[u] /\ from'[u] = from[u]
      BY <2>8 DEF TruncateFile, TypeInv, ValType, FromType
    <3>. QED BY <3>1, <3>2, <2>4
  <2>9. ASSUME NEW t \in Threads, WriteFile(t) PROVE LocalInv'
    <3>1. \E s \in Steps \ Marked : Goto(t, s)
      BY <2>9 DEF WriteFile, Goto, Steps, SwapSteps, Marked
    <3>2. /\ UNCHANGED <<clockVars, env, packet>> /\ tz' \in {tz, env}
          /\ \A u \in Threads \ {t} : val'[u] = val[u] /\ from'[u] = from[u]
      BY <2>9 DEF WriteFile, TypeInv, ValType, FromType
    <3>. QED BY <3>1, <3>2, <2>4
  <2>10. ASSUME NEW t \in Threads, Tzset(t) PROVE LocalInv'
    <3>1. \E s \in Steps \ Marked : Goto(t, s)
      BY <2>10 DEF Tzset, TzsetThen, Goto, Steps, SwapSteps, Marked
    <3>2. /\ UNCHANGED <<clockVars, env, packet>> /\ tz' \in {tz, env}
          /\ \A u \in Threads \ {t} : val'[u] = val[u] /\ from'[u] = from[u]
      BY <2>10 DEF Tzset, TzsetThen, TypeInv, ValType, FromType
    <3>. QED BY <3>1, <3>2, <2>4
  <2>11. ASSUME NEW t \in Threads, GetEnv(t), ~Crash PROVE LocalInv'
    <3>1. \E s \in Steps \ Marked : Goto(t, s)
      BY <2>11 DEF GetEnv, Goto, Unmoved, Steps, SwapSteps, Marked
    <3>2. /\ UNCHANGED <<clockVars, env, packet>> /\ tz' \in {tz, env}
          /\ \A u \in Threads \ {t} : val'[u] = val[u] /\ from'[u] = from[u]
      BY <2>11 DEF GetEnv, Unmoved, TypeInv, ValType, FromType
    <3>. QED BY <3>1, <3>2, <2>4
  <2>12. ASSUME NEW t \in Threads, ListZones(t) PROVE LocalInv'
    <3>1. \E s \in Steps \ Marked : Goto(t, s)
      BY <2>12 DEF ListZones, Goto, Unmoved, Steps, SwapSteps, Marked
    <3>2. /\ UNCHANGED <<clockVars, env, packet>> /\ tz' \in {tz, env}
          /\ \A u \in Threads \ {t} : val'[u] = val[u] /\ from'[u] = from[u]
      BY <2>12 DEF ListZones, Unmoved, TypeInv, ValType, FromType
    <3>. QED BY <3>1, <3>2, <2>4
  <2>13. ASSUME NEW t \in Threads, ZoneTime(t) PROVE LocalInv'
    <3>1. \E s \in Steps \ Marked : Goto(t, s)
      BY <2>13 DEF ZoneTime, TzsetThen, Goto, Steps, SwapSteps, Marked
    <3>2. /\ UNCHANGED <<clockVars, env, packet>> /\ tz' \in {tz, env}
          /\ \A u \in Threads \ {t} : val'[u] = val[u] /\ from'[u] = from[u]
      BY <2>13 DEF ZoneTime, TzsetThen, TypeInv, ValType, FromType
    <3>. QED BY <3>1, <3>2, <2>4
  <2>14. ASSUME NEW t \in Threads, ToLocal(t) PROVE LocalInv'
    <3>1. \E s \in Steps \ Marked : Goto(t, s)
      BY <2>14 DEF ToLocal, Goto, Unmoved, Steps, SwapSteps, Marked
    <3>2. /\ UNCHANGED <<clockVars, env, packet>> /\ tz' \in {tz, env}
          /\ \A u \in Threads \ {t} : val'[u] = val[u] /\ from'[u] = from[u]
      BY <2>14 DEF ToLocal, Unmoved, TypeInv, ValType, FromType
    <3>. QED BY <3>1, <3>2, <2>4
  <2>15. ASSUME NEW t \in Threads, NtpSocket(t) PROVE LocalInv'
    <3>1. \E s \in Steps \ Marked : Goto(t, s)
      BY <2>15 DEF NtpSocket, Goto, Steps, SwapSteps, Marked
    <3>2. /\ UNCHANGED <<clockVars, env, packet>> /\ tz' \in {tz, env}
          /\ \A u \in Threads \ {t} : val'[u] = val[u] /\ from'[u] = from[u]
      BY <2>15 DEF NtpSocket, TypeInv, ValType, FromType
    <3>. QED BY <3>1, <3>2, <2>4
  <2>16. ASSUME NEW t \in Threads, NtpTimeout(t) PROVE LocalInv'
    <3>1. \E s \in Steps \ Marked : Goto(t, s)
      BY <2>16 DEF NtpTimeout, Goto, Steps, SwapSteps, Marked
    <3>2. /\ UNCHANGED <<clockVars, env, packet>> /\ tz' \in {tz, env}
          /\ \A u \in Threads \ {t} : val'[u] = val[u] /\ from'[u] = from[u]
      BY <2>16 DEF NtpTimeout, TypeInv, ValType, FromType
    <3>. QED BY <3>1, <3>2, <2>4
  <2>17. ASSUME NEW t \in Threads, SetEnv(t) PROVE LocalInv'
    <3>1. DateInv'
      BY <2>17 DEF SetEnv, PutEnv, Goto, TypeInv, PcType, ValType,
         FromType, LocalInv, DateInv
    <3>2. SwapInv'
      BY <2>3, <2>17 DEF SetEnv, PutEnv, Goto, TypeInv, PcType, FromType,
         ZoneSteps, SwapSteps, LocalInv, SwapInv
    <3>3. NtpInv'
      BY <2>17 DEF SetEnv, PutEnv, Goto, TypeInv, PcType, NtpType,
         FromType, NtpSteps, LocalInv, NtpInv
    <3>4. SetInv'
      BY <2>17 DEF SetEnv, PutEnv, Goto, TypeInv, PcType, ValType,
         FromType, LocalInv, SetInv
    <3>5. ClockInv'
      BY <2>17 DEF SetEnv, PutEnv, Goto, LocalInv, ClockInv
    <3>. QED BY <3>1, <3>2, <3>3, <3>4, <3>5 DEF LocalInv
  <2>18. ASSUME NEW t \in Threads, NextZone(t) PROVE LocalInv'
    <3>1. DateInv'
      BY <2>18 DEF NextZone, PutEnv, Goto, TypeInv, PcType, ValType,
         FromType, LocalInv, DateInv
    <3>2. SwapInv'
      <4>1. env' = from'[t].zone
        BY <2>18 DEF NextZone, PutEnv, NoSource, TypeInv, FromType
      <4>. QED BY <2>18, <2>3, <4>1 DEF NextZone, PutEnv, Goto, TypeInv, PcType,
           FromType, ZoneSteps, SwapSteps, LocalInv, SwapInv
    <3>3. NtpInv'
      BY <2>18 DEF NextZone, PutEnv, Goto, TypeInv, PcType, NtpType,
         FromType, NtpSteps, LocalInv, NtpInv
    <3>4. SetInv'
      BY <2>18 DEF NextZone, PutEnv, Goto, TypeInv, PcType, ValType,
         FromType, LocalInv, SetInv
    <3>5. ClockInv'
      BY <2>18 DEF NextZone, PutEnv, Goto, LocalInv, ClockInv
    <3>. QED BY <3>1, <3>2, <3>3, <3>4, <3>5 DEF LocalInv
  <2>19. ASSUME NEW t \in Threads, ZoneTzset(t) PROVE LocalInv'
    <3>1. DateInv'
      BY <2>19 DEF ZoneTzset, TzsetThen, Goto, TypeInv, PcType, ValType,
         FromType, LocalInv, DateInv
    <3>2. SwapInv'
      BY <2>19 DEF ZoneTzset, TzsetThen, Goto, TypeInv, PcType, FromType,
         ZoneSteps, SwapSteps, LocalInv, SwapInv
    <3>3. NtpInv'
      BY <2>19 DEF ZoneTzset, TzsetThen, Goto, TypeInv, PcType, NtpType,
         FromType, NtpSteps, LocalInv, NtpInv
    <3>4. SetInv'
      BY <2>19 DEF ZoneTzset, TzsetThen, Goto, TypeInv, PcType, ValType,
         FromType, LocalInv, SetInv
    <3>5. ClockInv'
      BY <2>19 DEF ZoneTzset, TzsetThen, Goto, LocalInv, ClockInv
    <3>. QED BY <3>1, <3>2, <3>3, <3>4, <3>5 DEF LocalInv
  <2>20. ASSUME NEW t \in Threads, LastZone(t) PROVE LocalInv'
    <3>1. DateInv'
      BY <2>20 DEF LastZone, PutEnv, Goto, TypeInv, PcType, ValType,
         FromType, LocalInv, DateInv
    <3>2. SwapInv'
      BY <2>3, <2>20 DEF LastZone, PutEnv, Goto, TypeInv, PcType,
         FromType, ZoneSteps, SwapSteps, LocalInv, SwapInv
    <3>3. NtpInv'
      BY <2>20 DEF LastZone, PutEnv, Goto, TypeInv, PcType, NtpType,
         FromType, NtpSteps, LocalInv, NtpInv
    <3>4. SetInv'
      BY <2>20 DEF LastZone, PutEnv, Goto, TypeInv, PcType, ValType,
         FromType, LocalInv, SetInv
    <3>5. ClockInv'
      BY <2>20 DEF LastZone, PutEnv, Goto, LocalInv, ClockInv
    <3>. QED BY <3>1, <3>2, <3>3, <3>4, <3>5 DEF LocalInv
  <2>21. ASSUME NEW t \in Threads, GetTime(t) PROVE LocalInv'
    <3>1. DateInv'
      <4>1. clock["sys"] \in Nat /\ 2 * clock["sys"] < Word
        BY DEF TypeInv, ClockType, Clocks
      <4>2. [NoSource EXCEPT !.at = clock["sys"]].at = clock["sys"]
        BY DEF NoSource
      <4>. QED BY <2>21, <4>1, <4>2 DEF GetTime, Goto, TypeInv, PcType, ValType, FromType,
           LocalInv, DateInv
    <3>2. SwapInv'
      BY <2>21 DEF GetTime, Goto, Unmoved, TypeInv, PcType, FromType,
         ZoneSteps, SwapSteps, LocalInv, SwapInv
    <3>3. NtpInv'
      BY <2>21 DEF GetTime, Goto, Unmoved, TypeInv, PcType, NtpType,
         FromType, NtpSteps, LocalInv, NtpInv
    <3>4. SetInv'
      BY <2>21 DEF GetTime, Goto, Unmoved, TypeInv, PcType, ValType,
         FromType, LocalInv, SetInv
    <3>5. ClockInv'
      BY <2>21 DEF GetTime, Goto, Unmoved, LocalInv, ClockInv
    <3>. QED BY <3>1, <3>2, <3>3, <3>4, <3>5 DEF LocalInv
  <2>22. ASSUME NEW t \in Threads, FromLocal(t) PROVE LocalInv'
    <3>1. DateInv'
      BY <2>22 DEF FromLocal, TzsetThen, Goto, TypeInv, PcType, ValType,
         FromType, LocalInv, DateInv
    <3>2. SwapInv'
      BY <2>22 DEF FromLocal, TzsetThen, Goto, TypeInv, PcType, FromType,
         ZoneSteps, SwapSteps, LocalInv, SwapInv
    <3>3. NtpInv'
      BY <2>22 DEF FromLocal, TzsetThen, Goto, TypeInv, PcType, NtpType,
         FromType, NtpSteps, LocalInv, NtpInv
    <3>4. SetInv'
      <4>1. Alone(t) => env = zone
        BY <2>22 DEF FromLocal, Alone, ZoneKept, SwapSteps
      <4>2. from'[t].by = "date" => val'[t] = Mktime(from'[t].zone, from'[t].at)
        BY <2>22, <4>1 DEF FromLocal, TypeInv, ValType, FromType, NoSource
      <4>3. from'[t].by # "server"
        BY <2>22 DEF FromLocal, TypeInv, FromType, NoSource
      <4>. QED BY <2>22, <4>2, <4>3 DEF FromLocal, TzsetThen, Goto, TypeInv, PcType,
           ValType, FromType, LocalInv, SetInv
    <3>5. ClockInv'
      BY <2>22 DEF FromLocal, TzsetThen, Goto, LocalInv, ClockInv
    <3>. QED BY <3>1, <3>2, <3>3, <3>4, <3>5 DEF LocalInv
  <2>23. ASSUME NEW t \in Threads, SetSys(t) PROVE LocalInv'
    <3>1. DateInv'
      BY <2>23 DEF SetSys, Goto, Set, SetsSys, TypeInv, PcType, ValType,
         FromType, LocalInv, DateInv
    <3>2. SwapInv'
      BY <2>23 DEF SetSys, Goto, Set, SetsSys, TypeInv, PcType, FromType,
         ZoneSteps, SwapSteps, LocalInv, SwapInv
    <3>3. NtpInv'
      BY <2>23 DEF SetSys, Goto, Set, SetsSys, TypeInv, PcType, NtpType,
         FromType, NtpSteps, LocalInv, NtpInv
    <3>4. SetInv'
      BY <2>23 DEF SetSys, Goto, Set, SetsSys, TypeInv, PcType, ValType,
         FromType, LocalInv, SetInv
    <3>5. ClockInv'
      <4>1. CASE UNCHANGED clockVars
        BY <4>1 DEF LocalInv, ClockInv
      <4>2. CASE Set(t, "sys")
        <5>1. val[t] >= 0 /\ from[t].at \in Int /\ from[t].zone \in AllZones
          BY <4>2 DEF Set, TypeInv, FromType, Sources
        <5>2. \A d \in Clocks : \/ clock'[d] = clock[d] /\ source'[d] = source[d]
                                \/ clock'[d] = val[t] /\ source'[d] = from[t]
          <6>1. clock \in [Clocks -> Nat] /\ source \in [Clocks -> Sources]
            BY DEF TypeInv, ClockType
          <6>2. /\ clock' = [clock EXCEPT !["sys"] = val[t]]
                /\ source' = [source EXCEPT !["sys"] = from[t]]
            BY <4>2 DEF Set
          <6>. QED BY <6>1, <6>2
        <5>3. from[t].by = "date" =>
                 LocalTime(from[t].zone, val[t]) = from[t].at
                    + (IF val[t] \in Summer[from[t].zone] THEN Hour ELSE 0)
          BY <2>23, <5>1, MktimeInverse DEF SetSys, LocalInv, SetInv
        <5>4. from[t].by = "server" => val[t] = from[t].at
          BY <2>23, <5>1, TimestampRoundTrip DEF SetSys, LocalInv, SetInv
        <5>. QED BY <5>2, <5>3, <5>4 DEF LocalInv, ClockInv
      <4>. QED BY <2>23, <4>1, <4>2 DEF SetSys
    <3>. QED BY <3>1, <3>2, <3>3, <3>4, <3>5 DEF LocalInv
  <2>24. ASSUME NEW t \in Threads, SetRtc(t) PROVE LocalInv'
    <3>1. DateInv'
      BY <2>24 DEF SetRtc, Goto, Set, SetsSys, TypeInv, PcType, ValType,
         FromType, LocalInv, DateInv
    <3>2. SwapInv'
      BY <2>24 DEF SetRtc, Goto, Set, SetsSys, TypeInv, PcType, FromType,
         ZoneSteps, SwapSteps, LocalInv, SwapInv
    <3>3. NtpInv'
      BY <2>24 DEF SetRtc, Goto, Set, SetsSys, TypeInv, PcType, NtpType,
         FromType, NtpSteps, LocalInv, NtpInv
    <3>4. SetInv'
      BY <2>24 DEF SetRtc, Goto, Set, SetsSys, TypeInv, PcType, ValType,
         FromType, LocalInv, SetInv
    <3>5. ClockInv'
      <4>1. CASE UNCHANGED clockVars
        BY <4>1 DEF LocalInv, ClockInv
      <4>2. CASE Set(t, "rtc")
        <5>1. val[t] >= 0 /\ from[t].at \in Int /\ from[t].zone \in AllZones
          BY <4>2 DEF Set, TypeInv, FromType, Sources
        <5>2. \A d \in Clocks : \/ clock'[d] = clock[d] /\ source'[d] = source[d]
                                \/ clock'[d] = val[t] /\ source'[d] = from[t]
          <6>1. clock \in [Clocks -> Nat] /\ source \in [Clocks -> Sources]
            BY DEF TypeInv, ClockType
          <6>2. /\ clock' = [clock EXCEPT !["rtc"] = val[t]]
                /\ source' = [source EXCEPT !["rtc"] = from[t]]
            BY <4>2 DEF Set
          <6>. QED BY <6>1, <6>2
        <5>3. from[t].by = "date" =>
                 LocalTime(from[t].zone, val[t]) = from[t].at
                    + (IF val[t] \in Summer[from[t].zone] THEN Hour ELSE 0)
          BY <2>24, <5>1, MktimeInverse DEF SetRtc, LocalInv, SetInv
        <5>4. from[t].by = "server" => val[t] = from[t].at
          BY <2>24, <5>1, TimestampRoundTrip DEF SetRtc, LocalInv, SetInv
        <5>. QED BY <5>2, <5>3, <5>4 DEF LocalInv, ClockInv
      <4>. QED BY <2>24, <4>1, <4>2 DEF SetRtc
    <3>. QED BY <3>1, <3>2, <3>3, <3>4, <3>5 DEF LocalInv
  <2>25. ASSUME NEW t \in Threads, ReadRtc(t) PROVE LocalInv'
    <3>1. DateInv'
      <4>1. clock["rtc"] \in Nat /\ 2 * clock["rtc"] < Word
        BY DEF TypeInv, ClockType, Clocks
      <4>2. [NoSource EXCEPT !.at = clock["rtc"]].at = clock["rtc"]
        BY DEF NoSource
      <4>. QED BY <2>25, <4>1, <4>2 DEF ReadRtc, Goto, TypeInv, PcType, ValType, FromType,
           LocalInv, DateInv
    <3>2. SwapInv'
      BY <2>25 DEF ReadRtc, Goto, Unmoved, TypeInv, PcType, FromType,
         ZoneSteps, SwapSteps, LocalInv, SwapInv
    <3>3. NtpInv'
      BY <2>25 DEF ReadRtc, Goto, Unmoved, TypeInv, PcType, NtpType,
         FromType, NtpSteps, LocalInv, NtpInv
    <3>4. SetInv'
      BY <2>25 DEF ReadRtc, Goto, Unmoved, TypeInv, PcType, ValType,
         FromType, LocalInv, SetInv
    <3>5. ClockInv'
      BY <2>25 DEF ReadRtc, Goto, Unmoved, LocalInv, ClockInv
    <3>. QED BY <3>1, <3>2, <3>3, <3>4, <3>5 DEF LocalInv
  <2>26. ASSUME NEW t \in Threads, SwapZone(t) PROVE LocalInv'
    <3>1. DateInv'
      BY <2>26 DEF SwapZone, PutEnv, Goto, TypeInv, PcType, ValType,
         FromType, LocalInv, DateInv
    <3>2. SwapInv'
      BY <2>3, <2>26 DEF SwapZone, PutEnv, Goto, TypeInv, PcType,
         FromType, ZoneSteps, SwapSteps, LocalInv, SwapInv
    <3>3. NtpInv'
      BY <2>26 DEF SwapZone, PutEnv, Goto, TypeInv, PcType, NtpType,
         FromType, NtpSteps, LocalInv, NtpInv
    <3>4. SetInv'
      BY <2>26 DEF SwapZone, PutEnv, Goto, TypeInv, PcType, ValType,
         FromType, LocalInv, SetInv
    <3>5. ClockInv'
      BY <2>26 DEF SwapZone, PutEnv, Goto, LocalInv, ClockInv
    <3>. QED BY <3>1, <3>2, <3>3, <3>4, <3>5 DEF LocalInv
  <2>27. ASSUME NEW t \in Threads, FromUtc(t) PROVE LocalInv'
    <3>1. DateInv'
      <4>1. Mktime(env, val[t]) = val[t]
        <5>1. env = "UTC0"
          BY <2>27 DEF FromUtc, LocalInv, SwapInv
        <5>2. val[t] \in Nat /\ 2 * val[t] < Word
          BY <2>27 DEF FromUtc, LocalInv, DateInv
        <5>3. Offset["UTC0"] = 0
          BY OffsetAssumption
        <5>4. Word \in Nat
          BY WordAssumption
        <5>. QED BY <5>1, <5>2, <5>3, <5>4 DEF Mktime
      <4>. QED BY <2>27, <4>1
           DEF FromUtc, TzsetThen, Goto, TypeInv, PcType, ValType, LocalInv, DateInv
    <3>2. SwapInv'
      BY <2>27 DEF FromUtc, TzsetThen, Goto, TypeInv, PcType, FromType,
         ZoneSteps, SwapSteps, LocalInv, SwapInv
    <3>3. NtpInv'
      BY <2>27 DEF FromUtc, TzsetThen, Goto, TypeInv, PcType, NtpType,
         FromType, NtpSteps, LocalInv, NtpInv
    <3>4. SetInv'
      BY <2>27 DEF FromUtc, TzsetThen, Goto, TypeInv, PcType, ValType,
         FromType, LocalInv, SetInv
    <3>5. ClockInv'
      BY <2>27 DEF FromUtc, TzsetThen, Goto, LocalInv, ClockInv
    <3>. QED BY <3>1, <3>2, <3>3, <3>4, <3>5 DEF LocalInv
  <2>28. ASSUME NEW t \in Threads, UnsetZone(t) PROVE LocalInv'
    <3>1. DateInv'
      BY <2>28 DEF UnsetZone, PutEnv, Goto, TypeInv, PcType, ValType,
         FromType, LocalInv, DateInv
    <3>2. SwapInv'
      BY <2>3, <2>28 DEF UnsetZone, PutEnv, Goto, TypeInv, PcType,
         FromType, ZoneSteps, SwapSteps, LocalInv, SwapInv
    <3>3. NtpInv'
      BY <2>28 DEF UnsetZone, PutEnv, Goto, TypeInv, PcType, NtpType,
         FromType, NtpSteps, LocalInv, NtpInv
    <3>4. SetInv'
      BY <2>28 DEF UnsetZone, PutEnv, Goto, TypeInv, PcType, ValType,
         FromType, LocalInv, SetInv
    <3>5. ClockInv'
      BY <2>28 DEF UnsetZone, PutEnv, Goto, LocalInv, ClockInv
    <3>. QED BY <3>1, <3>2, <3>3, <3>4, <3>5 DEF LocalInv
  <2>29. ASSUME NEW t \in Threads, RestoreZone(t), ~Crash PROVE LocalInv'
    <3>1. DateInv'
      BY <2>29 DEF RestoreZone, PutEnv, Goto, TypeInv, PcType, ValType,
         FromType, LocalInv, DateInv
    <3>2. SwapInv'
      BY <2>3, <2>29 DEF RestoreZone, PutEnv, Goto, TypeInv, PcType,
         FromType, ZoneSteps, SwapSteps, LocalInv, SwapInv
    <3>3. NtpInv'
      BY <2>29 DEF RestoreZone, PutEnv, Goto, TypeInv, PcType, NtpType,
         FromType, NtpSteps, LocalInv, NtpInv
    <3>4. SetInv'
      BY <2>29 DEF RestoreZone, PutEnv, Goto, TypeInv, PcType, ValType,
         FromType, LocalInv, SetInv
    <3>5. ClockInv'
      BY <2>29 DEF RestoreZone, PutEnv, Goto, LocalInv, ClockInv
    <3>. QED BY <3>1, <3>2, <3>3, <3>4, <3>5 DEF LocalInv
  <2>30. ASSUME NEW t \in Threads, Retzset(t) PROVE LocalInv'
    <3>1. DateInv'
      BY <2>30 DEF Retzset, TzsetThen, Goto, TypeInv, PcType, ValType,
         FromType, LocalInv, DateInv
    <3>2. SwapInv'
      BY <2>30 DEF Retzset, TzsetThen, Goto, TypeInv, PcType, FromType,
         ZoneSteps, SwapSteps, LocalInv, SwapInv
    <3>3. NtpInv'
      BY <2>30 DEF Retzset, TzsetThen, Goto, TypeInv, PcType, NtpType,
         FromType, NtpSteps, LocalInv, NtpInv
    <3>4. SetInv'
      BY <2>30 DEF Retzset, TzsetThen, Goto, TypeInv, PcType, ValType,
         FromType, LocalInv, SetInv
    <3>5. ClockInv'
      BY <2>30 DEF Retzset, TzsetThen, Goto, LocalInv, ClockInv
    <3>. QED BY <3>1, <3>2, <3>3, <3>4, <3>5 DEF LocalInv
  <2>31. ASSUME NEW t \in Threads, NtpSend(t) PROVE LocalInv'
    <3>1. DateInv'
      BY <2>31 DEF NtpSend, Goto, TypeInv, PcType, ValType, FromType,
         LocalInv, DateInv
    <3>2. SwapInv'
      BY <2>31 DEF NtpSend, Goto, TypeInv, PcType, FromType, ZoneSteps,
         SwapSteps, LocalInv, SwapInv
    <3>3. NtpInv'
      BY <2>2, <2>31 DEF NtpSend, Goto, TypeInv, PcType, NtpType,
         FromType, NtpSteps, LocalInv, NtpInv
    <3>4. SetInv'
      BY <2>31 DEF NtpSend, Goto, TypeInv, PcType, ValType, FromType,
         LocalInv, SetInv
    <3>5. ClockInv'
      BY <2>31 DEF NtpSend, Goto, LocalInv, ClockInv
    <3>. QED BY <3>1, <3>2, <3>3, <3>4, <3>5 DEF LocalInv
  <2>32. ASSUME NEW t \in Threads, NtpReceive(t) PROVE LocalInv'
    <3>1. DateInv'
      BY <2>32 DEF NtpReceive, Goto, TypeInv, PcType, ValType, FromType,
         LocalInv, DateInv
    <3>2. SwapInv'
      BY <2>32 DEF NtpReceive, Goto, TypeInv, PcType, FromType,
         ZoneSteps, SwapSteps, LocalInv, SwapInv
    <3>3. NtpInv'
      BY <2>2, <2>32 DEF NtpReceive, Goto, TypeInv, PcType, NtpType,
         FromType, NtpSteps, LocalInv, NtpInv
    <3>4. SetInv'
      BY <2>32 DEF NtpReceive, Goto, TypeInv, PcType, ValType, FromType,
         LocalInv, SetInv
    <3>5. ClockInv'
      BY <2>32 DEF NtpReceive, Goto, LocalInv, ClockInv
    <3>. QED BY <3>1, <3>2, <3>3, <3>4, <3>5 DEF LocalInv
  <2>33. ASSUME NEW t \in Threads, NtpParse(t) PROVE LocalInv'
    <3>1. DateInv'
      BY <2>33 DEF NtpParse, Goto, TypeInv, PcType, ValType, FromType,
         LocalInv, DateInv
    <3>2. SwapInv'
      BY <2>33 DEF NtpParse, Goto, TypeInv, PcType, FromType, ZoneSteps,
         SwapSteps, LocalInv, SwapInv
    <3>3. NtpInv'
      BY <2>2, <2>33 DEF NtpParse, Goto, TypeInv, PcType, NtpType,
         FromType, NtpSteps, LocalInv, NtpInv
    <3>4. SetInv'
      BY <2>33 DEF NtpParse, Goto, TypeInv, PcType, ValType, FromType,
         LocalInv, SetInv
    <3>5. ClockInv'
      BY <2>33 DEF NtpParse, Goto, LocalInv, ClockInv
    <3>. QED BY <3>1, <3>2, <3>3, <3>4, <3>5 DEF LocalInv
  <2>34. ASSUME NEW t \in Threads, NtpUse(t) PROVE LocalInv'
    <3>1. DateInv'
      <4>1. 2 * from[t].at < Word => val'[t] = from[t].at
        BY <2>34, TimestampRoundTrip DEF NtpUse, TypeInv, ValType,
           LocalInv, NtpInv
      <4>. QED BY <2>34, <4>1
           DEF NtpUse, Goto, Unmoved, TypeInv, PcType, ValType, LocalInv, DateInv
    <3>2. SwapInv'
      BY <2>34 DEF NtpUse, Goto, Unmoved, TypeInv, PcType, FromType,
         ZoneSteps, SwapSteps, LocalInv, SwapInv
    <3>3. NtpInv'
      BY <2>34 DEF NtpUse, Goto, Unmoved, TypeInv, PcType, NtpType,
         FromType, NtpSteps, LocalInv, NtpInv
    <3>4. SetInv'
      <4>1. /\ from[t].by = "server" /\ from[t].at \in ServerTimes
            /\ packet.transmit = Timestamp(from[t].at)
        BY <2>34 DEF NtpUse, LocalInv, NtpInv
      <4>2. val' = [val EXCEPT ![t] = TimeT(packet.transmit)] /\ from' = from
        BY <2>34 DEF NtpUse
      <4>. QED BY <2>34, <4>1, <4>2 DEF NtpUse, Goto, TypeInv, PcType, ValType, LocalInv,
           SetInv
    <3>5. ClockInv'
      BY <2>34 DEF NtpUse, Goto, Unmoved, LocalInv, ClockInv
    <3>. QED BY <3>1, <3>2, <3>3, <3>4, <3>5 DEF LocalInv
  <2>. QED
    BY <2>1, <2>5, <2>6, <2>7, <2>8, <2>9, <2>10, <2>11, <2>12, <2>13,
       <2>14, <2>15, <2>16, <2>17, <2>18, <2>19, <2>20, <2>21, <2>22,
       <2>23, <2>24, <2>25, <2>26, <2>27, <2>28, <2>29, <2>30, <2>31,
       <2>32, <2>33, <2>34
       DEF Next, Step, GetEnv, RestoreZone
<1>. QED
  BY <1>1, <1>2, TypeCorrect, StepsOfCalls, ZoneIsKept, PTL DEF Spec

(* A clock set from a date of standard time shows that date, and one set   *)
(* from a server the server's time, for all zones, dates and word sizes,   *)
(* past the end of the NTP era too.                                        *)
THEOREM ClockSetAsAsked ==
    ASSUME OneUser(ZoneCalls), OneUser(NtpCalls)
    PROVE  Spec => []ClockIsAsSet
<1>1. TypeInv /\ LocalInv => ClockIsAsSet
  <2>. SUFFICES ASSUME TypeInv, LocalInv, NEW c \in Clocks,
                       source[c].by = "date", IsStandard(source[c].zone, source[c].at)
                PROVE  LocalTime(source[c].zone, clock[c]) = source[c].at
    BY DEF LocalInv, ClockInv, ClockIsAsSet
  <2>. DEFINE z == source[c].zone
  <2>0. clock[c] \in Nat /\ source[c] \in Sources
    BY DEF TypeInv, ClockType
  <2>1. clock[c] \in Int /\ source[c].at \in Int /\ Offset[z] \in Int
    <3>1. source[c].at \in Int /\ z \in AllZones
      BY <2>0 DEF Sources
    <3>2. Offset[z] \in Int
      BY <3>1, OffsetAssumption
    <3>. QED BY <2>0, <3>1, <3>2
  <2>2. LocalTime(z, clock[c]) =
           source[c].at + (IF clock[c] \in Summer[z] THEN Hour ELSE 0)
    BY DEF LocalInv, ClockInv
  <2>3. source[c].at - Offset[z] \notin Summer[z]
    BY DEF IsStandard
  <2>4. CASE clock[c] \in Summer[z]
    <3>1. clock[c] = source[c].at - Offset[z]
      BY <2>1, <2>2, <2>4 DEF LocalTime, Hour
    <3>. QED
      BY <2>3, <2>4, <3>1
  <2>5. CASE clock[c] \notin Summer[z]
    BY <2>1, <2>2, <2>5
  <2>. QED
    BY <2>4, <2>5
<1>. QED BY <1>1, TypeCorrect, InstantsAreKept, PTL

(* A step other than the end of the process moves one thread.              *)
LEMMA OneMoves ==
    ASSUME NEW t \in Threads, Step(t) \/ NtpReceive(t) \/ \E o \in Operations : Begin(t, o),
           ~Crash
    PROVE  \E s : Goto(t, s)
  BY DEF Step, Begin, Return, ReadFile, TruncateFile, WriteFile, SetEnv,
     Tzset, GetEnv, ListZones, NextZone, ZoneTzset, ZoneTime, LastZone,
     GetTime, ToLocal, FromLocal, SetSys, SetRtc, ReadRtc, SwapZone, FromUtc,
     UnsetZone, RestoreZone, Retzset, NtpSocket, NtpSend, NtpTimeout,
     NtpReceive, NtpParse, NtpUse, Enter, PutEnv, TzsetThen

(* A date that is returned is that of the instant in the zone of the       *)
(* process, and getZoneInfo's is that in the zone it lists.                *)
THEOREM DatesReturnedAreLocal ==
    ASSUME OneUser(ZoneCalls), OneUser(NtpCalls)
    PROVE  Spec => DatesAreLocal
<1>. USE DEF clockVars, worldVars, zoneVars, ntpVars, callVars
<1>. DEFINE Local(t) ==
       /\ /\ pc[t] = "localtime" /\ pc'[t] = "return"
          /\ 2 * from[t].at < Word
          => val'[t] = LocalTime(zone, from[t].at)
       /\ pc[t] = "zonetime" /\ pc'[t] = "zone"
          => val'[t] = LocalTime(from[t].zone, clock["sys"])
<1>1. ASSUME TypeInv, ZoneKept, LocalInv, [Next]_vars, NEW t \in Threads, Alone(t)
      PROVE  Local(t)
  <2>1. CASE pc[t] = "localtime" /\ pc'[t] = "return"
    <3>1. ToLocal(t)
      <4>1. ~Crash /\ ~UNCHANGED vars
        BY <2>1 DEF Crash, Boot, vars
      <4>2. PICK u \in Threads :
               Step(u) \/ NtpReceive(u) \/ \E o \in Operations : Begin(u, o)
        BY <1>1, <4>1 DEF Next
      <4>3. u = t
        <5>1. PICK s : Goto(u, s)
          BY <4>1, <4>2, OneMoves
        <5>. QED BY <1>1, <2>1, <5>1 DEF Goto, TypeInv, PcType
      <4>. QED BY <2>1, <4>1, <4>2, <4>3 DEF Step, Begin, Return, ReadFile, TruncateFile, WriteFile, SetEnv, Tzset, GetEnv, ListZones, NextZone, ZoneTzset, LastZone, GetTime, FromLocal, SetSys, SetRtc, ReadRtc, SwapZone, FromUtc, UnsetZone, RestoreZone, Retzset, NtpSocket, NtpSend, NtpTimeout, NtpReceive, NtpParse, NtpUse, ZoneTime
    <3>2. tz = zone
      BY <1>1, <2>1 DEF Alone, ZoneKept, SwapSteps
    <3>3. 2 * from[t].at < Word => val[t] = from[t].at
      BY <1>1, <2>1 DEF LocalInv, DateInv
    <3>. QED BY <1>1, <2>1, <3>1, <3>2, <3>3 DEF ToLocal, TypeInv, ValType
  <2>2. CASE pc[t] = "zonetime" /\ pc'[t] = "zone"
    <3>1. ZoneTime(t)
      <4>1. ~Crash /\ ~UNCHANGED vars
        BY <2>2 DEF Crash, Boot, vars
      <4>2. PICK u \in Threads :
               Step(u) \/ NtpReceive(u) \/ \E o \in Operations : Begin(u, o)
        BY <1>1, <4>1 DEF Next
      <4>3. u = t
        <5>1. PICK s : Goto(u, s)
          BY <4>1, <4>2, OneMoves
        <5>. QED BY <1>1, <2>2, <5>1 DEF Goto, TypeInv, PcType
      <4>. QED BY <2>2, <4>1, <4>2, <4>3 DEF Step, Begin, Return, ReadFile, TruncateFile, WriteFile, SetEnv, Tzset, GetEnv, ListZones, NextZone, ZoneTzset, LastZone, GetTime, FromLocal, SetSys, SetRtc, ReadRtc, SwapZone, FromUtc, UnsetZone, RestoreZone, Retzset, NtpSocket, NtpSend, NtpTimeout, NtpReceive, NtpParse, NtpUse, ToLocal
    <3>2. tz = from[t].zone
      BY <1>1, <2>2 DEF LocalInv, SwapInv
    <3>. QED BY <1>1, <2>2, <3>1, <3>2 DEF ZoneTime, TypeInv, ValType
  <2>. QED BY <2>1, <2>2
<1>2. TypeInv /\ ZoneKept /\ LocalInv /\ [Next]_vars
      => [\A t \in Threads : Alone(t) => Local(t)]_vars
  BY <1>1
<1>. QED
  BY <1>2, TypeCorrect, ZoneIsKept, InstantsAreKept, PTL DEF Spec,
     DatesAreLocal
=============================================================================
