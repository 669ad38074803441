-------------------------------- MODULE Dates --------------------------------
(***************************************************************************)
(* MxcDate (src/src/libdate.cpp): the system clock, the hardware clock     *)
(* (RTC), the file /etc/timezone and the TZ variable of the process.  An   *)
(* object has no state of its own: all of it is shared by the threads of   *)
(* the process, and so is the packet g_ntpPacketStr of the NTP client.     *)
(*                                                                         *)
(* Time is counted in half hours.  A clock holds seconds since 1970 (a     *)
(* time_t, of which the kernel takes no negative one); a date is the same  *)
(* count as a local clock shows it.  Every library call that reads or      *)
(* changes shared state is a step.  The clocks do not tick: a call is      *)
(* short against half an hour.  A descriptor counts only where it stays    *)
(* open over a step, which is the socket of the NTP client.                *)
(***************************************************************************)
EXTENDS Integers, FiniteSets

CONSTANTS
    Threads,
    Calls,        \* Calls[t]: the operations thread t uses
    Zones,        \* the zones of /usr/share/zoneinfo
    Chosen,       \* those the application sets
    Unset,        \* not a zone: TZ is not in the environment
    Offset,       \* Offset[z]: local standard time less UTC
    Summer,       \* Summer[z]: the instants at which z is an hour ahead of it
    Inherited,    \* what a new process may find in TZ
    Dates,        \* the dates that are set
    ServerTimes,  \* the instants an NTP server may answer
    Start,        \* what the clocks hold before the first call
    Word,         \* 2^32: one more than the largest unsigned int
    Epoch,        \* NVR_NTP_JAN_1970: 1970 in the count of NTP
    MaxFds        \* descriptors the process may have open for sockets

AllZones == Zones \cup {"", "UTC0", Unset}
Hour == 2
Operations == {"initLocalZone", "getTimeZone", "setTimeZone", "setEnvTimeZone",
               "getEnvTimeZone", "getSysDate", "setSysDate", "getRtcDate",
               "setRtcDate", "getZoneInfo", "getNtpDate", "NtpToSys", "NtpToHc"}

ASSUME ThreadsAssumption == IsFiniteSet(Threads)
ASSUME CallsAssumption == Calls \in [Threads -> SUBSET Operations]
ASSUME ZoneAssumption ==
    /\ Inherited \subseteq AllZones /\ Chosen \subseteq Zones
    /\ Unset \notin Zones \cup {"", "UTC0"}
ASSUME OffsetAssumption ==
    /\ Offset \in [AllZones -> Int] /\ Offset[""] = 0 /\ Offset["UTC0"] = 0
ASSUME SummerAssumption ==
    /\ Summer \in [AllZones -> SUBSET Int] /\ Summer[""] = {} /\ Summer["UTC0"] = {}
ASSUME WordAssumption == Word \in Nat \ {0}
ASSUME EpochAssumption == Epoch \in 0..(Word - 1)
ASSUME FdsAssumption == MaxFds \in Nat
ASSUME DatesAssumption == Dates \subseteq Int /\ ServerTimes \subseteq 0..(Word - 1)
ASSUME StartAssumption == Start \subseteq Nat /\ \A s \in Start : 2 * s < Word

(* localtime_r in zone z.                                                  *)
LocalTime(z, s) == s + Offset[z] + (IF s \in Summer[z] THEN Hour ELSE 0)

(* mktime: its argument has tm_isdst = 0, so it is taken as standard time. *)
(* -1 stands for what a time_t does not hold.                              *)
Mktime(z, d) ==
    LET s == d - Offset[z]
    IN  IF -Word <= 2 * s /\ 2 * s < Word THEN s ELSE -1

(* Plausible mistake: a time_t read as an unsigned number.                 *)
SignedUnsigned(w) == w

(* The transmit timestamp for instant s, and the time_t read back from it. *)
Timestamp(s) == (s + Epoch) % Word
Signed(w) == IF 2 * w < Word THEN w ELSE w - Word
TimeT(stamp) == Signed((stamp - Epoch) % Word)

Clocks == {"sys", "rtc"}

VARIABLES
    clock,    \* the system clock and the RTC
    source,   \* history: what the clock was last set from
    tzfile,   \* /etc/timezone
    env,      \* TZ in the environment
    tz,       \* the zone in effect, from the last tzset
    zone,     \* history: the zone last chosen for the process
    fds,      \* open sockets
    packet,   \* g_ntpPacketStr: timestamp in the buffer, timestamp parsed
    built,    \* the process has an MxcDate
    pc,       \* the threads: next step,
    op,       \* call under way,
    val,      \* its instant or date,
    old,      \* its zone: the argument, the result, or the TZ to restore,
    todo,     \* the zones getZoneInfo has yet to list,
    from      \* history: where val comes from

clockVars == <<clock, source>>
worldVars == <<clockVars, tzfile>>
zoneVars == <<env, tz, zone>>
ntpVars == <<fds, packet>>
callVars == <<op, val, old, todo, from>>
vars == <<worldVars, zoneVars, ntpVars, built, pc, callVars>>

Sources == [by : {"none", "date", "server"}, at : Int, zone : AllZones]
NoSource == [by |-> "none", at |-> 0, zone |-> Unset]

(* The first step of each call.                                            *)
Entry ==
    [initLocalZone |-> "readfile", getTimeZone |-> "readfile",
     setTimeZone |-> "truncate", setEnvTimeZone |-> "setenv",
     getEnvTimeZone |-> "getenv", getSysDate |-> "gettime",
     setSysDate |-> "mktime", setRtcDate |-> "mktime",
     getRtcDate |-> "readrtc", getZoneInfo |-> "zones",
     getNtpDate |-> "socket", NtpToSys |-> "socket", NtpToHc |-> "socket"]

(* Steps at which a call has put another zone in place of the process's.   *)
SwapSteps == {"tzset", "utc", "unset", "restore", "retz", "zone", "zonetz",
              "zonetime"}
Steps == {"idle", "return", "readfile", "truncate", "write", "setenv", "getenv",
          "gettime", "localtime", "mktime", "setclock", "readrtc", "swap",
          "zones", "socket", "send", "select", "parse", "use"} \cup SwapSteps

TypeOK ==
    /\ clock \in [Clocks -> Nat] /\ \A c \in Clocks : 2 * clock[c] < Word
    /\ source \in [Clocks -> Sources]
    /\ tzfile \in Chosen \cup {""}
    /\ {env, tz, zone} \subseteq AllZones
    /\ fds \in 0..MaxFds
    /\ packet \in [buf : 0..(Word - 1), transmit : 0..(Word - 1)]
    /\ built \in BOOLEAN
    /\ pc \in [Threads -> Steps] /\ op \in [Threads -> Operations \cup {""}]
    /\ val \in [Threads -> Int] /\ old \in [Threads -> AllZones]
    /\ todo \in [Threads -> SUBSET Zones] /\ from \in [Threads -> Sources]

(* A process before its first MxcDate.                                     *)
Boot ==
    /\ env' \in Inherited /\ tz' = env' /\ zone' = env'
    /\ fds' = 0 /\ packet' = [buf |-> 0, transmit |-> 0]
    /\ built' = FALSE
    /\ pc' = [t \in Threads |-> "idle"] /\ op' = [t \in Threads |-> ""]
    /\ val' = [t \in Threads |-> 0] /\ old' = [t \in Threads |-> Unset]
    /\ todo' = [t \in Threads |-> {}] /\ from' = [t \in Threads |-> NoSource]

Init ==
    /\ clock \in [Clocks -> Start] /\ source = [c \in Clocks |-> NoSource]
    /\ tzfile \in Chosen \cup {""}
    /\ env \in Inherited /\ tz = env /\ zone = env
    /\ fds = 0 /\ packet = [buf |-> 0, transmit |-> 0]
    /\ built = FALSE
    /\ pc = [t \in Threads |-> "idle"] /\ op = [t \in Threads |-> ""]
    /\ val = [t \in Threads |-> 0] /\ old = [t \in Threads |-> Unset]
    /\ todo = [t \in Threads |-> {}] /\ from = [t \in Threads |-> NoSource]

---------------------------------------------------------------------------
(* Steps common to the calls.                                              *)
Goto(t, step) == pc' = [pc EXCEPT ![t] = step]
Alone(t) == \A u \in Threads \ {t} : pc[u] \notin SwapSteps

Enter(t, step, o, d, z) ==
    /\ Goto(t, step) /\ op' = [op EXCEPT ![t] = o]
    /\ val' = [val EXCEPT ![t] = d] /\ old' = [old EXCEPT ![t] = z]
    /\ todo' = [todo EXCEPT ![t] = {}] /\ from' = [from EXCEPT ![t] = NoSource]
    /\ UNCHANGED <<worldVars, zoneVars, ntpVars>>

(* A call, with a zone or a date where it takes one.                       *)
Begin(t, o) ==
    /\ pc[t] = "idle" /\ o \in Calls[t]
    /\ built \/ o = "initLocalZone"
    /\ \E z \in IF o \in {"setTimeZone", "setEnvTimeZone"} THEN Chosen ELSE {Unset},
          d \in IF o \in {"setSysDate", "setRtcDate"} THEN Dates ELSE {0} :
         Enter(t, Entry[o], o, d, z)
    /\ UNCHANGED built

(* The first call of a process is the constructor's, initLocalZone.        *)
Return(t) ==
    /\ pc[t] = "return"
    /\ Enter(t, "idle", "", 0, Unset)
    /\ built' = TRUE

(* The process ends; files and clocks stay.                                *)
Crash == Boot /\ UNCHANGED worldVars

(* The steps after which the thread alone has changed, the environment, or *)
(* the zone in effect.                                                     *)
Unmoved == UNCHANGED <<worldVars, zoneVars, ntpVars, built, op>>

PutEnv(t, z, step) ==
    /\ env' = z
    /\ Goto(t, step)
    /\ UNCHANGED <<worldVars, tz, ntpVars, built, op, val>>

TzsetThen(t, step) ==
    /\ tz' = env
    /\ Goto(t, step)
    /\ UNCHANGED <<worldVars, env, zone, ntpVars, built, op, old>>

---------------------------------------------------------------------------
(* Plausible mistakes in the code below; TLC uses them to show that the    *)
(* properties at the end of this module can fail.  No action refers to     *)
(* them.                                                                   *)

(* setRtcDate writes the local date to the RTC as it is.                   *)
FromLocalAsUtc(t) ==
    /\ pc[t] = "mktime"
    /\ TzsetThen(t, "setclock")
    /\ val' = [val EXCEPT ![t] = IF op[t] = "setRtcDate" THEN @ ELSE Mktime(env, @)]
    /\ from' = [from EXCEPT ![t] = [by |-> "date", at |-> val[t], zone |-> zone]]
    /\ UNCHANGED todo

(* getRtcDate takes the RTC for a clock of local time.                     *)
SwapSkipped(t) ==
    /\ pc[t] = "swap"
    /\ PutEnv(t, env, "utc")
    /\ old' = [old EXCEPT ![t] = env]
    /\ UNCHANGED <<zone, todo, from>>

(* getRtcDate does not restore TZ.                                         *)
RestoreSkipped(t) ==
    /\ pc[t] = "restore"
    /\ Goto(t, "retz")
    /\ Unmoved /\ UNCHANGED <<val, old, todo, from>>

(* select has no timeout.                                                  *)
NtpTimeoutNever(t) ==
    /\ pc[t] = "select"
    /\ UNCHANGED vars

---------------------------------------------------------------------------
(* The zone.                                                               *)

(* getTimeZone.  initLocalZone leaves TZ alone if the file does not open.  *)
ReadFile(t) ==
    /\ pc[t] = "readfile"
    /\ \/ /\ old' = [old EXCEPT ![t] = tzfile]
          /\ Goto(t, IF op[t] = "initLocalZone" THEN "setenv" ELSE "return")
       \/ UNCHANGED old /\ Goto(t, "return")
    /\ Unmoved /\ UNCHANGED <<val, todo, from>>

(* setTimeZone opens the file for writing, which empties it, ...           *)
TruncateFile(t) ==
    /\ pc[t] = "truncate"
    /\ \/ tzfile' = "" /\ Goto(t, "write")
       \/ UNCHANGED tzfile /\ Goto(t, "return")
    /\ UNCHANGED <<clockVars, zoneVars, ntpVars, built, callVars>>

(* ... and writes the zone when it closes it.                              *)
WriteFile(t) ==
    /\ pc[t] = "write"
    /\ tzfile' = old[t]
    /\ Goto(t, "return")
    /\ UNCHANGED <<clockVars, zoneVars, ntpVars, built, callVars>>

(* setEnvTimeZone: setenv, then tzset.                                     *)
SetEnv(t) ==
    /\ pc[t] = "setenv"
    /\ PutEnv(t, old[t], "tzset")
    /\ zone' = old[t]
    /\ UNCHANGED <<old, todo, from>>

Tzset(t) ==
    /\ pc[t] = "tzset"
    /\ TzsetThen(t, "return")
    /\ UNCHANGED <<val, todo, from>>

(* getEnvTimeZone: without TZ, a string made of a NULL pointer.            *)
GetEnv(t) ==
    /\ pc[t] = "getenv"
    /\ IF env = Unset THEN Crash
       ELSE /\ old' = [old EXCEPT ![t] = env]
            /\ Goto(t, "return")
            /\ Unmoved /\ UNCHANGED <<val, todo, from>>

(* getZoneInfo: the names, and the TZ to restore.  Without one the string  *)
(* constructor throws and the call ends.                                   *)
ListZones(t) ==
    /\ pc[t] = "zones"
    /\ \/ /\ env # Unset
          /\ todo' = [todo EXCEPT ![t] = Zones]
          /\ old' = [old EXCEPT ![t] = env]
          /\ Goto(t, "zone")
       \/ env = Unset /\ Goto(t, "return") /\ UNCHANGED <<old, todo>>
    /\ Unmoved /\ UNCHANGED <<val, from>>

(* For each zone: setenv, tzset, the time there ...                        *)
NextZone(t) ==
    /\ pc[t] = "zone"
    /\ \E z \in todo[t] :
          /\ PutEnv(t, z, "zonetz")
          /\ todo' = [todo EXCEPT ![t] = @ \ {z}]
          /\ from' = [from EXCEPT ![t] = [NoSource EXCEPT !.zone = z]]
    /\ UNCHANGED <<zone, old>>

ZoneTzset(t) ==
    /\ pc[t] = "zonetz"
    /\ TzsetThen(t, "zonetime")
    /\ UNCHANGED <<val, todo, from>>

(* ... by localtime_r; the offset comes from mktime, which sets the zone   *)
(* from TZ once more.                                                      *)
ZoneTime(t) ==
    /\ pc[t] = "zonetime"
    /\ val' = [val EXCEPT ![t] = LocalTime(tz, clock["sys"])]
    /\ TzsetThen(t, "zone")
    /\ UNCHANGED <<todo, from>>

(* At the end the TZ of before.                                            *)
LastZone(t) ==
    /\ pc[t] = "zone" /\ todo[t] = {}
    /\ PutEnv(t, old[t], "tzset")
    /\ UNCHANGED <<zone, old, todo, from>>

---------------------------------------------------------------------------
(* Dates and clocks.                                                       *)

(* gettimeofday, and localtime_r, which does not look at TZ again.         *)
GetTime(t) ==
    /\ pc[t] = "gettime"
    /\ val' = [val EXCEPT ![t] = clock["sys"]]
    /\ from' = [from EXCEPT ![t] = [NoSource EXCEPT !.at = clock["sys"]]]
    /\ Goto(t, "localtime")
    /\ Unmoved /\ UNCHANGED <<old, todo>>

ToLocal(t) ==
    /\ pc[t] = "localtime"
    /\ val' = [val EXCEPT ![t] = LocalTime(tz, @)]
    /\ Goto(t, "return")
    /\ Unmoved /\ UNCHANGED <<old, todo, from>>

(* setSysDate, setRtcDate: mktime, which sets the zone from TZ.  The RTC   *)
(* gets the instant as gmtime_r breaks it down: as it is.                  *)
FromLocal(t) ==
    /\ pc[t] = "mktime"
    /\ TzsetThen(t, "setclock")
    /\ val' = [val EXCEPT ![t] = Mktime(env, @)]
    /\ from' = [from EXCEPT ![t] =
                  IF Alone(t) THEN [by |-> "date", at |-> val[t], zone |-> zone]
                  ELSE NoSource]
    /\ UNCHANGED todo

(* The kernel sets a clock to no instant before 1970.                      *)
Set(t, c) ==
    /\ val[t] >= 0
    /\ clock' = [clock EXCEPT ![c] = val[t]]
    /\ source' = [source EXCEPT ![c] = from[t]]

SetsSys(t) == op[t] \in {"setSysDate", "NtpToSys"}

(* settimeofday may fail, which the caller does not look at.               *)
SetSys(t) ==
    /\ pc[t] = "setclock" /\ SetsSys(t)
    /\ Set(t, "sys") \/ UNCHANGED clockVars
    /\ Goto(t, "return")
    /\ UNCHANGED <<tzfile, zoneVars, ntpVars, built, callVars>>

(* writeRTC fails if the device does not open or refuses the time.         *)
SetRtc(t) ==
    /\ pc[t] = "setclock" /\ ~SetsSys(t)
    /\ Set(t, "rtc") \/ UNCHANGED clockVars
    /\ Goto(t, "return")
    /\ UNCHANGED <<tzfile, zoneVars, ntpVars, built, callVars>>

(* getRtcDate: the RTC counts in UTC, ...                                  *)
ReadRtc(t) ==
    /\ pc[t] = "readrtc"
    /\ \/ /\ val' = [val EXCEPT ![t] = clock["rtc"]]
          /\ from' = [from EXCEPT ![t] = [NoSource EXCEPT !.at = clock["rtc"]]]
          /\ Goto(t, "swap")
       \/ UNCHANGED <<val, from>> /\ Goto(t, "return")
    /\ Unmoved /\ UNCHANGED <<old, todo>>

(* ... so mktime, which takes a local date, is called with TZ at UTC0.     *)
SwapZone(t) ==
    /\ pc[t] = "swap"
    /\ PutEnv(t, "UTC0", "utc")
    /\ old' = [old EXCEPT ![t] = env]
    /\ UNCHANGED <<zone, todo, from>>

FromUtc(t) ==
    /\ pc[t] = "utc"
    /\ TzsetThen(t, "unset")
    /\ val' = [val EXCEPT ![t] = Mktime(env, @)]
    /\ UNCHANGED <<todo, from>>

UnsetZone(t) ==
    /\ pc[t] = "unset"
    /\ PutEnv(t, Unset, "restore")
    /\ UNCHANGED <<zone, old, todo, from>>

(* putenv(oldtz - 3): without a TZ before, a pointer to nothing.           *)
RestoreZone(t) ==
    /\ pc[t] = "restore"
    /\ IF old[t] = Unset THEN Crash
       ELSE PutEnv(t, old[t], "retz") /\ UNCHANGED <<zone, old, todo, from>>

Retzset(t) ==
    /\ pc[t] = "retz"
    /\ TzsetThen(t, "localtime")
    /\ UNCHANGED <<val, todo, from>>

---------------------------------------------------------------------------
(* The NTP client.                                                         *)

(* getaddrinfo and socket, each of which may fail.                         *)
NtpSocket(t) ==
    /\ pc[t] = "socket"
    /\ \/ fds < MaxFds /\ fds' = fds + 1 /\ Goto(t, "send")
       \/ UNCHANGED fds /\ Goto(t, "return")
    /\ UNCHANGED <<worldVars, zoneVars, packet, built, callVars>>

(* nvr_ntp_packet_init and sendto.  Every end of the exchange but that by  *)
(* the timeout leaves the socket open.                                     *)
NtpSend(t) ==
    /\ pc[t] = "send"
    /\ packet' = [packet EXCEPT !.buf = Timestamp(clock["sys"])]
    /\ \E step \in {"select", "return"} : Goto(t, step)
    /\ UNCHANGED <<worldVars, zoneVars, fds, built, callVars>>

NtpTimeout(t) ==
    /\ pc[t] = "select"
    /\ fds' = fds - 1
    /\ Goto(t, "return")
    /\ UNCHANGED <<worldVars, zoneVars, packet, built, callVars>>

(* An answer, a short one that ends before the timestamp, or an error.     *)
NtpReceive(t) ==
    /\ pc[t] = "select"
    /\ \/ \E s \in ServerTimes :
             /\ packet' = [packet EXCEPT !.buf = Timestamp(s)]
             /\ from' = [from EXCEPT ![t] = [by |-> "server", at |-> s, zone |-> Unset]]
             /\ Goto(t, "parse")
       \/ UNCHANGED <<packet, from>> /\ Goto(t, "return")
    /\ UNCHANGED <<worldVars, zoneVars, fds, built, op, val, old, todo>>

NtpParse(t) ==
    /\ pc[t] = "parse"
    /\ packet' = [packet EXCEPT !.transmit = packet.buf]
    /\ Goto(t, "use")
    /\ UNCHANGED <<worldVars, zoneVars, fds, built, callVars>>

(* getNtpday, for a date, the system clock or the RTC.                     *)
NtpUse(t) ==
    /\ pc[t] = "use"
    /\ val' = [val EXCEPT ![t] = TimeT(packet.transmit)]
    /\ Goto(t, IF op[t] = "getNtpDate" THEN "localtime" ELSE "setclock")
    /\ Unmoved /\ UNCHANGED <<old, todo, from>>

---------------------------------------------------------------------------
(* What a thread does by itself once it has made a call.                   *)
Step(t) ==
    \/ Return(t) \/ ReadFile(t) \/ TruncateFile(t) \/ WriteFile(t) \/ SetEnv(t)
    \/ Tzset(t) \/ GetEnv(t) \/ ListZones(t) \/ NextZone(t) \/ ZoneTzset(t)
    \/ ZoneTime(t) \/ LastZone(t) \/ GetTime(t) \/ ToLocal(t) \/ FromLocal(t)
    \/ SetSys(t) \/ SetRtc(t) \/ ReadRtc(t) \/ SwapZone(t) \/ FromUtc(t)
    \/ UnsetZone(t) \/ RestoreZone(t) \/ Retzset(t) \/ NtpSocket(t)
    \/ NtpSend(t) \/ NtpTimeout(t) \/ NtpParse(t) \/ NtpUse(t)

Next ==
    \/ Crash
    \/ \E t \in Threads : Step(t) \/ NtpReceive(t) \/ \E o \in Operations : Begin(t, o)

Spec == Init /\ [][Next]_vars

(* Threads are scheduled; no server need answer.                           *)
FairSpec == Spec /\ \A t \in Threads : WF_vars(Step(t))

---------------------------------------------------------------------------
(* Properties, for applications in which one thread at most uses the calls *)
(* that change TZ and one at most the NTP client.                          *)
ZoneCalls == {"initLocalZone", "setEnvTimeZone", "getRtcDate", "getZoneInfo"}
NtpCalls == {"getNtpDate", "NtpToSys", "NtpToHc"}
OneUser(ops) == \E t \in Threads : \A u \in Threads \ {t} : Calls[u] \cap ops = {}

(* getRtcDate and getZoneInfo leave the process in the zone it was put in, *)
(* in the environment and in the C library, however they end.              *)
ZoneKept == (\A t \in Threads : pc[t] \notin SwapSteps)
    => env = zone /\ tz = zone

(* A date that is returned is, in the zone of the process, that of the     *)
(* instant read from the clock or the server, if that is before 2038 and   *)
(* no other thread has swapped the zone; getZoneInfo lists for every zone  *)
(* the time it is there.                                                   *)
DatesAreLocal ==
    [][\A t \in Threads : Alone(t) =>
          /\ /\ pc[t] = "localtime" /\ pc'[t] = "return"
             /\ 2 * from[t].at < Word
             => val'[t] = LocalTime(zone, from[t].at)
          /\ pc[t] = "zonetime" /\ pc'[t] = "zone"
             => val'[t] = LocalTime(from[t].zone, clock["sys"])]_vars

(* A clock set from a date of standard time shows that date in the zone of *)
(* the process; a clock set from a server holds the server's time, also    *)
(* past the end of the NTP era in 2036.  ClockShowsDate asks the same of   *)
(* the dates of summer time.                                               *)
IsStandard(z, d) == d - Offset[z] \notin Summer[z]
ClockIsAsSet ==
    \A c \in Clocks :
        /\ source[c].by = "date" /\ IsStandard(source[c].zone, source[c].at) =>
             LocalTime(source[c].zone, clock[c]) = source[c].at
        /\ source[c].by = "server" => clock[c] = source[c].at

(* A clock set from a date shows that date in the zone of the process, if  *)
(* the clocks there ever show it.                                          *)
ClockShowsDate ==
    \A c \in Clocks :
        LET z == source[c].zone
            d == source[c].at
        IN  source[c].by = "date" /\ (\E s \in {d - Offset[z], d - Offset[z] - Hour} :
                                        LocalTime(z, s) = d)
                => LocalTime(z, clock[c]) = d

(* Every call returns, or the process ends: an NTP server that does not    *)
(* answer is given up.                                                     *)
CallReturns == \A t \in Threads : pc[t] # "idle" ~> pc[t] = "idle"
=============================================================================
