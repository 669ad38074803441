------------------------------- MODULE MCDates -------------------------------
(* A small instance of Dates: one thread that sets zones and dates, one    *)
(* that asks an NTP server.  Rome has summer time, Kolkata lies five and a *)
(* half hours ahead.  With 32 for 2^32, the NTP era ends at 15 and the     *)
(* time_t at 16.                                                           *)
EXTENDS Dates

MCCalls ==
    [t \in Threads |->
        IF t = "main" THEN Operations \ NtpCalls ELSE NtpCalls]
MCOffset ==
    [z \in AllZones |-> CASE z = "Rome" -> 2 [] z = "Kolkata" -> 11 [] OTHER -> 0]
MCSummer == [z \in AllZones |-> IF z = "Rome" THEN 8..12 ELSE {}]
=============================================================================
