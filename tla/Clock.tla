-------------------------------- MODULE Clock --------------------------------
(***************************************************************************)
(* The time of day: the real time clock (kernel/cmos/rtc_cmos.c), read     *)
(* once at boot, and gettimeofday (kernel/time/time.c), which adds the     *)
(* uptime.  A time is a pair of days and seconds, of which the code makes  *)
(* one number.                                                             *)
(***************************************************************************)
EXTENDS Integers, Sequences

EPOCH_YEAR == 1970
IS_LEAP_YEAR(y) == (y % 4 = 0 /\ y % 100 # 0) \/ y % 400 = 0

DAYS_PER_MONTH(leap) ==
    <<31, IF leap THEN 29 ELSE 28, 31, 30, 31, 30, 31, 31, 30, 31, 30, 31>>

BCD_TO_BIN(v) == (v % 16) + (v \div 16) * 10
U8(x) == x % 256

(* uint8_t counters of years and leap years. *)
PastYears(year) ==
    LET leap[y \in EPOCH_YEAR .. year] ==
            IF y = EPOCH_YEAR THEN 0
            ELSE U8(leap[y - 1] + (IF IS_LEAP_YEAR(y - 1) THEN 1 ELSE 0))
        plain[y \in EPOCH_YEAR .. year] ==
            IF y = EPOCH_YEAR THEN 0
            ELSE U8(plain[y - 1] + (IF IS_LEAP_YEAR(y - 1) THEN 0 ELSE 1))
    IN plain[year] * 365 + leap[year] * 366

LeapOfLastYear(year, month) ==                                      \* mutant
    LET days[m \in 0 .. 11] ==
        IF m = 0 THEN 0 ELSE days[m - 1] + DAYS_PER_MONTH(IS_LEAP_YEAR(year - 1))[m]
    IN days[month - 1]
PastMonths(year, month) ==
    LET days[m \in 0 .. 11] ==
        IF m = 0 THEN 0 ELSE days[m - 1] + DAYS_PER_MONTH(IS_LEAP_YEAR(year))[m]
    IN days[month - 1]

rtc_to_unix_epoch(d) ==
    [day |-> PastYears(d.year) + PastMonths(d.year, d.month) + d.day - 1,
     sec |-> d.hours * 3600 + d.mins * 60 + d.seconds]

(* The clock has its registers by number. *)
cmos_register == [seconds |-> 0, mins |-> 2, hours |-> 4, day |-> 7, month |-> 8, year |-> 9]

(* The number goes to the address port with bit 7 set, which disables NMIs  *)
(* and is not part of it.                                                   *)
NMI_DISABLE == 128
read_cmos_register(rtc, reg) == rtc[(cmos_register[reg] + NMI_DISABLE) % 128]

(* The registers are in BCD, the year without its century. *)
rtc_get_unix_epoch(rtc) ==
    LET r == [f \in DOMAIN cmos_register |-> BCD_TO_BIN(read_cmos_register(rtc, f))]
    IN rtc_to_unix_epoch([r EXCEPT !.year = @ + 2000])

(* Read once; later calls keep what there is. *)
NOT_READ == [day |-> 0, sec |-> 0]
init_cmos(boot, rtc) == IF boot # NOT_READ THEN boot ELSE rtc_get_unix_epoch(rtc)

gettimeofday(boot, uptime) ==
    [day |-> boot.day, sec |-> boot.sec + uptime \div 1000, usec |-> (uptime % 1000) * 1000]

-----------------------------------------------------------------------------
(* The reference: the calendar goes from one day to the next. *)
BIN_TO_BCD(v) == 16 * (v \div 10) + (v % 10)

Rtc(d) == [r \in 0 .. 9 |->
    LET f == {f \in DOMAIN cmos_register : cmos_register[f] = r}
    IN IF f = {} THEN 0 ELSE BIN_TO_BCD(d[CHOOSE g \in f : TRUE] % 100)]

MonthLength(d) == DAYS_PER_MONTH(IS_LEAP_YEAR(d.year))[d.month]

Tomorrow(d) ==
    IF d.day < MonthLength(d) THEN [d EXCEPT !.day = @ + 1]
    ELSE IF d.month < 12 THEN [d EXCEPT !.day = 1, !.month = @ + 1]
    ELSE [d EXCEPT !.day = 1, !.month = 1, !.year = @ + 1]

=============================================================================
