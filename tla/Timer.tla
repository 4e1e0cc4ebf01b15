------------------------------- MODULE Timer -------------------------------
(***************************************************************************)
(* Time and delays: lib/time.c and arch/arm64/kernel/generic_timer.c.  The *)
(* counter runs at tbclk ticks a second; 64-bit products have LongMod      *)
(* values.  Thousand is both CONFIG_SYS_HZ and the factor between the      *)
(* units, Ten its share in usec2ticks(), and Period is CONFIG_WD_PERIOD.   *)
(***************************************************************************)
EXTENDS Naturals

CONSTANTS LongMod, Thousand, Ten, Period

Million == Thousand * Thousand
do_div(n, base) == n \div base

tick_to_time(tick, tbclk) == do_div((tick * Thousand) % LongMod, tbclk)
tick_to_time_us(tick, tbclk) == do_div((tick * Thousand) % LongMod, tbclk \div Thousand)
timer_get_us(ticks, tbclk) == tick_to_time((ticks * Thousand) % LongMod, tbclk)
timer_get_boot_us(ticks, tbclk) == ((ticks * Million) % LongMod) \div tbclk

usec_to_tick(usec, tbclk) == do_div((usec * tbclk) % LongMod, Million)
usec2ticks(usec, tbclk) ==
  IF usec < Thousand THEN ((usec * (tbclk \div Thousand) + Thousand \div 2) % LongMod) \div Thousand
  ELSE ((usec \div Ten) * (tbclk \div (Million \div Ten))) % LongMod

(* __udelay() returns at the first tick that is not below tmp + 1; this is *)
(* how many ticks it lets pass.                                            *)
Waited(usec, tbclk) == usec_to_tick(usec, tbclk) + 1

RECURSIVE udelay(_, _)
udelay(usec, tbclk) ==
  IF usec <= Period THEN Waited(usec, tbclk)
  ELSE Waited(Period, tbclk) + udelay(usec - Period, tbclk)

-----------------------------------------------------------------------------
(* A delay is never short and at most one tick a period too long, whatever *)
(* the product of all of usec and tbclk would overflow to; the microsecond *)
(* clocks agree while their products fit; usec2ticks(), while its products *)
(* fit, is exact below a millisecond and off by less than Ten microseconds *)
(* above.                                                                  *)
TimeRight(usec, tbclk) ==
  /\ Period * tbclk < LongMod =>
       LET ticks == udelay(usec, tbclk)
       IN /\ ticks * Million > usec * tbclk
          /\ (ticks - (usec \div Period) - 1) * Million <= usec * tbclk
  /\ usec * Million < LongMod =>
       /\ timer_get_us(usec, tbclk) = timer_get_boot_us(usec, tbclk)
       /\ tbclk % Thousand = 0 => tick_to_time_us(usec, tbclk) = timer_get_boot_us(usec, tbclk)
  /\ tbclk % Million = 0 /\ (usec + 1) * tbclk < LongMod * Thousand =>
       LET exact == usec * (tbclk \div Million)
           ticks == usec2ticks(usec, tbclk)
       IN IF usec < Thousand THEN ticks = exact
          ELSE ticks <= exact /\ exact - ticks < Ten * (tbclk \div Million)
=============================================================================
