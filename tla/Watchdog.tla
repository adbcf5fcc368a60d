------------------------------- MODULE Watchdog -------------------------------
(***************************************************************************)
(* The timeout watchdog of cr_files.c with its arithmetic: ticks are        *)
(* unsigned and wrap.  FileTransfer uses it as a flag that may expire at    *)
(* any call; here is when it does.  cr_process checks it at every call made *)
(* while the link is up, and only keeps the ticks at the others.           *)
(***************************************************************************)
EXTENDS Integers

CONSTANTS
  Modulus,    (* ticks wrap here: 2^32 in the code                         *)
  Periods,    (* timeout_in_ms of the transfers                            *)
  MaxStep,    (* ticks between two calls of cr_process, at most            *)
  Horizon     (* bound: the ticks a run lasts                              *)

ASSUME WatchdogAssumption ==
  /\ Modulus \in Nat \ {0}
  /\ Periods \subseteq 0 .. Modulus - 1
  /\ MaxStep \in 1 .. Modulus - 1
  /\ Horizon \in Nat

VARIABLES
  ticks,       (* sCr_currentTicks                                         *)
  is_active,   (* sTimeoutWatchdog_is_active                               *)
  period,      (* sTimeoutWatchdog_period                                  *)
  target,      (* sTimeoutWatchdog_target                                  *)
  clock,       (* history: the time that ticks stands for                  *)
  stroked,     (* history: clock when the watchdog was started or stroked  *)
  expired,     (* history: this call of cr_process found it expired        *)
  checked      (* history: this was a call that looked                     *)

watchdogVars == <<is_active, period, target, stroked>>
vars == <<ticks, clock, watchdogVars, expired, checked>>

After(msec) == (ticks + msec) % Modulus

start_timeout(msec) ==
  /\ is_active' = (msec > 0)
  /\ IF msec > 0
       THEN period' = msec /\ target' = After(msec)
       ELSE UNCHANGED <<period, target>>
  /\ stroked' = clock
  /\ expired' = FALSE /\ checked' = FALSE
  /\ UNCHANGED <<ticks, clock>>

stroke_timeout ==
  /\ is_active
  /\ target' = After(period)
  /\ stroked' = clock
  /\ expired' = FALSE /\ checked' = FALSE
  /\ UNCHANGED <<ticks, is_active, period, clock>>

end_timeout ==
  /\ is_active
  /\ is_active' = FALSE
  /\ expired' = FALSE /\ checked' = FALSE
  /\ UNCHANGED <<ticks, period, target, clock, stroked>>

(* Variant: times out at the tick of the target.                            *)
TimedOutAtTarget(at) == is_active /\ at >= target

TimedOut(at) == is_active /\ at > target

(* Time has passed when cr_process is called next.                          *)
store_ticks ==
  \E step \in 1 .. MaxStep :
    /\ clock + step <= Horizon
    /\ clock' = clock + step
    /\ ticks' = (ticks + step) % Modulus

(* The link is up: the watchdog is checked before anything else, and one    *)
(* that has expired is switched off.                                       *)
check_timeout ==
  /\ store_ticks
  /\ expired' = TimedOut(ticks')
  /\ is_active' = (is_active /\ ~TimedOut(ticks'))
  /\ checked' = TRUE
  /\ UNCHANGED <<period, target, stroked>>

(* The link is down: nothing more is done.                                 *)
process_unconnected ==
  /\ store_ticks
  /\ expired' = FALSE /\ checked' = FALSE
  /\ UNCHANGED watchdogVars

Init ==
  /\ ticks = 0 /\ clock = 0 /\ stroked = 0
  /\ is_active = FALSE /\ period = 0 /\ target = 0
  /\ expired = FALSE /\ checked = FALSE

Next ==
  \/ \E msec \in Periods : start_timeout(msec)
  \/ stroke_timeout
  \/ end_timeout
  \/ check_timeout
  \/ process_unconnected

Spec == Init /\ [][Next]_vars

-----------------------------------------------------------------------------

(* The variables keep their types.                                          *)
TypeOK ==
  /\ ticks \in 0 .. Modulus - 1
  /\ is_active \in BOOLEAN
  /\ period \in Nat
  /\ target \in 0 .. Modulus - 1
  /\ clock \in Nat
  /\ stroked \in 0 .. clock
  /\ expired \in BOOLEAN /\ checked \in BOOLEAN

(* Until ticks or a target wraps, a transfer times out at the first call    *)
(* past its timeout since the last packet that finds the link up, and never *)
(* before.                                                                 *)
PunctualUntilWrap ==
  clock < Modulus /\ stroked + period < Modulus =>
    /\ expired => clock - stroked > period
    /\ checked /\ is_active => clock - stroked <= period

=============================================================================
