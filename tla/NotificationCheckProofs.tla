------------------------ MODULE NotificationCheckProofs ------------------------
(***************************************************************************)
(* The watchdog and the check of the notifications, for every width of      *)
(* ticks, pace of calls, set of parameters, number of slots and            *)
(* configurations.  The watchdog is punctual until its ticks or a target    *)
(* wrap, also where the two run together; the periods of a notification     *)
(* are kept also when ticks goes round between two of them, and after a     *)
(* check nothing is owed to a client that the arithmetic can tell.          *)
(***************************************************************************)
EXTENDS NotificationCheck, WellFoundedInduction, TLAPS

-----------------------------------------------------------------------------
(* The watchdog alone.                                                     *)

LEMMA ModBelow ==
  ASSUME NEW a \in Nat, NEW m \in Nat \ {0}
  PROVE  a % m \in 0 .. m - 1 /\ (a < m => a % m = a)
  OBVIOUS

(* Until the wrap, ticks is the time and the target lies one period after   *)
(* the last stroke; without this the two could drift apart unseen.          *)
WatchdogInv ==
  /\ TypeOK
  /\ clock < Modulus => ticks = clock
  /\ is_active /\ clock < Modulus /\ stroked + period < Modulus => target = stroked + period
  /\ PunctualUntilWrap

LEMMA InitWatchdog == Init => WatchdogInv
<1> SUFFICES ASSUME Init PROVE WatchdogInv
  OBVIOUS
<1>1. 0 \in 0 .. Modulus - 1
  BY WatchdogAssumption
<1>2. /\ ticks = 0 /\ clock = 0 /\ stroked = 0 /\ period = 0 /\ target = 0
      /\ is_active = FALSE /\ expired = FALSE /\ checked = FALSE
  BY Zenon DEF Init
<1>3. is_active \in BOOLEAN /\ expired \in BOOLEAN /\ checked \in BOOLEAN
  BY <1>2, Zenon
<1>4. /\ ticks \in 0 .. Modulus - 1 /\ target \in 0 .. Modulus - 1
      /\ period \in Nat /\ clock \in Nat /\ stroked \in 0 .. clock
  BY <1>1, <1>2
<1>5. TypeOK
  BY <1>3, <1>4, Zenon DEF TypeOK
<1>6. PunctualUntilWrap
  BY <1>2 DEF PunctualUntilWrap
<1>7. (clock < Modulus => ticks = clock) /\ ~is_active
  BY <1>2
<1>8. QED BY <1>5, <1>6, <1>7, Zenon DEF WatchdogInv

(* A step that reports nothing keeps the invariant, if ticks stays the time *)
(* and an active watchdog has a target one period after a stroke now.       *)
LEMMA Armed ==
  ASSUME TypeOK', UNCHANGED <<ticks, clock>>, WatchdogInv, expired' = FALSE, checked' = FALSE,
         stroked' = clock,
         is_active' /\ ticks + period' < Modulus => target' = ticks + period'
  PROVE  WatchdogInv'
<1>1. ticks \in Nat /\ clock \in Nat /\ period' \in Nat
  BY DEF WatchdogInv, TypeOK
<1>2. clock' < Modulus => ticks' = clock'
  BY DEF WatchdogInv
<1>3. (is_active /\ clock < Modulus /\ stroked + period < Modulus => target = stroked + period)'
  BY <1>1, <1>2
<1>4. PunctualUntilWrap'
  BY <1>1 DEF PunctualUntilWrap
<1>5. QED BY <1>2, <1>3, <1>4 DEF WatchdogInv

LEMMA StepWatchdog == WatchdogInv /\ [Next]_vars => WatchdogInv'
<1> SUFFICES ASSUME WatchdogInv, [Next]_vars PROVE WatchdogInv'
  OBVIOUS
<1> USE WatchdogAssumption
<1>1. /\ ticks \in 0 .. Modulus - 1 /\ target \in 0 .. Modulus - 1
      /\ is_active \in BOOLEAN /\ expired \in BOOLEAN /\ checked \in BOOLEAN
      /\ period \in Nat /\ clock \in Nat /\ stroked \in 0 .. clock
      /\ Modulus \in Nat \ {0}
  BY DEF WatchdogInv, TypeOK
<1>2. ASSUME NEW msec \in Periods, start_timeout(msec) PROVE WatchdogInv'
  <2>1. msec \in 0 .. Modulus - 1 /\ ticks + msec \in Nat
    BY <1>1
  <2>2. After(msec) \in 0 .. Modulus - 1 /\ (ticks + msec < Modulus => After(msec) = ticks + msec)
    BY <1>1, <2>1, ModBelow DEF After
  <2>3. /\ expired' = FALSE /\ checked' = FALSE /\ stroked' = clock
        /\ ticks' = ticks /\ clock' = clock
        /\ is_active' = (msec > 0)
    BY <1>2, Zenon DEF start_timeout
  <2>4. is_active' \in BOOLEAN /\ expired' \in BOOLEAN /\ checked' \in BOOLEAN
    <3>1. (msec > 0) \in BOOLEAN
      OBVIOUS
    <3>2. QED BY <2>3, <3>1, Zenon
  <2>5. CASE msec > 0
    <3>1. period' = msec /\ target' = After(msec)
      BY <1>2, <2>5, Zenon DEF start_timeout
    <3>2. /\ (ticks \in 0 .. Modulus - 1)' /\ (target \in 0 .. Modulus - 1)'
          /\ (period \in Nat)' /\ (clock \in Nat)' /\ (stroked \in 0 .. clock)'
      BY <1>1, <2>1, <2>2, <2>3, <3>1
    <3>3. TypeOK'
      BY <2>4, <3>2, Zenon DEF TypeOK
    <3>4. ticks + period' < Modulus => target' = ticks + period'
      BY <2>2, <3>1
    <3>5. QED BY <2>3, <3>3, <3>4, Armed, Zenon
  <2>6. CASE ~(msec > 0)
    <3>1. period' = period /\ target' = target
      BY <1>2, <2>6, Zenon DEF start_timeout
    <3>2. /\ (ticks \in 0 .. Modulus - 1)' /\ (target \in 0 .. Modulus - 1)'
          /\ (period \in Nat)' /\ (clock \in Nat)' /\ (stroked \in 0 .. clock)'
      BY <1>1, <2>3, <3>1
    <3>3. TypeOK'
      BY <2>4, <3>2, Zenon DEF TypeOK
    <3>4. ~is_active'
      BY <2>3, <2>6, Zenon
    <3>5. QED BY <2>3, <3>3, <3>4, Armed, Zenon
  <2>7. QED BY <2>5, <2>6
<1>3. CASE stroke_timeout
  <2>1. ticks + period \in Nat
    BY <1>1
  <2>2. After(period) \in 0 .. Modulus - 1 /\ (ticks + period < Modulus => After(period) = ticks + period)
    BY <1>1, <2>1, ModBelow DEF After
  <2>3. /\ target' = After(period) /\ expired' = FALSE /\ checked' = FALSE /\ stroked' = clock
        /\ UNCHANGED <<ticks, is_active, period, clock>>
    BY <1>3 DEF stroke_timeout
  <2>4. /\ (ticks \in 0 .. Modulus - 1)' /\ (target \in 0 .. Modulus - 1)'
        /\ (period \in Nat)' /\ (clock \in Nat)' /\ (stroked \in 0 .. clock)'
    BY <1>1, <2>2, <2>3
  <2>5. TypeOK'
    BY <1>1, <2>3, <2>4, Zenon DEF TypeOK
  <2>6. ticks + period' < Modulus => target' = ticks + period'
    BY <2>2, <2>3
  <2>7. QED BY <2>3, <2>5, <2>6, Armed, Zenon
<1>4. CASE end_timeout
  <2>1. /\ is_active' = FALSE /\ expired' = FALSE /\ checked' = FALSE
        /\ UNCHANGED <<ticks, period, target, clock, stroked>>
    BY <1>4, Zenon DEF end_timeout
  <2>2. TypeOK'
    BY <1>1, <2>1 DEF TypeOK
  <2>3. PunctualUntilWrap'
    BY <2>1 DEF PunctualUntilWrap
  <2>4. (clock < Modulus => ticks = clock)'
    BY <2>1 DEF WatchdogInv
  <2>5. QED BY <2>1, <2>2, <2>3, <2>4 DEF WatchdogInv
<1>5. CASE check_timeout
  <2> DEFINE now(step) == (ticks + step) % Modulus
  <2>1. PICK step \in 1 .. MaxStep :
          /\ clock' = clock + step /\ ticks' = now(step)
          /\ expired' = TimedOut(now(step)) /\ checked' = TRUE
          /\ is_active' = (is_active /\ ~TimedOut(now(step)))
          /\ UNCHANGED <<period, target, stroked>>
    <3>1. /\ expired' = TimedOut(ticks') /\ checked' = TRUE
          /\ is_active' = (is_active /\ ~TimedOut(ticks'))
          /\ UNCHANGED <<period, target, stroked>>
      BY <1>5, Zenon DEF check_timeout
    <3>2. PICK step \in 1 .. MaxStep : clock' = clock + step /\ ticks' = now(step)
      BY <1>5 DEF check_timeout, store_ticks
    <3>3. QED BY <3>1, <3>2, Zenon
  <2>2. step \in Nat \ {0} /\ ticks + step \in Nat
    BY <1>1, <2>1
  <2>3. now(step) \in 0 .. Modulus - 1 /\ (ticks + step < Modulus => now(step) = ticks + step)
    BY <1>1, <2>2, ModBelow
  <2>4. clock' < Modulus => ticks' = clock'
    BY <1>1, <2>1, <2>2, <2>3 DEF WatchdogInv
  <2>5. TypeOK'
    <3>1. is_active' \in BOOLEAN /\ expired' \in BOOLEAN /\ checked' \in BOOLEAN
      BY <2>1, Zenon DEF TimedOut
    <3>2. /\ (ticks \in 0 .. Modulus - 1)' /\ (target \in 0 .. Modulus - 1)'
          /\ (period \in Nat)' /\ (clock \in Nat)' /\ (stroked \in 0 .. clock)'
      BY <1>1, <2>1, <2>2, <2>3
    <3>3. QED BY <3>1, <3>2, Zenon DEF TypeOK
  <2>6. is_active /\ clock' < Modulus /\ stroked + period < Modulus =>
          (TimedOut(now(step)) <=> clock' - stroked > period)
    BY <1>1, <2>1, <2>2, <2>4 DEF WatchdogInv, TimedOut
  <2>7. PunctualUntilWrap'
    <3>1. /\ expired' => is_active /\ TimedOut(now(step))
          /\ is_active' => is_active /\ ~TimedOut(now(step))
      BY <2>1, Zenon DEF TimedOut
    <3>2. SUFFICES ASSUME clock' < Modulus, stroked' + period' < Modulus
                   PROVE  /\ expired' => clock' - stroked' > period'
                          /\ checked' /\ is_active' => clock' - stroked' <= period'
      BY DEF PunctualUntilWrap
    <3>3. stroked' = stroked /\ period' = period
      BY <2>1
    <3>4. is_active => (TimedOut(now(step)) <=> clock' - stroked' > period')
      BY <2>6, <3>2, <3>3
    <3>5. ASSUME is_active' PROVE clock' - stroked' <= period'
      <4>1. ~(clock' - stroked' > period')
        BY <3>1, <3>4, <3>5, Zenon
      <4>2. QED BY <1>1, <2>1, <2>2, <4>1
    <3>6. QED BY <3>1, <3>4, <3>5, Zenon
  <2>8. (is_active /\ clock < Modulus /\ stroked + period < Modulus => target = stroked + period)'
    BY <1>1, <2>1, <2>2 DEF WatchdogInv
  <2>9. QED BY <2>4, <2>5, <2>7, <2>8 DEF WatchdogInv
<1>6. CASE process_unconnected
  <2>1. /\ expired' = FALSE /\ checked' = FALSE
        /\ UNCHANGED <<is_active, period, target, stroked>>
    BY <1>6, Zenon DEF process_unconnected, watchdogVars
  <2>2. PICK step \in 1 .. MaxStep : clock' = clock + step /\ ticks' = (ticks + step) % Modulus
    BY <1>6 DEF process_unconnected, store_ticks
  <2>3. step \in Nat \ {0} /\ ticks + step \in Nat
    BY <1>1, <2>2
  <2>4. /\ (ticks + step) % Modulus \in 0 .. Modulus - 1
        /\ ticks + step < Modulus => (ticks + step) % Modulus = ticks + step
    BY <1>1, <2>3, ModBelow
  <2>5. clock' < Modulus => ticks' = clock'
    BY <1>1, <2>2, <2>3, <2>4 DEF WatchdogInv
  <2>6. TypeOK'
    <3>1. /\ (ticks \in 0 .. Modulus - 1)' /\ (target \in 0 .. Modulus - 1)'
          /\ (period \in Nat)' /\ (clock \in Nat)' /\ (stroked \in 0 .. clock)'
      BY <1>1, <2>1, <2>2, <2>3, <2>4
    <3>2. is_active' \in BOOLEAN /\ expired' \in BOOLEAN /\ checked' \in BOOLEAN
      BY <1>1, <2>1, Zenon
    <3>3. QED BY <3>1, <3>2, Zenon DEF TypeOK
  <2>7. PunctualUntilWrap'
    BY <2>1 DEF PunctualUntilWrap
  <2>8. (is_active /\ clock < Modulus /\ stroked + period < Modulus => target = stroked + period)'
    BY <1>1, <2>1, <2>2, <2>3 DEF WatchdogInv
  <2>9. QED BY <2>5, <2>6, <2>7, <2>8 DEF WatchdogInv
<1>7. CASE UNCHANGED vars
  <2>1. UNCHANGED <<ticks, clock, is_active, period, target, stroked, expired, checked>>
    BY <1>7, Zenon DEF vars, watchdogVars
  <2>2. QED BY <2>1 DEF WatchdogInv, TypeOK, PunctualUntilWrap
<1>8. QED BY <1>2, <1>3, <1>4, <1>5, <1>6, <1>7 DEF Next

(* The watchdog keeps its types, whatever the transfers' timeouts and the   *)
(* pace of the calls.                                                      *)
THEOREM WatchdogTypes == Spec => []TypeOK
<1>1. WatchdogInv => TypeOK
  BY DEF WatchdogInv
<1>2. QED BY <1>1, InitWatchdog, StepWatchdog, PTL DEF Spec

(* pvtCr_watchdog_check_timeout reports a timeout at the first call past    *)
(* the period since the last packet and never before, until ticks or the   *)
(* target wraps.                                                           *)
THEOREM Punctual == Spec => []PunctualUntilWrap
<1>1. WatchdogInv => PunctualUntilWrap
  BY DEF WatchdogInv
<1>2. QED BY <1>1, InitWatchdog, StepWatchdog, PTL DEF Spec

-----------------------------------------------------------------------------
(* The watchdog at the calls that check the notifications.                  *)

(* The timers do to the watchdog's variables what the watchdog does alone.  *)
THEOREM TimersKeepWatchdog == TimersSpec => Spec
<1>1. TimersInit => Init
  BY DEF TimersInit
<1>2. [TimersNext]_timerVars => [Next]_vars
  <2> SUFFICES ASSUME [TimersNext]_timerVars PROVE Next \/ UNCHANGED vars
    OBVIOUS
  <2>1. ASSUME NEW config \in Configs, enable_notify(config) PROVE UNCHANGED vars
    BY <2>1 DEF enable_notify
  <2>2. ASSUME NEW s \in Slots, disable_notify(s) PROVE UNCHANGED vars
    BY <2>2 DEF disable_notify
  <2>3. CASE link_up \/ link_down \/ cr_init_param_notifications \/ write_parameter
    BY <2>3 DEF link_up, link_down, cr_init_param_notifications, write_parameter
  <2>4. CASE process_notifications \/ process_something_else
    BY <2>4 DEF process_notifications, process_something_else, Next
  <2>5. CASE process_link_down
    BY <2>5 DEF process_link_down, Next
  <2>6. CASE transfer_file
    BY <2>6 DEF transfer_file, Next
  <2>7. CASE UNCHANGED timerVars
    BY <2>7 DEF timerVars
  <2>8. QED BY <2>1, <2>2, <2>3, <2>4, <2>5, <2>6, <2>7 DEF TimersNext
<1>3. QED BY <1>1, <1>2, PTL DEF TimersSpec, Spec

(* A transfer times out at the first call past its timeout and never        *)
(* before, also where the same calls check the notifications and links      *)
(* come and go (PunctualUntilWrap of the timers' run).                      *)
THEOREM TimersPunctual == TimersSpec => []PunctualUntilWrap
BY TimersKeepWatchdog, Punctual, PTL

-----------------------------------------------------------------------------
(* Arithmetic modulo m.                                                    *)

LEMMA DivMod ==
  ASSUME NEW a \in Int, NEW m \in Int, m > 0
  PROVE  /\ (a \div m) \in Int /\ (a % m) \in 0 .. m - 1
         /\ a = m * (a \div m) + (a % m)
<1>1. (a \div m) \in Int
  OBVIOUS
<1>2. (a % m) \in 0 .. m - 1
  OBVIOUS
<1>3. a = m * (a \div m) + (a % m)
  BY SMT
<1>4. QED BY <1>1, <1>2, <1>3

LEMMA Distribute ==
  ASSUME NEW m \in Int, NEW x \in Int, NEW y \in Int
  PROVE  /\ m * (x + y) = m * x + m * y
         /\ m * (x - y) = m * x - m * y
         /\ m * x \in Int /\ m * y \in Int
  OBVIOUS

LEMMA MultipleAtLeast ==
  ASSUME NEW m \in Int, m > 0, NEW k \in Int, k >= 1
  PROVE  m * k \in Int /\ m * k >= m
<1>1. m * (k - 1) >= 0 /\ m * (k - 1) \in Int
  OBVIOUS
<1>2. m * k = m * (k - 1) + m
  OBVIOUS
<1>3. QED BY <1>1, <1>2

(* Numbers that differ by a multiple of m have one remainder.               *)
LEMMA OneRemainder ==
  ASSUME NEW m \in Int, m > 0, NEW q \in Int, NEW p \in Int,
         NEW r \in 0 .. m - 1, NEW s \in 0 .. m - 1, m * q + r = m * p + s
  PROVE  r = s
<1> DEFINE k == q - p
<1>1. m * k = s - r /\ k \in Int
  BY Distribute
<1>2. CASE k >= 1
  <2>1. m * k >= m
    BY <1>1, <1>2, MultipleAtLeast
  <2>2. QED BY <1>1, <2>1
<1>3. CASE -k >= 1
  <2>1. -k \in Int
    BY <1>1
  <2>2. m * (-k) >= m
    BY <1>3, <2>1, MultipleAtLeast
  <2>3. m * (-k) = r - s
    OBVIOUS
  <2>4. QED BY <2>2, <2>3
<1>4. CASE k = 0
  BY <1>1, <1>4
<1>5. QED BY <1>1, <1>2, <1>3, <1>4

LEMMA Congruent ==
  ASSUME NEW m \in Int, m > 0, NEW c \in Int, NEW d \in Int, NEW k \in Int, d = m * k + c
  PROVE  c % m = d % m
<1> DEFINE x == c \div m
           y == d \div m
           r == c % m
           s == d % m
<1>1. c = m * x + r /\ x \in Int /\ r \in 0 .. m - 1
  BY DivMod
<1>2. d = m * y + s /\ y \in Int /\ s \in 0 .. m - 1
  BY DivMod
<1> HIDE DEF x, y, r, s
<1>3. m * (k + x) = m * k + m * x /\ k + x \in Int /\ m * x \in Int /\ m * k \in Int
  BY <1>1, Distribute
<1>4. m * (k + x) + r = m * y + s
  BY <1>1, <1>2, <1>3
<1>5. r = s
  BY <1>1, <1>2, <1>3, <1>4, OneRemainder
<1>6. QED BY <1>5 DEF r, s

(* Time goes on: the remainder of a sum is that of the remainder.           *)
LEMMA ModSum ==
  ASSUME NEW a \in Nat, NEW b \in Nat, NEW m \in Int, m > 0
  PROVE  ((a % m) + b) % m = (a + b) % m
<1> DEFINE r == a % m
           k == a \div m
           n == m * k
           c == r + b
           d == a + b
<1>1. a = n + r /\ k \in Int /\ r \in 0 .. m - 1
  BY DivMod
<1>2. n \in Int
  BY <1>1, Distribute
<1> HIDE DEF r, k, n
<1>3. c \in Int /\ d \in Int /\ d = n + c
  BY <1>1, <1>2
<1> HIDE DEF c, d
<1>4. c % m = d % m
  BY <1>1, <1>3, Congruent DEF n
<1>5. QED BY <1>4 DEF r, c, d

(* The time that seems to have gone by is no more than what has.            *)
LEMMA ModElapsed ==
  ASSUME NEW a \in Nat, NEW c \in Nat, a <= c, NEW m \in Int, m > 0
  PROVE  /\ ((c % m) - (a % m)) % m \in 0 .. m - 1
         /\ ((c % m) - (a % m)) % m <= c - a
<1> DEFINE r == a % m
           k == a \div m
           s == c % m
           l == c \div m
           d == c - a
<1>1. a = m * k + r /\ k \in Int /\ r \in 0 .. m - 1
  BY DivMod
<1>2. c = m * l + s /\ l \in Int /\ s \in 0 .. m - 1
  BY DivMod
<1>3. d \in Int /\ d >= 0 /\ d = c - a
  OBVIOUS
<1> HIDE DEF r, k, s, l, d
<1>4. m * (l - k) = m * l - m * k /\ l - k \in Int /\ m * l \in Int /\ m * k \in Int
  BY <1>1, <1>2, Distribute
<1>5. d = m * (l - k) + (s - r) /\ s - r \in Int
  BY <1>1, <1>2, <1>3, <1>4
<1>6. (s - r) % m = d % m
  BY <1>3, <1>4, <1>5, Congruent
<1>7. (d % m) \in 0 .. m - 1 /\ (d % m) <= d
  <2> DEFINE t == d % m
             n == d \div m
  <2>1. d = m * n + t /\ n \in Int /\ t \in 0 .. m - 1
    BY <1>3, DivMod
  <2> HIDE DEF t, n
  <2>2. CASE n >= 0
    <3>1. m * n >= 0 /\ m * n \in Int
      BY <2>1, <2>2
    <3>2. QED BY <1>3, <2>1, <3>1 DEF t
  <2>3. CASE -n >= 1
    <3>1. m * (-n) >= m /\ -n \in Int
      BY <2>1, <2>3, MultipleAtLeast
    <3>2. m * (-n) = -(m * n) /\ m * n \in Int
      BY <2>1
    <3>3. d < 0
      BY <2>1, <3>1, <3>2
    <3>4. QED BY <1>3, <3>3
  <2>4. \A i \in Int : i >= 0 \/ -i >= 1
    OBVIOUS
  <2>5. n >= 0 \/ -n >= 1
    BY <2>1, <2>4
  <2>6. QED BY <2>2, <2>3, <2>5, Zenon
<1>8. QED BY <1>3, <1>6, <1>7 DEF s, r, d

-----------------------------------------------------------------------------
(* The check itself.                                                       *)

(* There is a last slot of several.                                         *)
LEMMA GreatestIs ==
  ASSUME NEW S, S \subseteq Slots, S # {}
  PROVE  Greatest(S) \in S
<1> DEFINE N == NUM_SUPPORTED_PARAM_NOTIFY
           R == OpToRel(<, Nat)
           T == { N - s : s \in S }
<1>1. N \in Nat /\ \A s \in S : s \in 1 .. N
  BY CheckAssumption DEF Slots
<1>2. T \subseteq Nat /\ T # {}
  BY <1>1
<1>3. \A x, y \in Nat : x < y => <<x, y>> \in R
  BY DEF OpToRel
<1>4. PICK x \in T : \A y \in T : ~ (<<y, x>> \in R)
  <2>1. IsWellFoundedOn(R, Nat)
    BY NatLessThanWellFounded
  <2> HIDE DEF R, T
  <2>2. \E x \in T : \A y \in T : ~ (<<y, x>> \in R)
    BY <1>2, <2>1, WFMin
  <2>3. QED BY <2>2
<1> HIDE DEF R
<1>5. PICK s \in S : x = N - s
  OBVIOUS
<1>6. ASSUME NEW t \in S PROVE t <= s
  <2>1. N - t \in T /\ N - t \in Nat /\ N - s \in Nat
    BY <1>1
  <2>2. ~(N - t < N - s)
    BY <1>3, <1>4, <1>5, <2>1
  <2>3. QED BY <1>1, <2>2
<1>7. QED BY <1>6 DEF Greatest

(* What a check does to each slot, and to what the client was told of each  *)
(* parameter.                                                              *)
LEMMA CheckDoes ==
  ASSUME process_notifications
  PROVE  /\ notified' \subseteq Slots /\ noted' = TRUE
         /\ UNCHANGED <<connected, notify_list, current>>
         /\ forgotten' = forgotten \ notified'
         /\ \A s \in notified' :
              /\ sParamNotifyEnabled(s) /\ LongEnough(s, ticks')
              /\ last'[s] = [parameter_id |-> notify_list[s].parameter_id, value |-> Reading(s)]
              /\ timestamp'[s] = ticks'
         /\ \A s \in Slots \ notified' :
              /\ last'[s] = last[s] /\ timestamp'[s] = timestamp[s]
              /\ sParamNotifyEnabled(s) /\ LongEnough(s, ticks') =>
                   ~Overdue(s, ticks') /\ FALSE \in Verdicts(s)
         /\ \A p \in DOMAIN told :
              \/ /\ told'[p] = told[p]
                 /\ \A s \in notified' : notify_list[s].parameter_id # p
              \/ \E s \in notified' :
                   /\ notify_list[s].parameter_id = p
                   /\ told'[p] = [value |-> current[p], at |-> clock', by |-> s]
         /\ last' = [s \in Slots |-> last'[s]]
         /\ timestamp' = [s \in Slots |-> timestamp'[s]]
         /\ told' = [p \in DOMAIN told |-> told'[p]]
<1>1. pvtCrParam_check_for_notifications(ticks')
  BY DEF process_notifications
<1>2. PICK differs \in [Slots -> BOOLEAN] :
        LET asked   == { s \in Slots : sParamNotifyEnabled(s) /\ LongEnough(s, ticks') }
            due     == { s \in asked : Overdue(s, ticks') \/ differs[s] }
            Note(s) == [parameter_id |-> notify_list[s].parameter_id, value |-> Reading(s)]
        IN  /\ \A s \in Slots : differs[s] \in IF s \in asked THEN Verdicts(s) ELSE {FALSE}
            /\ notified' = due /\ noted' = TRUE
            /\ last' = [s \in Slots |-> IF s \in due THEN Note(s) ELSE last[s]]
            /\ timestamp' = [s \in Slots |-> IF s \in due THEN ticks' ELSE timestamp[s]]
            /\ told' = [p \in DOMAIN told |->
                          LET tellers == { s \in due : notify_list[s].parameter_id = p }
                          IN  IF tellers = {} THEN told[p]
                              ELSE [value |-> current[p], at |-> clock',
                                    by |-> Greatest(tellers)]]
            /\ forgotten' = forgotten \ due
            /\ UNCHANGED <<connected, notify_list, current>>
  BY <1>1 DEF pvtCrParam_check_for_notifications
<1> DEFINE asked == { s \in Slots : sParamNotifyEnabled(s) /\ LongEnough(s, ticks') }
           due   == { s \in asked : Overdue(s, ticks') \/ differs[s] }
           Note(s) == [parameter_id |-> notify_list[s].parameter_id, value |-> Reading(s)]
           tellers(p) == { s \in due : notify_list[s].parameter_id = p }
<1>3. /\ \A s \in Slots : differs[s] \in IF s \in asked THEN Verdicts(s) ELSE {FALSE}
      /\ notified' = due /\ noted' = TRUE
      /\ last' = [s \in Slots |-> IF s \in due THEN Note(s) ELSE last[s]]
      /\ timestamp' = [s \in Slots |-> IF s \in due THEN ticks' ELSE timestamp[s]]
      /\ told' = [p \in DOMAIN told |->
                    IF tellers(p) = {} THEN told[p]
                    ELSE [value |-> current[p], at |-> clock', by |-> Greatest(tellers(p))]]
      /\ forgotten' = forgotten \ due
      /\ UNCHANGED <<connected, notify_list, current>>
  BY <1>2, Zenon
<1>4. ASSUME NEW s \in notified'
      PROVE  /\ sParamNotifyEnabled(s) /\ LongEnough(s, ticks')
             /\ last'[s] = [parameter_id |-> notify_list[s].parameter_id, value |-> Reading(s)]
             /\ timestamp'[s] = ticks'
  BY <1>3, Zenon
<1>5. ASSUME NEW s \in Slots \ notified'
      PROVE  /\ last'[s] = last[s] /\ timestamp'[s] = timestamp[s]
             /\ sParamNotifyEnabled(s) /\ LongEnough(s, ticks') =>
                  ~Overdue(s, ticks') /\ FALSE \in Verdicts(s)
  <2>1. last'[s] = last[s] /\ timestamp'[s] = timestamp[s]
    BY <1>3, Zenon
  <2>2. ASSUME sParamNotifyEnabled(s), LongEnough(s, ticks')
        PROVE  ~Overdue(s, ticks') /\ FALSE \in Verdicts(s)
    <3>1. s \in asked
      BY <2>2, Zenon
    <3>2. ~Overdue(s, ticks') /\ ~differs[s]
      BY <1>3, <3>1, Zenon
    <3>3. differs[s] \in Verdicts(s)
      BY <1>3, <3>1, Zenon
    <3>4. differs[s] = FALSE
      BY <3>2, Zenon
    <3>5. QED BY <3>2, <3>3, <3>4, Zenon
  <2>3. QED BY <2>1, <2>2, Zenon
<1>6. notified' \subseteq Slots
  BY <1>3
<1>7. ASSUME NEW p \in DOMAIN told
      PROVE  \/ /\ told'[p] = told[p]
                /\ \A s \in notified' : notify_list[s].parameter_id # p
             \/ \E s \in notified' :
                  /\ notify_list[s].parameter_id = p
                  /\ told'[p] = [value |-> current[p], at |-> clock', by |-> s]
  <2>1. CASE tellers(p) = {}
    <3>1. told'[p] = told[p]
      BY <1>3, <2>1, Zenon
    <3>2. ASSUME NEW s \in notified', notify_list[s].parameter_id = p PROVE FALSE
      BY <1>3, <2>1, <3>2, Zenon
    <3>3. QED BY <3>1, <3>2, Zenon
  <2>2. CASE tellers(p) # {}
    <3>1. tellers(p) \subseteq Slots
      BY <1>3, <1>6
    <3>2. Greatest(tellers(p)) \in tellers(p)
      <4> HIDE DEF tellers
      <4>1. QED BY <2>2, <3>1, GreatestIs
    <3>3. /\ Greatest(tellers(p)) \in notified'
          /\ notify_list[Greatest(tellers(p))].parameter_id = p
      BY <1>3, <3>2, Zenon
    <3>4. told'[p] = [value |-> current[p], at |-> clock', by |-> Greatest(tellers(p))]
      BY <1>3, <2>2, Zenon
    <3> HIDE DEF tellers
    <3>5. QED BY <3>3, <3>4, Zenon
  <2>3. QED BY <2>1, <2>2
<1>8. last' = [s \in Slots |-> last'[s]] /\ timestamp' = [s \in Slots |-> timestamp'[s]]
  BY <1>3
<1>9. told' = [p \in DOMAIN told |-> told'[p]]
  BY <1>3
<1>10. /\ noted' = TRUE /\ UNCHANGED <<connected, notify_list, current>>
       /\ forgotten' = forgotten \ notified'
  BY <1>3
<1> HIDE DEF asked, due, Note, tellers
<1>11. QED BY <1>4, <1>5, <1>6, <1>7, <1>8, <1>9, <1>10, Zenon

-----------------------------------------------------------------------------
(* The invariant: ticks is the time, modulo the width of ticks, and the      *)
(* timestamp of the slot that told of a parameter last is that time or a    *)
(* later one, of which it told another parameter, unless a preset has       *)
(* overwritten it.                                                         *)

ToldTimes ==
  \A p \in DOMAIN told :
    /\ told[p].at \in Nat /\ told[p].at <= clock
    /\ \A s \in Slots :
         told[p].by = s /\ s \notin forgotten =>
           \E t \in told[p].at .. clock : timestamp[s] = t % Modulus

TimeInv ==
  /\ clock \in Nat
  /\ ticks = clock % Modulus
  /\ notify_list \in [Slots -> Config \cup {Off}]
  /\ DOMAIN told = Params \ Unreadable
  /\ ToldTimes

LEMMA ModulusType == Modulus \in Int /\ Modulus > 0
  BY WatchdogAssumption

LEMMA TimeInitially == TimersInit => TimeInv
<1> SUFFICES ASSUME TimersInit PROVE TimeInv
  OBVIOUS
<1>1. 0 % Modulus = 0
  BY WatchdogAssumption
<1>2. clock = 0 /\ ticks = 0
  BY DEF TimersInit, Init
<1>3. /\ DOMAIN told = Params \ Unreadable
      /\ \A p \in DOMAIN told : told[p].at = 0 /\ told[p].by = 0
  BY DEF TimersInit, NotTold
<1>4. notify_list \in [Slots -> Config \cup {Off}]
  BY DEF TimersInit
<1>5. 0 \notin Slots
  BY CheckAssumption DEF Slots
<1>6. QED BY <1>1, <1>2, <1>3, <1>4, <1>5 DEF TimeInv, ToldTimes

(* A call of cr_process: time goes on, in ticks too.                        *)
LEMMA TimeGoesOn ==
  ASSUME TimeInv, store_ticks
  PROVE  clock' \in Nat /\ clock' >= clock /\ ticks' = clock' % Modulus
<1>1. PICK step \in 1 .. MaxStep : clock' = clock + step /\ ticks' = (ticks + step) % Modulus
  BY DEF store_ticks
<1>2. step \in Nat /\ clock \in Nat
  BY <1>1, WatchdogAssumption DEF TimeInv
<1>3. ((clock % Modulus) + step) % Modulus = (clock + step) % Modulus
  BY <1>2, ModulusType, ModSum
<1>4. ticks = clock % Modulus
  BY DEF TimeInv
<1>5. QED BY <1>1, <1>2, <1>3, <1>4

(* The steps that leave what was told, at a call or between two.            *)
LEMMA SameTold ==
  ASSUME TimeInv, UNCHANGED told, UNCHANGED <<ticks, clock>> \/ store_ticks,
         notify_list' \in [Slots -> Config \cup {Off}],
         forgotten \subseteq forgotten',
         \A s \in Slots \ forgotten' : timestamp'[s] = timestamp[s]
  PROVE  TimeInv'
<1>1. clock \in Nat /\ clock' \in Nat /\ clock' >= clock /\ ticks' = clock' % Modulus
  <2>1. CASE UNCHANGED <<ticks, clock>>
    BY <2>1 DEF TimeInv
  <2>2. CASE store_ticks
    BY <2>2, TimeGoesOn DEF TimeInv
  <2>3. QED BY <2>1, <2>2
<1>2. ASSUME NEW p \in DOMAIN told
      PROVE  /\ told[p].at \in Nat /\ told[p].at <= clock'
             /\ \A s \in Slots :
                  told[p].by = s /\ s \notin forgotten' =>
                    \E t \in told[p].at .. clock' : timestamp'[s] = t % Modulus
  <2>1. told[p].at \in Nat /\ told[p].at <= clock
    BY DEF TimeInv, ToldTimes
  <2>2. ASSUME NEW s \in Slots, told[p].by = s, s \notin forgotten'
        PROVE  \E t \in told[p].at .. clock' : timestamp'[s] = t % Modulus
    <3>1. PICK t \in told[p].at .. clock : timestamp[s] = t % Modulus
      BY <2>2 DEF TimeInv, ToldTimes
    <3>2. t \in told[p].at .. clock'
      BY <1>1, <2>1, <3>1
    <3>3. timestamp'[s] = t % Modulus
      BY <2>2, <3>1
    <3>4. QED BY <3>2, <3>3
  <2>3. QED BY <1>1, <2>1, <2>2
<1>3. ToldTimes'
  BY <1>2 DEF ToldTimes
<1>4. QED BY <1>1, <1>3 DEF TimeInv

LEMMA Preset0 ==
  ASSUME TimeInv, cr_init_param_notifications PROVE TimeInv'
<1>1. /\ DOMAIN Preset = 1 .. Len(Preset) /\ Len(Preset) \in Nat
      /\ \A s \in DOMAIN Preset : Preset[s] \in Config
  BY CheckAssumption
<1>2. /\ notify_list' = [s \in Slots |-> IF s <= Len(Preset) THEN Preset[s] ELSE notify_list[s]]
      /\ timestamp' = [s \in Slots |-> IF s <= Len(Preset)
                         THEN [t \in DOMAIN Preset |-> 0][s] ELSE timestamp[s]]
      /\ forgotten' = forgotten \cup DOMAIN Preset
      /\ UNCHANGED <<ticks, clock, told>>
  BY DEF cr_init_param_notifications, vars
<1>3. \A s \in Slots : s <= Len(Preset) => s \in DOMAIN Preset
  BY <1>1, CheckAssumption DEF Slots
<1>4. notify_list' \in [Slots -> Config \cup {Off}]
  BY <1>1, <1>2, <1>3 DEF TimeInv
<1>5. \A s \in Slots \ forgotten' : timestamp'[s] = timestamp[s]
  BY <1>2, <1>3
<1>6. QED BY <1>2, <1>4, <1>5, SameTold

LEMMA LinkUp == ASSUME TimeInv, link_up PROVE TimeInv'
<1>1. /\ notify_list' = [s \in Slots |-> Off]
      /\ DOMAIN told' = DOMAIN told
      /\ \A p \in DOMAIN told' : told'[p].at = 0 /\ told'[p].by = 0
      /\ UNCHANGED <<ticks, clock>>
  BY DEF link_up, cr_clear_param_notifications, vars, NotTold
<1>2. notify_list' \in [Slots -> Config \cup {Off}]
  BY <1>1
<1>3. 0 \notin Slots
  BY CheckAssumption DEF Slots
<1>4. ToldTimes'
  BY <1>1, <1>3 DEF ToldTimes, TimeInv
<1>5. QED BY <1>1, <1>2, <1>4 DEF TimeInv

LEMMA Checked ==
  ASSUME TimeInv, process_notifications
  PROVE  /\ TimeInv'
         /\ \A s \in notified' :
              Timed(s) =>
                clock' - told[notify_list[s].parameter_id].at >= notify_list[s].minimum_period
<1>1. clock \in Nat /\ clock' \in Nat /\ clock' >= clock /\ ticks' = clock' % Modulus
  BY TimeGoesOn DEF TimeInv, process_notifications, check_timeout
<1>2. /\ notified' \subseteq Slots /\ UNCHANGED <<notify_list, current>>
      /\ forgotten' = forgotten \ notified'
      /\ DOMAIN told' = DOMAIN told
      /\ \A s \in notified' :
           sParamNotifyEnabled(s) /\ LongEnough(s, ticks') /\ timestamp'[s] = ticks'
      /\ \A s \in Slots \ notified' : timestamp'[s] = timestamp[s]
      /\ \A p \in DOMAIN told :
           \/ told'[p] = told[p]
           \/ \E s \in notified' : told'[p] = [value |-> current[p], at |-> clock', by |-> s]
  BY CheckDoes
<1>3. ASSUME NEW p \in DOMAIN told
      PROVE  /\ told'[p].at \in Nat /\ told'[p].at <= clock'
             /\ \A s \in Slots :
                  told'[p].by = s /\ s \notin forgotten' =>
                    \E t \in told'[p].at .. clock' : timestamp'[s] = t % Modulus
  <2>1. told[p].at \in Nat /\ told[p].at <= clock
    BY DEF TimeInv, ToldTimes
  <2>2. told'[p].at \in Nat /\ told'[p].at <= clock'
    BY <1>1, <1>2, <2>1
  <2>3. ASSUME NEW s \in Slots, told'[p].by = s, s \notin forgotten'
        PROVE  \E t \in told'[p].at .. clock' : timestamp'[s] = t % Modulus
    <3>1. CASE s \in notified'
      <4>1. clock' \in told'[p].at .. clock'
        BY <1>1, <2>2
      <4>2. timestamp'[s] = clock' % Modulus
        BY <1>1, <1>2, <3>1
      <4>3. QED BY <4>1, <4>2
    <3>2. CASE s \notin notified'
      <4>1. told'[p] = told[p]
        BY <1>2, <2>3, <3>2
      <4>2. s \notin forgotten
        BY <1>2, <2>3, <3>2
      <4>3. PICK t \in told[p].at .. clock : timestamp[s] = t % Modulus
        BY <2>3, <4>1, <4>2 DEF TimeInv, ToldTimes
      <4>4. t \in told'[p].at .. clock'
        BY <1>1, <2>1, <4>1, <4>3
      <4>5. timestamp'[s] = t % Modulus
        BY <1>2, <3>2, <4>3
      <4>6. QED BY <4>4, <4>5
    <3>3. QED BY <3>1, <3>2
  <2>4. QED BY <2>2, <2>3
<1>4. TimeInv'
  <2>1. ToldTimes'
    BY <1>2, <1>3 DEF ToldTimes
  <2>2. QED BY <1>1, <1>2, <2>1 DEF TimeInv
<1>5. ASSUME NEW s \in notified', Timed(s)
      PROVE  clock' - told[notify_list[s].parameter_id].at >= notify_list[s].minimum_period
  <2>1. s \in Slots /\ notify_list[s] # Off
    BY <1>2 DEF sParamNotifyEnabled
  <2>2. PICK p \in DOMAIN told :
          p = notify_list[s].parameter_id /\ told[p].by = s /\ s \notin forgotten
    BY <1>5 DEF Timed
  <2>3. told[p].at \in Nat /\ told[p].at <= clock
    BY DEF TimeInv, ToldTimes
  <2>4. PICK t \in told[p].at .. clock : timestamp[s] = t % Modulus
    BY <2>1, <2>2 DEF TimeInv, ToldTimes
  <2>5. t \in Nat /\ told[p].at <= t /\ t <= clock'
    BY <1>1, <2>3, <2>4
  <2>6. /\ ((clock' % Modulus) - (t % Modulus)) % Modulus \in 0 .. Modulus - 1
        /\ ((clock' % Modulus) - (t % Modulus)) % Modulus <= clock' - t
    BY <1>1, <2>5, ModulusType, ModElapsed
  <2> DEFINE elapsed == (ticks' - timestamp[s]) % Modulus
  <2>7. elapsed \in Int /\ elapsed <= clock' - t
    BY <1>1, <2>4, <2>6, ModulusType
  <2>8. notify_list[s].minimum_period \in Int
    <3>1. notify_list[s] \in Config
      BY <2>1 DEF TimeInv
    <3>2. QED BY <3>1, ModulusType DEF Config
  <2>9. elapsed >= notify_list[s].minimum_period
    BY <1>2 DEF LongEnough, Elapsed
  <2> HIDE DEF elapsed
  <2>10. PICK a \in Nat, c \in Nat, least \in Int :
           a = told[p].at /\ c = clock' /\ least = notify_list[s].minimum_period
    BY <1>1, <2>3, <2>8
  <2>11. elapsed >= least /\ elapsed <= c - t /\ a <= t
    BY <2>5, <2>7, <2>9, <2>10
  <2>12. c - a >= least
    BY <2>5, <2>7, <2>11
  <2>13. QED BY <2>2, <2>10, <2>12
<1>6. QED BY <1>4, <1>5

LEMMA TimeStep == TimeInv /\ [TimersNext]_timerVars => TimeInv'
<1> SUFFICES ASSUME TimeInv, [TimersNext]_timerVars PROVE TimeInv'
  OBVIOUS
<1>0. notify_list \in [Slots -> Config \cup {Off}]
  BY DEF TimeInv
<1>1. ASSUME NEW config \in Configs, enable_notify(config) PROVE TimeInv'
  <2>1. PICK s \in Place(config.parameter_id) :
          notify_list' = [notify_list EXCEPT ![s] = config]
    BY <1>1 DEF enable_notify
  <2>2. config \in Config
    BY CheckAssumption
  <2>3. notify_list' \in [Slots -> Config \cup {Off}]
    BY <2>1, <2>2 DEF TimeInv
  <2>4. QED BY <1>1, <2>3, SameTold DEF enable_notify, vars
<1>2. ASSUME NEW s \in Slots, disable_notify(s) PROVE TimeInv'
  <2>1. notify_list' = [notify_list EXCEPT ![s] = Off]
    BY <1>2 DEF disable_notify
  <2>2. notify_list' \in [Slots -> Config \cup {Off}]
    BY <2>1 DEF TimeInv
  <2>3. QED BY <1>2, <2>2, SameTold DEF disable_notify, vars
<1>3. CASE link_up
  BY <1>3, LinkUp
<1>4. CASE link_down
  BY <1>4, <1>0, SameTold DEF link_down, vars
<1>5. CASE cr_init_param_notifications
  BY <1>5, Preset0
<1>6. CASE process_notifications
  BY <1>6, Checked
<1>7. CASE process_something_else
  BY <1>7, <1>0, SameTold DEF process_something_else, check_timeout, checkVars
<1>8. CASE process_link_down
  BY <1>8, <1>0, SameTold DEF process_link_down, process_unconnected, checkVars
<1>9. CASE write_parameter
  BY <1>9, <1>0, SameTold DEF write_parameter, vars
<1>10. CASE transfer_file
  BY <1>10, <1>0, SameTold
     DEF transfer_file, start_timeout, stroke_timeout, end_timeout, checkVars
<1>11. CASE UNCHANGED timerVars
  BY <1>11, <1>0, SameTold DEF timerVars, vars, checkVars
<1>12. QED
  BY <1>1, <1>2, <1>3, <1>4, <1>5, <1>6, <1>7, <1>8, <1>9, <1>10, <1>11 DEF TimersNext

LEMMA TimeAlways == TimersSpec => []TimeInv
<1>1. QED BY TimeInitially, TimeStep, PTL DEF TimersSpec

(* Only a check notifies.                                                   *)
LEMMA OnlyChecksNotify ==
  ASSUME TimersNext, ~process_notifications PROVE notified' = {}
BY DEF TimersNext, enable_notify, disable_notify, link_up, link_down,
       cr_init_param_notifications, process_something_else, process_link_down,
       write_parameter, transfer_file, NoCheck

(* A client is not told of a parameter again by the slot that told of it    *)
(* last before its minimum period is over, whatever that slot was used for  *)
(* in between and however often ticks has gone round, if no preset has      *)
(* overwritten its timestamp (MinimumPeriodKept).                           *)
THEOREM MinimumPeriods == TimersSpec => MinimumPeriodKept
<1> DEFINE Kept ==
      \A s \in notified' :
        LET p == notify_list[s].parameter_id
        IN  Timed(s) => clock' - told[p].at >= notify_list[s].minimum_period
<1>1. TimeInv /\ [TimersNext]_timerVars => [Kept]_timerVars
  <2> SUFFICES ASSUME TimeInv, TimersNext PROVE Kept
    OBVIOUS
  <2>1. CASE process_notifications
    BY <2>1, Checked
  <2>2. CASE ~process_notifications
    BY <2>2, OnlyChecksNotify
  <2>3. QED BY <2>1, <2>2
<1>2. QED BY <1>1, TimeAlways, PTL DEF TimersSpec, MinimumPeriodKept

-----------------------------------------------------------------------------
(* Types, and what a slot remembers of its parameter: what the client was   *)
(* told last, and when.                                                    *)

Remembered == [parameter_id: Params \cup {0}, value: AnyValue \cup {Zero}]

Told == [value: AnyValue \cup {Zero}, at: Nat, by: Slots \cup {0}]

CurrentOK ==
  /\ DOMAIN current = Params \ Unreadable
  /\ \A p \in DOMAIN current : current[p] \in Value(p)

SlotsOK ==
  /\ notify_list \in [Slots -> Config \cup {Off}]
  /\ last \in [Slots -> Remembered]
  /\ timestamp \in [Slots -> 0 .. Modulus - 1]
  /\ told \in [Params \ Unreadable -> Told]
  /\ forgotten \subseteq Slots

CheckTypes ==
  /\ connected \in BOOLEAN
  /\ SlotsOK
  /\ CurrentOK
  /\ notified \subseteq Slots
  /\ noted \in BOOLEAN

(* The comparison with the value of a slot is the one with what its client  *)
(* was told, although they are kept apart, and so is that of the times.     *)
LastIsTold ==
  \A p \in DOMAIN told : \A s \in Slots :
    told[p].by = s /\ s \notin forgotten /\ last[s].parameter_id = p =>
      last[s].value = told[p].value /\ timestamp[s] = told[p].at % Modulus

TimersInv == TypeOK /\ TimeInv /\ CheckTypes /\ LastIsTold

LEMMA ZeroIsValue == \A p \in Params : Zero \in Value(p)
<1>1. 0 \in Words /\ 0 \in Bytes
  BY CheckAssumption
<1>2. QED BY <1>1 DEF Zero, Value

LEMMA NoneTold == NoValue \in Remembered /\ NotTold \in Told /\ 0 \in 0 .. Modulus - 1
  BY WatchdogAssumption DEF NoValue, NotTold, Remembered, Told

LEMMA TimersInitially == TimersInit => TimersInv
<1> SUFFICES ASSUME TimersInit PROVE TimersInv
  OBVIOUS
<1>1. TypeOK /\ TimeInv
  BY InitWatchdog, TimeInitially DEF TimersInit, WatchdogInv
<1>2. SlotsOK
  BY NoneTold DEF TimersInit, SlotsOK
<1>3. CurrentOK
  BY ZeroIsValue DEF TimersInit, CurrentOK
<1>4. LastIsTold
  BY CheckAssumption DEF TimersInit, LastIsTold, NotTold, Slots
<1>5. CheckTypes
  BY <1>2, <1>3 DEF TimersInit, CheckTypes
<1>6. QED BY <1>1, <1>4, <1>5 DEF TimersInv

(* A step that is no check and leaves what the slots remember.              *)
LEMMA Remembers ==
  ASSUME TimersInv, NoCheck, UNCHANGED <<last, timestamp, told, forgotten>>,
         connected' \in BOOLEAN, notify_list' \in [Slots -> Config \cup {Off}], CurrentOK'
  PROVE  CheckTypes' /\ LastIsTold'
<1>1. SlotsOK'
  BY DEF TimersInv, CheckTypes, SlotsOK
<1>2. CheckTypes'
  BY <1>1 DEF CheckTypes, NoCheck
<1>3. LastIsTold'
  BY DEF TimersInv, LastIsTold
<1>4. QED BY <1>2, <1>3

LEMMA LinkUpTypes ==
  ASSUME TimersInv, link_up
  PROVE  CheckTypes' /\ LastIsTold'
<1>1. /\ connected' = TRUE /\ notify_list' = [s \in Slots |-> Off]
      /\ last' = [s \in Slots |-> NoValue] /\ timestamp' = [s \in Slots |-> 0]
      /\ told' = [p \in DOMAIN told |-> NotTold] /\ forgotten' = {}
      /\ NoCheck /\ current' = current
  BY DEF link_up, cr_clear_param_notifications
<1>2. SlotsOK'
  <2>1. DOMAIN told = Params \ Unreadable
    BY DEF TimersInv, TimeInv
  <2>2. QED BY <1>1, <2>1, NoneTold DEF SlotsOK
<1>3. CheckTypes'
  BY <1>1, <1>2 DEF CheckTypes, CurrentOK, NoCheck, TimersInv
<1>4. LastIsTold'
  BY <1>1, CheckAssumption DEF LastIsTold, NotTold, Slots
<1>5. QED BY <1>3, <1>4

LEMMA PresetTypes ==
  ASSUME TimersInv, cr_init_param_notifications
  PROVE  CheckTypes' /\ LastIsTold'
<1>1. /\ DOMAIN Preset = 1 .. Len(Preset) /\ Len(Preset) \in Nat
      /\ \A s \in DOMAIN Preset : Preset[s] \in Config
  BY CheckAssumption
<1>2. /\ notify_list' = [s \in Slots |-> IF s <= Len(Preset) THEN Preset[s] ELSE notify_list[s]]
      /\ last' = [s \in Slots |->
                    IF s <= Len(Preset)
                      THEN [t \in DOMAIN Preset |->
                              [parameter_id |-> Preset[t].parameter_id, value |-> Zero]][s]
                      ELSE last[s]]
      /\ timestamp' = [s \in Slots |-> IF s <= Len(Preset)
                         THEN [t \in DOMAIN Preset |-> 0][s] ELSE timestamp[s]]
      /\ forgotten' = forgotten \cup DOMAIN Preset
      /\ NoCheck /\ UNCHANGED <<connected, current, told>>
  BY DEF cr_init_param_notifications
<1>3. \A s \in Slots : s <= Len(Preset) <=> s \in DOMAIN Preset
  BY <1>1, CheckAssumption DEF Slots
<1>4. SlotsOK /\ LastIsTold
  BY DEF TimersInv, CheckTypes
<1>5. ASSUME NEW s \in Slots
      PROVE  /\ notify_list'[s] \in Config \cup {Off} /\ last'[s] \in Remembered
             /\ timestamp'[s] \in 0 .. Modulus - 1
             /\ s \notin DOMAIN Preset => last'[s] = last[s] /\ timestamp'[s] = timestamp[s]
  <2>1. CASE s \in DOMAIN Preset
    <3>1. /\ notify_list'[s] = Preset[s] /\ timestamp'[s] = 0
          /\ last'[s] = [parameter_id |-> Preset[s].parameter_id, value |-> Zero]
      BY <1>2, <1>3, <2>1
    <3>2. Preset[s] \in Config /\ Preset[s].parameter_id \in Params
      BY <1>1, <2>1 DEF Config
    <3>3. last'[s] \in Remembered
      BY <3>1, <3>2 DEF Remembered
    <3>4. QED BY <2>1, <3>1, <3>2, <3>3, NoneTold
  <2>2. CASE s \notin DOMAIN Preset
    BY <1>2, <1>3, <1>4, <2>2 DEF SlotsOK
  <2>3. QED BY <2>1, <2>2
<1>6. SlotsOK'
  <2>1. notify_list' \in [Slots -> Config \cup {Off}]
    BY <1>2, <1>5
  <2>2. last' \in [Slots -> Remembered]
    BY <1>2, <1>5
  <2>3. timestamp' \in [Slots -> 0 .. Modulus - 1]
    BY <1>2, <1>5
  <2>4. forgotten' \subseteq Slots
    <3>1. DOMAIN Preset \subseteq Slots
      BY <1>1, CheckAssumption DEF Slots
    <3>2. QED BY <1>2, <1>4, <3>1 DEF SlotsOK
  <2>5. QED BY <1>2, <1>4, <2>1, <2>2, <2>3, <2>4 DEF SlotsOK
<1>7. CheckTypes'
  BY <1>2, <1>6 DEF CheckTypes, CurrentOK, NoCheck, TimersInv
<1>8. LastIsTold'
  BY <1>2, <1>4, <1>5 DEF LastIsTold
<1>9. QED BY <1>7, <1>8

(* What a slot that does not notify was the last to tell of stays so.       *)
LEMMA ToldByNone ==
  ASSUME NEW p, NEW s, s \notin notified', told'[p].by = s,
         \/ /\ told'[p] = told[p]
            /\ \A t \in notified' : notify_list[t].parameter_id # p
         \/ \E t \in notified' :
              /\ notify_list[t].parameter_id = p
              /\ told'[p] = [value |-> current[p], at |-> clock', by |-> t]
  PROVE  told'[p] = told[p]
<1>1. ASSUME NEW t \in notified', told'[p] = [value |-> current[p], at |-> clock', by |-> t]
      PROVE  FALSE
  <2>1. told'[p].by = t
    BY <1>1
  <2>2. QED BY <2>1
<1>2. QED BY <1>1

(* The slots that notify know what they have told, and the others what they *)
(* told before.                                                            *)
LEMMA CheckRemembers ==
  ASSUME TimersInv, process_notifications
  PROVE  LastIsTold'
<1>1. /\ notified' \subseteq Slots /\ UNCHANGED current /\ forgotten' = forgotten \ notified'
      /\ \A s \in notified' :
           /\ last'[s] = [parameter_id |-> notify_list[s].parameter_id, value |-> Reading(s)]
           /\ timestamp'[s] = ticks'
      /\ \A s \in Slots \ notified' : last'[s] = last[s] /\ timestamp'[s] = timestamp[s]
      /\ DOMAIN told' = DOMAIN told
  BY CheckDoes
<1>2. \A p \in DOMAIN told :
        \/ /\ told'[p] = told[p]
           /\ \A s \in notified' : notify_list[s].parameter_id # p
        \/ \E s \in notified' :
             /\ notify_list[s].parameter_id = p
             /\ told'[p] = [value |-> current[p], at |-> clock', by |-> s]
  BY CheckDoes
<1>3. ticks' = clock' % Modulus
  BY TimeGoesOn DEF TimersInv, process_notifications, check_timeout
<1>4. SUFFICES ASSUME NEW p \in DOMAIN told, NEW s \in Slots,
                      told'[p].by = s, s \notin forgotten', last'[s].parameter_id = p
               PROVE  last'[s].value = told'[p].value /\ timestamp'[s] = told'[p].at % Modulus
  BY <1>1 DEF LastIsTold
<1>5. CASE s \in notified'
  <2>0. /\ last'[s] = [parameter_id |-> notify_list[s].parameter_id, value |-> Reading(s)]
        /\ timestamp'[s] = ticks'
    BY <1>1, <1>5, Zenon
  <2>1. notify_list[s].parameter_id = p /\ last'[s].value = Reading(s)
    BY <1>4, <2>0
  <2>2. told'[p].value = current[p] /\ told'[p].at = clock'
    <3>1. PICK t \in notified' : told'[p] = [value |-> current[p], at |-> clock', by |-> t]
      BY <1>2, <1>5, <2>1, Zenon
    <3>2. QED BY <3>1
  <2>3. p \in DOMAIN current
    BY DEF TimersInv, TimeInv, CheckTypes, CurrentOK
  <2>4. last'[s].value = current[p]
    BY <2>1, <2>3 DEF Reading
  <2>5. QED BY <1>3, <2>0, <2>2, <2>4
<1>6. CASE s \notin notified'
  <2>1. told'[p] = told[p]
    BY <1>2, <1>4, <1>6, ToldByNone
  <2>2. s \notin forgotten /\ last'[s] = last[s] /\ timestamp'[s] = timestamp[s]
    BY <1>1, <1>4, <1>6
  <2>3. QED BY <1>4, <2>1, <2>2 DEF TimersInv, LastIsTold
<1>7. QED BY <1>5, <1>6

LEMMA CheckedTypes ==
  ASSUME TimersInv, process_notifications
  PROVE  CheckTypes' /\ LastIsTold'
<1>1. /\ notified' \subseteq Slots /\ noted' = TRUE
      /\ UNCHANGED <<connected, notify_list, current>>
      /\ forgotten' = forgotten \ notified'
      /\ \A s \in notified' :
           /\ sParamNotifyEnabled(s)
           /\ last'[s] = [parameter_id |-> notify_list[s].parameter_id, value |-> Reading(s)]
           /\ timestamp'[s] = ticks'
      /\ \A s \in Slots \ notified' : last'[s] = last[s] /\ timestamp'[s] = timestamp[s]
      /\ last' = [s \in Slots |-> last'[s]]
      /\ timestamp' = [s \in Slots |-> timestamp'[s]]
  BY CheckDoes
<1>2. /\ told' = [p \in DOMAIN told |-> told'[p]]
      /\ \A p \in DOMAIN told :
           \/ told'[p] = told[p]
           \/ \E s \in notified' : told'[p] = [value |-> current[p], at |-> clock', by |-> s]
  BY CheckDoes
<1>3. SlotsOK /\ CurrentOK /\ DOMAIN told = Params \ Unreadable
  BY DEF TimersInv, TimeInv, CheckTypes
<1>4. clock' \in Nat /\ ticks' \in 0 .. Modulus - 1
  <2>1. clock' \in Nat /\ ticks' = clock' % Modulus
    BY TimeGoesOn DEF TimersInv, process_notifications, check_timeout
  <2>2. PICK now \in Int : now = clock'
    BY <2>1
  <2>3. now % Modulus \in 0 .. Modulus - 1
    BY ModulusType, DivMod
  <2>4. QED BY <2>1, <2>2, <2>3
<1>5. \A p \in DOMAIN current : p \in Params /\ current[p] \in AnyValue
  BY <1>3 DEF CurrentOK, AnyValue
<1>6. ASSUME NEW s \in Slots
      PROVE  last'[s] \in Remembered /\ timestamp'[s] \in 0 .. Modulus - 1
  <2>1. CASE s \in notified'
    <3>1. notify_list[s].parameter_id \in Params
      BY <1>1, <1>3, <2>1 DEF SlotsOK, sParamNotifyEnabled, Config
    <3>2. Reading(s) \in AnyValue \cup {Zero}
      BY <1>5 DEF Reading
    <3>3. /\ last'[s] = [parameter_id |-> notify_list[s].parameter_id, value |-> Reading(s)]
          /\ timestamp'[s] = ticks'
      BY <1>1, <2>1, Zenon
    <3>4. QED BY <1>4, <3>1, <3>2, <3>3 DEF Remembered
  <2>2. CASE s \notin notified'
    BY <1>1, <1>3, <2>2 DEF SlotsOK
  <2>3. QED BY <2>1, <2>2
<1>7. ASSUME NEW p \in DOMAIN told PROVE told'[p] \in Told
  <2>1. CASE told'[p] = told[p]
    BY <1>3, <2>1 DEF SlotsOK
  <2>2. CASE \E s \in notified' : told'[p] = [value |-> current[p], at |-> clock', by |-> s]
    <3>1. p \in DOMAIN current
      BY <1>3 DEF CurrentOK
    <3>2. QED BY <1>1, <1>4, <1>5, <2>2, <3>1 DEF Told
  <2>3. QED BY <1>2, <2>1, <2>2
<1>8. SlotsOK'
  <2>1. last' \in [Slots -> Remembered]
    BY <1>1, <1>6
  <2>2. timestamp' \in [Slots -> 0 .. Modulus - 1]
    BY <1>1, <1>6
  <2>3. told' \in [Params \ Unreadable -> Told]
    BY <1>2, <1>3, <1>7
  <2>4. QED BY <1>1, <1>3, <2>1, <2>2, <2>3 DEF SlotsOK
<1>9. CheckTypes'
  BY <1>1, <1>8 DEF CheckTypes, CurrentOK, TimersInv
<1>10. QED BY <1>9, CheckRemembers

LEMMA TimersStep ==
  ASSUME TimersInv, TypeOK', [TimersNext]_timerVars
  PROVE  TimersInv'
<1>1. TimeInv'
  BY TimeStep DEF TimersInv
<1>2. CheckTypes' /\ LastIsTold'
  <2>0. /\ connected \in BOOLEAN /\ notify_list \in [Slots -> Config \cup {Off}]
        /\ CurrentOK
    BY DEF TimersInv, CheckTypes, SlotsOK
  <2>1. ASSUME NEW config \in Configs, enable_notify(config) PROVE CheckTypes' /\ LastIsTold'
    <3>1. PICK s \in Place(config.parameter_id) :
            notify_list' = [notify_list EXCEPT ![s] = config]
      BY <2>1 DEF enable_notify
    <3>2. config \in Config
      BY CheckAssumption
    <3>3. notify_list' \in [Slots -> Config \cup {Off}]
      BY <2>0, <3>1, <3>2
    <3>4. QED BY <2>0, <2>1, <3>3, Remembers DEF enable_notify, CurrentOK
  <2>2. ASSUME NEW s \in Slots, disable_notify(s) PROVE CheckTypes' /\ LastIsTold'
    <3>1. notify_list' = [notify_list EXCEPT ![s] = Off]
      BY <2>2 DEF disable_notify
    <3>2. notify_list' \in [Slots -> Config \cup {Off}]
      BY <2>0, <3>1
    <3>3. QED BY <2>0, <2>2, <3>2, Remembers DEF disable_notify, CurrentOK
  <2>3. CASE link_up
    BY <2>3, LinkUpTypes
  <2>4. CASE link_down
    BY <2>0, <2>4, Remembers DEF link_down, CurrentOK
  <2>5. CASE cr_init_param_notifications
    BY <2>5, PresetTypes
  <2>6. CASE process_notifications
    BY <2>6, CheckedTypes
  <2>7. CASE process_something_else \/ process_link_down \/ transfer_file
    BY <2>0, <2>7, Remembers
    DEF process_something_else, process_link_down, transfer_file, checkVars, CurrentOK
  <2>8. CASE write_parameter
    <3>1. CurrentOK'
      <4>0. PICK p \in DOMAIN current : \E v \in Value(p) : current' = [current EXCEPT ![p] = v]
        BY <2>8 DEF write_parameter
      <4>1. PICK v \in Value(p) : current' = [current EXCEPT ![p] = v]
        BY <4>0
      <4>2. DOMAIN current' = DOMAIN current
        BY <4>1
      <4>3. \A q \in DOMAIN current : current'[q] \in Value(q)
        BY <2>0, <4>1 DEF CurrentOK
      <4>4. QED BY <2>0, <4>2, <4>3 DEF CurrentOK
    <3>2. QED BY <2>0, <2>8, <3>1, Remembers DEF write_parameter
  <2>9. CASE UNCHANGED timerVars
    BY <2>9 DEF timerVars, checkVars, TimersInv, CheckTypes, SlotsOK, CurrentOK, LastIsTold
  <2>10. QED BY <2>1, <2>2, <2>3, <2>4, <2>5, <2>6, <2>7, <2>8, <2>9 DEF TimersNext
<1>3. QED BY <1>1, <1>2 DEF TimersInv

LEMMA TimersAlways == TimersSpec => []TimersInv
<1>1. TimersInv /\ TypeOK' /\ [TimersNext]_timerVars => TimersInv'
  BY TimersStep
<1>2. TimersSpec => []TypeOK
  BY TimersKeepWatchdog, WatchdogTypes, PTL
<1>3. QED BY <1>1, <1>2, TimersInitially, PTL DEF TimersSpec

(* The timers keep their types, for every width: a slot has a whole         *)
(* configuration of a parameter or none, and what it remembers and what the *)
(* client was told are values (TimersTypeOK).                              *)
THEOREM TimerTypes == TimersSpec => []TimersTypeOK
<1>1. ASSUME TimersInv PROVE TimersTypeOK
  <2>1. told \in [Params \ Unreadable ->
                   [value: AnyValue \cup {Zero}, at: 0 .. clock, by: Slots \cup {0}]]
    <3>1. told \in [Params \ Unreadable -> Told] /\ clock \in Nat
      BY <1>1 DEF TimersInv, CheckTypes, SlotsOK, TimeInv
    <3>2. ASSUME NEW p \in Params \ Unreadable
          PROVE  told[p] \in [value: AnyValue \cup {Zero}, at: 0 .. clock, by: Slots \cup {0}]
      <4>1. told[p].at \in Nat /\ told[p].at <= clock
        BY <1>1, <3>1 DEF TimersInv, TimeInv, ToldTimes
      <4>2. told[p].at \in 0 .. clock
        BY <3>1, <4>1
      <4>3. QED BY <3>1, <4>2 DEF Told
    <3>3. QED BY <3>1, <3>2
  <2>2. QED BY <1>1, <2>1
            DEF TimersInv, CheckTypes, SlotsOK, CurrentOK, Remembered, TimersTypeOK
<1>2. QED BY <1>1, TimersAlways, PTL

-----------------------------------------------------------------------------
(* What the arithmetic can tell.                                           *)

(* A number below m is its own remainder, and one just below 0 is a turn    *)
(* away from it.                                                           *)
LEMMA SmallRemainder ==
  ASSUME NEW m \in Int, m > 0, NEW d \in Int, -m < d, d < m
  PROVE  d % m = IF d >= 0 THEN d ELSE d + m
<1> DEFINE q == d \div m
           r == d % m
           s == IF d >= 0 THEN d ELSE d + m
           p == IF d >= 0 THEN 0 ELSE -1
<1>1. d = m * q + r /\ q \in Int /\ r \in 0 .. m - 1
  BY DivMod
<1>2. s \in 0 .. m - 1 /\ p \in Int
  OBVIOUS
<1>3. d = m * p + s
  <2>1. m * 0 = 0 /\ m * (-1) = -m
    OBVIOUS
  <2>2. QED BY <2>1
<1> HIDE DEF q, r, s, p
<1>4. m * q + r = m * p + s
  BY <1>1, <1>3
<1>5. r = s
  BY <1>1, <1>2, <1>4, OneRemainder
<1>6. QED BY <1>5 DEF r, s

(* Within one turn of ticks the time that seems to have gone by has.        *)
LEMMA ElapsedIsExact ==
  ASSUME NEW a \in Nat, NEW c \in Nat, NEW m \in Int, m > 0, c - a \in 0 .. m - 1
  PROVE  ((c % m) - (a % m)) % m = c - a
<1> DEFINE r == a % m
           k == a \div m
           s == c % m
           l == c \div m
           d == c - a
<1>1. a = m * k + r /\ k \in Int /\ r \in 0 .. m - 1
  BY DivMod
<1>2. c = m * l + s /\ l \in Int /\ s \in 0 .. m - 1
  BY DivMod
<1>3. d \in Int /\ d >= 0 /\ d < m /\ d = c - a
  OBVIOUS
<1> HIDE DEF r, k, s, l, d
<1>4. m * (l - k) = m * l - m * k /\ l - k \in Int /\ m * l \in Int /\ m * k \in Int
  BY <1>1, <1>2, Distribute
<1>5. d = m * (l - k) + (s - r) /\ s - r \in Int
  BY <1>1, <1>2, <1>3, <1>4
<1>6. (s - r) % m = d % m
  BY <1>3, <1>4, <1>5, Congruent
<1>7. d % m = d
  BY <1>3, SmallRemainder
<1>8. QED BY <1>3, <1>6, <1>7 DEF s, r

LEMMA HalfType == Half \in Int /\ Half > 0
  BY CheckAssumption

(* A signed difference of less than half the range is computed as it is.    *)
LEMMA SignedDeltaIs ==
  ASSUME NEW cur \in Words, NEW prior \in Words,
         Distance(Signed(cur), Signed(prior)) < Half
  PROVE  SignedDelta(cur, prior) = Distance(Signed(cur), Signed(prior))
<1> DEFINE a == Signed(cur)
           b == Signed(prior)
           m == 2 * Half
           d == a - b
<1>1. m \in Int /\ m > 0 /\ a \in Int /\ b \in Int
  BY HalfType DEF Words, Signed
<1>2. d \in Int /\ -Half < d /\ d < Half
  <2>1. Distance(a, b) < Half
    OBVIOUS
  <2> HIDE DEF a, b
  <2>2. QED BY <1>1, <2>1, HalfType DEF Distance
<1>3. -m < d /\ d < m
  BY <1>2, HalfType
<1>4. d % m = IF d >= 0 THEN d ELSE d + m
  <2> HIDE DEF m, d
  <2>1. QED BY <1>1, <1>2, <1>3, SmallRemainder
<1>5. Signed(d % m) = d
  <2>1. CASE d >= 0
    <3>1. d % m = d
      BY <1>4, <2>1
    <3>2. Signed(d) = d
      BY <1>2, HalfType DEF Signed
    <3>3. QED BY <3>1, <3>2
  <2>2. CASE ~(d >= 0)
    <3>1. d % m = d + m
      BY <1>4, <2>2
    <3>2. PICK e \in Int : e = d + m
      BY <1>1, <1>2
    <3>3. d % m = e
      BY <3>1, <3>2
    <3>4. Signed(e) = IF e >= Half THEN e - m ELSE e
      BY DEF Signed
    <3> HIDE DEF d
    <3>5. e >= Half
      BY <1>2, <3>2, HalfType
    <3> HIDE DEF m
    <3>6. e - m = d
      BY <1>1, <1>2, <3>2
    <3>7. Signed(e) = d
      BY <3>4, <3>5, <3>6
    <3>8. QED BY <3>3, <3>7
  <2>3. QED BY <2>1, <2>2
<1>6. SignedDelta(cur, prior) = IF d < 0 /\ d # -Half THEN -d ELSE d
  <2>1. SignedDelta(cur, prior) =
          IF Signed(d % m) < 0 /\ Signed(d % m) # -Half THEN -Signed(d % m) ELSE Signed(d % m)
    BY DEF SignedDelta
  <2>2. QED BY <1>5, <2>1
<1>7. Distance(a, b) = IF d < 0 /\ d # -Half THEN -d ELSE d
  <2> HIDE DEF a, b
  <2>1. QED BY <1>1, <1>2, HalfType DEF Distance
<1>8. QED BY <1>6, <1>7

(* A comparison that finds no difference finds the value to be what the     *)
(* client was told, as far as it can tell.                                 *)
LEMMA NoDifference ==
  ASSUME NEW p \in Params, NEW now \in Value(p), NEW then \in AnyValue \cup {Zero},
         NEW delta \in Nat, ~Differs(p, now, then, delta)
  PROVE  IF Kind[p] = "bytes"
           THEN now.size = then.size /\ now.size = 1 => now.word = then.word
           ELSE LET distance == TrueDistance(p, now.word, then.word)
                IN  distance < Half => distance < delta
<1>1. Kind[p] \in {"uint", "int", "bytes"}
  BY CheckAssumption
<1>2. now.word \in Words /\ then.word \in Words
  <2>1. \A q \in Params : \A v \in Value(q) : v.word \in Words
    BY CheckAssumption DEF Value
  <2>2. 0 \in Words
    BY CheckAssumption
  <2>3. QED BY <2>1, <2>2 DEF AnyValue, Zero
<1>3. CASE Kind[p] = "bytes"
  BY <1>3 DEF Differs
<1>4. CASE Kind[p] = "uint"
  <2>1. ~(Distance(now.word, then.word) >= delta)
    BY <1>4 DEF Differs
  <2>2. Distance(now.word, then.word) \in Int
    BY <1>2, HalfType DEF Words, Distance
  <2>3. TrueDistance(p, now.word, then.word) = Distance(now.word, then.word)
    BY <1>4 DEF TrueDistance
  <2>4. QED BY <1>4, <2>1, <2>2, <2>3
<1>5. CASE Kind[p] = "int"
  <2>1. ~(SignedDelta(now.word, then.word) >= delta)
    BY <1>5 DEF Differs
  <2>2. TrueDistance(p, now.word, then.word) = Distance(Signed(now.word), Signed(then.word))
    BY <1>5 DEF TrueDistance
  <2>3. Distance(Signed(now.word), Signed(then.word)) \in Int
    BY <1>2, HalfType DEF Words, Distance, Signed
  <2>4. Distance(Signed(now.word), Signed(then.word)) < Half =>
          Distance(Signed(now.word), Signed(then.word)) < delta
    BY <1>2, <2>1, <2>3, SignedDeltaIs
  <2>5. QED BY <1>5, <2>2, <2>4
<1>6. QED BY <1>1, <1>3, <1>4, <1>5

LEMMA CheckLeavesNothing ==
  ASSUME TimersInv, TimersInv', process_notifications
  PROVE  NothingOverdue'
<1>1. /\ notified' \subseteq Slots /\ UNCHANGED <<notify_list, current>>
      /\ forgotten' = forgotten \ notified'
      /\ \A s \in Slots \ notified' :
           /\ last'[s] = last[s] /\ timestamp'[s] = timestamp[s]
           /\ sParamNotifyEnabled(s) /\ LongEnough(s, ticks') =>
                ~Overdue(s, ticks') /\ FALSE \in Verdicts(s)
      /\ DOMAIN told' = DOMAIN told
  BY CheckDoes
<1>2. \A p \in DOMAIN told :
        \/ /\ told'[p] = told[p]
           /\ \A s \in notified' : notify_list[s].parameter_id # p
        \/ \E s \in notified' :
             /\ notify_list[s].parameter_id = p
             /\ told'[p] = [value |-> current[p], at |-> clock', by |-> s]
  BY CheckDoes
<1>3. /\ SlotsOK /\ CurrentOK /\ LastIsTold /\ TimeInv
      /\ clock' \in Nat /\ ticks' = clock' % Modulus /\ ToldTimes'
  BY DEF TimersInv, CheckTypes, TimeInv
<1>4. SUFFICES ASSUME NEW s \in Slots, NEW p \in DOMAIN told, p = notify_list[s].parameter_id,
                      told'[p].by = s, s \notin forgotten', last'[s].parameter_id = p,
                      clock' - told'[p].at \in notify_list[s].minimum_period .. Modulus - 1
               PROVE  /\ notify_list[s].maximum_period # 0 =>
                           clock' - told'[p].at <= notify_list[s].maximum_period
                      /\ s \notin notified' =>
                           IF Kind[p] = "bytes"
                             THEN current[p].size = told'[p].value.size /\ current[p].size = 1
                                    => current[p].word = told'[p].value.word
                             ELSE LET distance ==
                                        TrueDistance(p, current[p].word, told'[p].value.word)
                                  IN  distance < Half => distance < notify_list[s].minimum_delta
  BY <1>1 DEF NothingOverdue, KnowsOf, Timed
<1>5. /\ p \in Params /\ p \notin Unreadable /\ p # 0
      /\ p \in DOMAIN current /\ current[p] \in Value(p)
  BY <1>3, <1>4, CheckAssumption DEF TimeInv, CurrentOK
<1>6. PICK config \in Config : config = notify_list[s]
  BY <1>3, <1>4, <1>5 DEF SlotsOK, Off
<1>7. /\ config.minimum_period \in Nat /\ config.maximum_period \in Nat
      /\ config.minimum_delta \in Nat
  BY ModulusType DEF Config
<1>8. CASE s \in notified'
  <2>1. told'[p].at = clock'
    <3>1. PICK t \in notified' : told'[p] = [value |-> current[p], at |-> clock', by |-> t]
      BY <1>2, <1>4, <1>8, Zenon
    <3>2. QED BY <3>1
  <2>2. clock' - told'[p].at = 0
    <3>1. PICK c \in Nat : c = clock'
      BY <1>3
    <3>2. c - c = 0
      OBVIOUS
    <3>3. QED BY <2>1, <3>1, <3>2
  <2>3. QED BY <1>6, <1>7, <1>8, <2>2
<1>9. CASE s \notin notified'
  <2>0. told'[p] = told[p]
    BY <1>2, <1>4, <1>9, ToldByNone
  <2>1. /\ told'[p] = told[p] /\ s \notin forgotten
        /\ last'[s] = last[s] /\ timestamp'[s] = timestamp[s]
    BY <1>1, <1>4, <1>9, <2>0
  <2>2. last[s].value = told[p].value /\ timestamp[s] = told[p].at % Modulus
    BY <1>3, <1>4, <2>1 DEF LastIsTold
  <2>3. told[p].at \in Nat
    BY <1>3, <1>4 DEF TimeInv, ToldTimes
  <2>4. Elapsed(s, ticks') = clock' - told[p].at
    <3>1. PICK a \in Nat, c \in Nat : a = told[p].at /\ c = clock'
      BY <1>3, <2>3
    <3>2. c - a \in config.minimum_period .. Modulus - 1
      BY <1>4, <1>6, <2>1, <3>1
    <3>3. c - a \in 0 .. Modulus - 1
      BY <1>7, <3>2, ModulusType
    <3>4. ((c % Modulus) - (a % Modulus)) % Modulus = c - a
      BY <3>3, ModulusType, ElapsedIsExact
    <3>5. QED BY <1>3, <2>2, <3>1, <3>4 DEF Elapsed
  <2>5. sParamNotifyEnabled(s) /\ LongEnough(s, ticks')
    <3>1. clock' - told[p].at >= config.minimum_period
      BY <1>3, <1>4, <1>6, <1>7, <2>1, <2>3, ModulusType
    <3>2. notify_list[s] # Off
      BY <1>4, <1>5 DEF Off
    <3>3. QED BY <1>6, <2>4, <3>1, <3>2 DEF sParamNotifyEnabled, LongEnough
  <2>6. ~Overdue(s, ticks') /\ FALSE \in Verdicts(s)
    BY <1>1, <1>9, <2>5
  <2>7. config.maximum_period # 0 => clock' - told[p].at <= config.maximum_period
    <3>1. config.maximum_period # 0 => ~(clock' - told[p].at > config.maximum_period)
      BY <1>6, <2>4, <2>6 DEF Overdue
    <3>2. clock' - told[p].at \in Int
      BY <1>3, <2>3
    <3>3. QED BY <1>7, <3>1, <3>2
  <2>8. Reading(s) = current[p]
    BY <1>4, <1>5 DEF Reading
  <2>9. Verdicts(s) = {Differs(p, current[p], told[p].value, config.minimum_delta)}
    BY <1>4, <1>5, <1>6, <2>1, <2>2, <2>8 DEF Verdicts, Comparable
  <2>10. ~Differs(p, current[p], told[p].value, config.minimum_delta)
    BY <2>6, <2>9, Zenon
  <2>11. told[p].value \in AnyValue \cup {Zero}
    <3>1. told[p] \in Told
      BY <1>3, <1>4 DEF SlotsOK
    <3>2. QED BY <3>1 DEF Told
  <2>12. IF Kind[p] = "bytes"
           THEN current[p].size = told[p].value.size /\ current[p].size = 1
                  => current[p].word = told[p].value.word
           ELSE LET distance == TrueDistance(p, current[p].word, told[p].value.word)
                IN  distance < Half => distance < config.minimum_delta
    <3>1. PICK now \in Value(p), then \in AnyValue \cup {Zero}, delta \in Nat :
            now = current[p] /\ then = told[p].value /\ delta = config.minimum_delta
      BY <1>5, <1>7, <2>11
    <3>2. ~Differs(p, now, then, delta)
      BY <2>10, <3>1
    <3>3. IF Kind[p] = "bytes"
            THEN now.size = then.size /\ now.size = 1 => now.word = then.word
            ELSE LET distance == TrueDistance(p, now.word, then.word)
                 IN  distance < Half => distance < delta
      BY <1>5, <3>2, NoDifference
    <3>4. QED BY <3>1, <3>3
  <2>13. QED BY <1>6, <1>9, <2>1, <2>7, <2>12
<1>10. QED BY <1>8, <1>9

(* Only a check leaves noted set.                                          *)
LEMMA OnlyChecksAreNoted ==
  ASSUME TimersNext, ~process_notifications PROVE ~noted'
BY DEF TimersNext, enable_notify, disable_notify, link_up, link_down,
       cr_init_param_notifications, process_something_else, process_link_down,
       write_parameter, transfer_file, NoCheck

(* After a check nothing is owed to a client that the arithmetic can tell   *)
(* (NothingOverdue): of a parameter that a slot has told it of last,        *)
(* pvtCrParam_check_for_notifications has told it if the maximum period is  *)
(* over or the value has moved by the delta, for every width of ticks and   *)
(* of values.                                                              *)
THEOREM NothingIsOverdue == TimersSpec => []NothingOverdue
<1>1. TimersInit => NothingOverdue
  BY DEF TimersInit, NothingOverdue
<1>2. ASSUME TimersInv, TimersInv', NothingOverdue, [TimersNext]_timerVars
      PROVE  NothingOverdue'
  <2>1. CASE process_notifications
    BY <1>2, <2>1, CheckLeavesNothing
  <2>2. CASE TimersNext /\ ~process_notifications
    BY <2>2, OnlyChecksAreNoted DEF NothingOverdue
  <2>3. CASE UNCHANGED timerVars
    <3>1. UNCHANGED <<clock, notify_list, last, current, told, forgotten, notified, noted>>
      BY <2>3 DEF timerVars, checkVars, vars
    <3>2. QED BY <1>2, <3>1 DEF NothingOverdue, KnowsOf, Timed
  <2>4. QED BY <1>2, <2>1, <2>2, <2>3
<1>3. QED BY <1>1, <1>2, TimersAlways, PTL DEF TimersSpec

=============================================================================
