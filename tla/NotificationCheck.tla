--------------------------- MODULE NotificationCheck ---------------------------
(***************************************************************************)
(* When the enabled notifications are due: the check that cr_process makes  *)
(* of them at a call that finds the link up and has nothing else to do      *)
(* (src/src/cr_params.c), with the arithmetic of its times and values.      *)
(* NotificationTable has the table; here a slot has a whole configuration,  *)
(* and what was sent last.  The watchdog is checked at the same calls.      *)
(*                                                                         *)
(* A value is a union: a number is a word that wraps, which a parameter     *)
(* reads as unsigned or as signed, and a byte string is a size and one      *)
(* byte, kept whether the size says that it counts or not.  Strings, floats *)
(* and the 64-bit kinds, which lose their low bits in the comparison, are   *)
(* not told apart from these.                                              *)
(***************************************************************************)
EXTENDS Watchdog, Sequences

CONSTANTS
  Params,                       (* parameter ids                            *)
  Kind,                         (* what each of them is                     *)
  Unreadable,                   (* those crcb_parameter_read fails for      *)
  Half,                         (* words have twice as many values: 2^31 in *)
                                (*   the code                               *)
  Bytes,                        (* the values of a byte                     *)
  NUM_SUPPORTED_PARAM_NOTIFY,   (* slots                                    *)
  Configs,                      (* configurations a client enables          *)
  Preset                        (* those of the application                 *)

Words == 0 .. 2 * Half - 1

Config ==
  [parameter_id: Params, minimum_period: 0 .. Modulus - 1, maximum_period: 0 .. Modulus - 1,
   minimum_delta: Nat]

ASSUME CheckAssumption ==
  /\ 0 \notin Params
  /\ Kind \in [Params -> {"uint", "int", "bytes"}]
  /\ Unreadable \subseteq Params
  /\ Half \in Nat \ {0}
  /\ Bytes \subseteq Words /\ 0 \in Bytes
  /\ NUM_SUPPORTED_PARAM_NOTIFY \in Nat \ {0}
  /\ Configs \subseteq Config
  /\ Preset \in Seq(Config) /\ Len(Preset) <= NUM_SUPPORTED_PARAM_NOTIFY

Slots == 1 .. NUM_SUPPORTED_PARAM_NOTIFY

Value(p) ==
  IF Kind[p] = "bytes" THEN [size: {0, 1}, word: Bytes] ELSE [size: {0}, word: Words]

VARIABLES
  connected,    (* sCr_comm_link_is_connected                               *)
  notify_list,  (* sCr_param_notify_list                                    *)
  last,         (* sCr_last_param_values: parameter and value of a slot     *)
  timestamp,    (* their timestamps                                         *)
  current,      (* the application's parameters that can be read            *)
  told,         (* history: what the client of this connection was told     *)
                (*   last of each parameter, when, and by which slot        *)
  forgotten,    (* history: the slots whose timestamp a preset has          *)
                (*   overwritten, until they notify again                   *)
  notified,     (* history: the slots notified in this step                 *)
  noted         (* history: this step was a check of the notifications      *)

checkVars == <<connected, notify_list, last, timestamp, current, told, forgotten>>
timerVars == <<vars, checkVars, notified, noted>>

-----------------------------------------------------------------------------
(* The table, as far as it matters when a notification is due.              *)

Off == [parameter_id |-> 0, minimum_period |-> 0, maximum_period |-> 0, minimum_delta |-> 0]

sParamNotifyEnabled(s) == notify_list[s] # Off

Zero == [size |-> 0, word |-> 0]

NoValue == [parameter_id |-> 0, value |-> Zero]

NotTold == [value |-> Zero, at |-> 0, by |-> 0]

Least(S) == CHOOSE s \in S : \A t \in S : s <= t

Greatest(S) == CHOOSE s \in S : \A t \in S : t <= s

Place(p) ==
  LET same == { s \in Slots : notify_list[s].parameter_id = p }
      free == { s \in Slots : ~sParamNotifyEnabled(s) }
  IN  IF same # {} THEN {Least(same)} ELSE IF free # {} THEN {Least(free)} ELSE {}

(* A step that is no check of the notifications.                            *)
NoCheck == notified' = {} /\ noted' = FALSE

enable_notify(config) ==
  /\ connected
  /\ \E s \in Place(config.parameter_id) : notify_list' = [notify_list EXCEPT ![s] = config]
  /\ NoCheck
  /\ UNCHANGED <<vars, connected, last, timestamp, current, told, forgotten>>

(* Variant: only the id is cleared, and what is left counts as enabled.     *)
disable_id(s) ==
  /\ connected
  /\ sParamNotifyEnabled(s)
  /\ notify_list' = [notify_list EXCEPT ![s].parameter_id = 0]
  /\ NoCheck
  /\ UNCHANGED <<vars, connected, last, timestamp, current, told, forgotten>>

disable_notify(s) ==
  /\ connected
  /\ sParamNotifyEnabled(s)
  /\ notify_list' = [notify_list EXCEPT ![s] = Off]
  /\ NoCheck
  /\ UNCHANGED <<vars, connected, last, timestamp, current, told, forgotten>>

cr_clear_param_notifications ==
  /\ notify_list' = [s \in Slots |-> Off]
  /\ last' = [s \in Slots |-> NoValue]
  /\ timestamp' = [s \in Slots |-> 0]

(* The client of a new connection has been told nothing.                    *)
link_up ==
  /\ ~connected
  /\ connected' = TRUE
  /\ cr_clear_param_notifications
  /\ told' = [p \in DOMAIN told |-> NotTold]
  /\ forgotten' = {}
  /\ NoCheck
  /\ UNCHANGED <<vars, current>>

link_down ==
  /\ connected
  /\ connected' = FALSE
  /\ NoCheck
  /\ UNCHANGED <<vars, notify_list, last, timestamp, current, told, forgotten>>

(* The application's own configurations overwrite the first slots, and what *)
(* the slots know of a client that is there already.  The value left for a  *)
(* parameter that cannot be found is like that of a reading that failed.    *)
cr_init_param_notifications ==
  /\ Preset # <<>>
  /\ LET Set(f, g) == [s \in Slots |-> IF s <= Len(Preset) THEN g[s] ELSE f[s]]
         Blank(config) == [parameter_id |-> config.parameter_id, value |-> Zero]
     IN  /\ notify_list' = Set(notify_list, Preset)
         /\ last' = Set(last, [s \in DOMAIN Preset |-> Blank(Preset[s])])
         /\ timestamp' = Set(timestamp, [s \in DOMAIN Preset |-> 0])
  /\ forgotten' = forgotten \cup DOMAIN Preset
  /\ NoCheck
  /\ UNCHANGED <<vars, connected, current, told>>

-----------------------------------------------------------------------------
(* The check.                                                              *)

(* Variant: elapsed time is not taken modulo the width of ticks.            *)
ElapsedUnsigned(s, now) == IF now >= timestamp[s] THEN now - timestamp[s] ELSE 0

(* timeSinceLastNotify.                                                    *)
Elapsed(s, now) == (now - timestamp[s]) % Modulus

Distance(m, n) == IF m > n THEN m - n ELSE n - m

Signed(word) == IF word >= Half THEN word - 2 * Half ELSE word

(* abs() of a difference that wraps: of the least integer it is that        *)
(* integer.                                                                *)
SignedDelta(cur, prior) ==
  LET d == Signed((Signed(cur) - Signed(prior)) % (2 * Half))
  IN  IF d < 0 /\ d # -Half THEN -d ELSE d

(* The bytes compared are those of the current size.                        *)
Differs(p, cur, prior, delta) ==
  CASE Kind[p] = "uint"  -> Distance(cur.word, prior.word) >= delta
    [] Kind[p] = "int"   -> SignedDelta(cur.word, prior.word) >= delta
    [] Kind[p] = "bytes" -> cur.size = 1 /\ cur.word # prior.word

Layout(p) == IF Kind[p] = "bytes" THEN "bytes" ELSE "number"

(* A slot that was another parameter's may hold a value of another layout,  *)
(* or what a failed reading left.                                          *)
Comparable(s) ==
  \/ last[s].parameter_id = 0
  \/ /\ last[s].parameter_id \notin Unreadable
     /\ Layout(last[s].parameter_id) = Layout(notify_list[s].parameter_id)

(* What is compared, kept and sent: where reading has failed it is whatever *)
(* the stack holds, for which Zero stands and with which any comparison may *)
(* come out either way.                                                    *)
Reading(s) ==
  LET p == notify_list[s].parameter_id IN IF p \in DOMAIN current THEN current[p] ELSE Zero

Verdicts(s) ==
  LET config == notify_list[s]
      p      == config.parameter_id
  IN  IF p \in Unreadable \/ ~Comparable(s) THEN BOOLEAN
      ELSE {Differs(p, Reading(s), last[s].value, config.minimum_delta)}

Overdue(s, now) ==
  notify_list[s].maximum_period # 0 /\ Elapsed(s, now) > notify_list[s].maximum_period

(* Variant: the minimum period counts for changes only.                     *)
Always(s, now) == TRUE

LongEnough(s, now) == Elapsed(s, now) >= notify_list[s].minimum_period

pvtCrParam_check_for_notifications(now) ==
  \E differs \in [Slots -> BOOLEAN] :
    LET asked   == { s \in Slots : sParamNotifyEnabled(s) /\ LongEnough(s, now) }
        due     == { s \in asked : Overdue(s, now) \/ differs[s] }
        Note(s) == [parameter_id |-> notify_list[s].parameter_id, value |-> Reading(s)]
    IN  /\ \A s \in Slots : differs[s] \in IF s \in asked THEN Verdicts(s) ELSE {FALSE}
        /\ notified' = due /\ noted' = TRUE
        /\ last' = [s \in Slots |-> IF s \in due THEN Note(s) ELSE last[s]]
        /\ timestamp' = [s \in Slots |-> IF s \in due THEN now ELSE timestamp[s]]
        /\ told' = [p \in DOMAIN told |->
                      LET tellers == { s \in due : notify_list[s].parameter_id = p }
                      IN  IF tellers = {} THEN told[p]
                          ELSE [value |-> current[p], at |-> clock', by |-> Greatest(tellers)]]
        /\ forgotten' = forgotten \ due
        /\ UNCHANGED <<connected, notify_list, current>>

(* A call of cr_process: the watchdog first; then a continued transaction   *)
(* or a prompt, or else the notifications.                                 *)
process_notifications ==
  /\ connected
  /\ check_timeout
  /\ pvtCrParam_check_for_notifications(ticks')

process_something_else ==
  /\ connected
  /\ check_timeout
  /\ NoCheck
  /\ UNCHANGED checkVars

process_link_down ==
  /\ ~connected
  /\ process_unconnected
  /\ NoCheck
  /\ UNCHANGED checkVars

-----------------------------------------------------------------------------
(* What the application and a file transfer do in between.                  *)

write_parameter ==
  /\ \E p \in DOMAIN current : \E v \in Value(p) : current' = [current EXCEPT ![p] = v]
  /\ NoCheck
  /\ UNCHANGED <<vars, connected, notify_list, last, timestamp, told, forgotten>>

transfer_file ==
  /\ connected
  /\ \/ \E msec \in Periods : start_timeout(msec)
     \/ stroke_timeout
     \/ end_timeout
  /\ NoCheck
  /\ UNCHANGED checkVars

TimersInit ==
  /\ Init
  /\ connected = FALSE
  /\ notify_list = [s \in Slots |-> Off]
  /\ last = [s \in Slots |-> NoValue]
  /\ timestamp = [s \in Slots |-> 0]
  /\ current = [p \in Params \ Unreadable |-> Zero]
  /\ told = [p \in Params \ Unreadable |-> NotTold]
  /\ forgotten = {}
  /\ notified = {} /\ noted = FALSE

TimersNext ==
  \/ \E config \in Configs : enable_notify(config)
  \/ \E s \in Slots : disable_notify(s)
  \/ link_up
  \/ link_down
  \/ cr_init_param_notifications
  \/ process_notifications
  \/ process_something_else
  \/ process_link_down
  \/ write_parameter
  \/ transfer_file

TimersSpec == TimersInit /\ [][TimersNext]_timerVars

-----------------------------------------------------------------------------
(* Properties.                                                             *)

AnyValue == UNION { Value(p) : p \in Params }

(* The variables keep their types, those of the watchdog too: a slot has a  *)
(* whole configuration of a parameter or none, also after disabling.       *)
TimersTypeOK ==
  /\ TypeOK
  /\ connected \in BOOLEAN
  /\ notify_list \in [Slots -> Config \cup {Off}]
  /\ last \in [Slots -> [parameter_id: Params \cup {0}, value: AnyValue \cup {Zero}]]
  /\ timestamp \in [Slots -> 0 .. Modulus - 1]
  /\ DOMAIN current = Params \ Unreadable
  /\ \A p \in DOMAIN current : current[p] \in Value(p)
  /\ told \in [Params \ Unreadable ->
               [value: AnyValue \cup {Zero}, at: 0 .. clock, by: Slots \cup {0}]]
  /\ forgotten \subseteq Slots
  /\ notified \subseteq Slots
  /\ noted \in BOOLEAN

(* The slot has its own timestamp of what the client was told last of the   *)
(* parameter it is for.                                                    *)
Timed(s) ==
  LET p == notify_list[s].parameter_id
  IN  p \in DOMAIN told /\ told[p].by = s /\ s \notin forgotten

(* A client is not told of a parameter again before the minimum period is   *)
(* over, whenever ticks wraps, and whatever was configured in between, as   *)
(* long as the parameter stays with its slot and no preset overwrites the   *)
(* slot.  Beyond it are those two: after disabling, a parameter may get     *)
(* another slot and is then timed by what that slot sent, and a preset      *)
(* clears timestamps; either way the next notification may be early.        *)
MinimumPeriodKept ==
  [][ \A s \in notified' :
        LET p == notify_list[s].parameter_id
        IN  Timed(s) => clock' - told[p].at >= notify_list[s].minimum_period
    ]_timerVars

(* ... and the value too: it has sent nothing else since.                   *)
KnowsOf(s) == Timed(s) /\ last[s].parameter_id = notify_list[s].parameter_id

(* Of what the client was told last, as a number.                           *)
TrueDistance(p, m, n) ==
  IF Kind[p] = "int" THEN Distance(Signed(m), Signed(n)) ELSE Distance(m, n)

(* After a check nothing is owed that the arithmetic can tell: the maximum  *)
(* period is not over, a number is within the delta of what the client was  *)
(* told, and bytes of the size it was told are what it was told.  A signed  *)
(* difference of half the range or more and a byte string that shrinks are  *)
(* beyond it, and so is a time in which ticks goes round.                   *)
NothingOverdue ==
  noted =>
    \A s \in Slots :
      LET config == notify_list[s]
          p      == config.parameter_id
          then   == told[p].value
          now    == current[p]
      IN  KnowsOf(s) /\ clock - told[p].at \in config.minimum_period .. Modulus - 1 =>
            /\ config.maximum_period # 0 => clock - told[p].at <= config.maximum_period
            /\ s \notin notified =>
                 IF Kind[p] = "bytes"
                   THEN now.size = then.size /\ now.size = 1 => now.word = then.word
                   ELSE LET distance == TrueDistance(p, now.word, then.word)
                        IN  distance < Half => distance < config.minimum_delta

=============================================================================
