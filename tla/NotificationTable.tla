---------------------------- MODULE NotificationTable ----------------------------
(***************************************************************************)
(* The table of parameter notifications (src/src/cr_params.c) on top of the *)
(* core: enabling, disabling and discovering notifications, their preset    *)
(* by the application, and what a new connection does to them.             *)
(*                                                                         *)
(* Of a configuration the module keeps the parameter and one number for    *)
(* the two periods and the delta, 0 when all three are 0.  Which enabled    *)
(* notifications are due depends on time and on values, and is a choice     *)
(* here.                                                                   *)
(***************************************************************************)
EXTENDS ReachCore

CONSTANTS
  NumParams,                      (* parameters in the table, 1 .. NumParams *)
  NUM_SUPPORTED_PARAM_NOTIFY,     (* slots                                   *)
  REACH_PARAM_NOTE_SETUP_COUNT,   (* configurations in one message           *)
  Setups,                         (* lists of configurations a client sends  *)
  Lists,                          (* lists of parameter ids a client sends   *)
  Preset                          (* the application's own configurations    *)

Config == [parameter_id: Nat, rate: Nat]

ASSUME NotificationAssumption ==
  /\ NumParams \in Nat
  /\ NUM_SUPPORTED_PARAM_NOTIFY \in Nat \ {0}
  /\ REACH_PARAM_NOTE_SETUP_COUNT \in Nat \ {0}
  /\ Setups \subseteq Seq(Config)
  /\ Lists \subseteq Seq(Nat)
  /\ Preset \in Seq(Config) /\ Len(Preset) <= NUM_SUPPORTED_PARAM_NOTIFY

Slots == 1 .. NUM_SUPPORTED_PARAM_NOTIFY

VARIABLES
  notify_list,      (* sCr_param_notify_list                                 *)
  requested,        (* the ids asked for; empty stands for checkAll          *)
  notify_count,     (* sCr_requested_notify_count                            *)
  notify_index,     (* sCr_requested_notify_index                            *)
  next_param,       (* where crcb_parameter_discover_next has come to in the *)
                    (*   discovery of everything begun last                  *)
  received          (* history: configurations the client has got in the     *)
                    (*   discovery begun last                                *)

discoveryVars == <<requested, notify_count, notify_index, next_param, received>>
notifyVars == <<notify_list, discoveryVars>>
vars == <<coreVars, notifyVars>>

NotifyPrompts ==
  CorePrompts
    \cup Wire({"DISCOVER_NOTIFICATIONS", "PARAM_DISABLE_NOTIFY"}, [ids: Lists])
    \cup Wire({"PARAM_ENABLE_NOTIFY"}, [configs: Setups, disable_all_first: BOOLEAN])

crcb_access_granted == key_valid

-----------------------------------------------------------------------------
(* The table.                                                              *)

Off == [parameter_id |-> 0, rate |-> 0]

sParamNotifyEnabled(config) == config # Off

AllOff == [s \in Slots |-> Off]

Active(list) == { s \in Slots : sParamNotifyEnabled(list[s]) }

cr_get_active_notify_count == Cardinality(Active(notify_list))

Least(S) == CHOOSE s \in S : \A t \in S : s <= t

(* crcb_parameter_discover_reset finds the id; 0 stands for the first.      *)
Known(id) == id \in 0 .. NumParams

(* Variant: a configuration always takes the first free slot.               *)
PlaceFree(list, config) ==
  LET free == Slots \ Active(list)
  IN  IF free # {} THEN {Least(free)} ELSE {}

(* Where a configuration goes: the slot of its parameter, or the first free *)
(* one, if any.                                                            *)
Place(list, config) ==
  LET same == { s \in Active(list) : list[s].parameter_id = config.parameter_id }
      free == Slots \ Active(list)
  IN  IF same # {} THEN {Least(same)} ELSE IF free # {} THEN {Least(free)} ELSE {}

(* Variant: an id that is not in the table is enabled too.                  *)
EnableUnknown(list, config) ==
  [s \in Slots |-> IF s \in Place(list, config) THEN config ELSE list[s]]

Enable(list, config) ==
  [s \in Slots |->
     IF Known(config.parameter_id) /\ s \in Place(list, config) THEN config ELSE list[s]]

(* Variant: nothing is said of a configuration that found no slot.          *)
EnableErrorIfUnknown(list, config) ==
  IF ~Known(config.parameter_id) THEN "INVALID_PARAMETER" ELSE "NO_ERROR"

EnableError(list, config) ==
  IF ~Known(config.parameter_id) THEN "INVALID_PARAMETER"
  ELSE IF Place(list, config) = {} THEN "NO_RESOURCE" ELSE "NO_ERROR"

(* The configurations the loop comes to: it leaves at one that is all zero. *)
UpToOff(configs) ==
  LET offs == { i \in DOMAIN configs : configs[i] = Off }
  IN  IF offs = {} THEN configs ELSE SubSeq(configs, 1, Least(offs) - 1)

(* The table after each of the configurations.                             *)
EnabledBy(list, configs) ==
  LET after[n \in 0 .. Len(configs)] ==
        IF n = 0 THEN list ELSE Enable(after[n - 1], configs[n])
  IN  after

EnableErrors(list, configs) ==
  LET after  == EnabledBy(list, configs)
      errors == [i \in DOMAIN configs |-> EnableError(after[i - 1], configs[i])]
      failed == InOrder({ i \in DOMAIN configs : errors[i] # "NO_ERROR" })
  IN  [k \in DOMAIN failed |-> errors[failed[k]]]

(* The result answered is 0, whatever failed: the loop assigns its failures *)
(* to a variable of its own.  Only the message of the answer tells.         *)
pvtCrParam_param_enable_notify ==
  /\ Dispatch("PARAM_ENABLE_NOTIFY")
  /\ LET start   == IF prompt.arg.disable_all_first THEN AllOff ELSE notify_list
         configs == UpToOff(prompt.arg.configs)
         errors  == EnableErrors(start, configs)
     IN  /\ notify_list' = EnabledBy(start, configs)[Len(configs)]
         /\ Respond("PARAM_ENABLE_NOTIFY", 0,
                    [result |-> 0, has_result_message |-> errors # <<>>], errors)
  /\ KeepContinued
  /\ UNCHANGED <<link, discoveryVars>>

(* Variant: the slot is found by counting, not by its parameter.            *)
DisableNth(list, id) == [s \in Slots |-> IF s = id THEN Off ELSE list[s]]

Disable(list, id) ==
  LET same == { s \in Slots : list[s].parameter_id = id }
  IN  [s \in Slots |-> IF same # {} /\ s = Least(same) THEN Off ELSE list[s]]

DisabledBy(list, ids) ==
  LET after[n \in 0 .. Len(ids)] == IF n = 0 THEN list ELSE Disable(after[n - 1], ids[n])
  IN  after[Len(ids)]

pvtCrParam_param_disable_notify ==
  /\ Dispatch("PARAM_DISABLE_NOTIFY")
  /\ notify_list' = DisabledBy(notify_list, prompt.arg.ids)
  /\ Respond("PARAM_DISABLE_NOTIFY", 0, [result |-> 0, has_result_message |-> FALSE], <<>>)
  /\ KeepContinued
  /\ UNCHANGED <<link, discoveryVars>>

-----------------------------------------------------------------------------
(* Discovery of what is enabled.                                           *)

IsNotifying(id) == id # 0 /\ \E s \in Slots : notify_list[s].parameter_id = id

ConfigOf(id) == notify_list[Least({ s \in Slots : notify_list[s].parameter_id = id })]

(* The next n notifying parameters of the table, from parameter p on.       *)
NextNotifying(p, n) ==
  LET found == InOrder({ id \in p .. NumParams : IsNotifying(id) })
  IN  SubSeq(found, 1, IF n < Len(found) THEN n ELSE Len(found))

(* How many configurations the loop is after.                              *)
Wanted(count, index) ==
  IF count - index < REACH_PARAM_NOTE_SETUP_COUNT
    THEN count - index ELSE REACH_PARAM_NOTE_SETUP_COUNT

(* The loop over the ids asked for steps on only at one that is notifying:  *)
(* at any other it stays for ever, and cr_process does not return.         *)
Hangs(ids, count, index) ==
  /\ ids # <<>>
  /\ \E i \in index + 1 .. index + Wanted(count, index) : ~IsNotifying(ids[i])

(* The ids whose configurations the loop finds.                            *)
Found(ids, count, index, p) ==
  IF ids = <<>> THEN NextNotifying(p, Wanted(count, index))
  ELSE SubSeq(ids, index + 1, index + Wanted(count, index))

Configs(ids) == [i \in DOMAIN ids |-> ConfigOf(ids[i])]

(* How far the table has been gone through when found was not enough or     *)
(* just enough.                                                            *)
Passed(ids, found, count, index, p) ==
  IF ids # <<>> \/ Wanted(count, index) = 0 THEN p
  ELSE IF Len(found) = Wanted(count, index) THEN found[Len(found)] + 1 ELSE NumParams + 1

HowMany(ids) ==
  IF ids = <<>> THEN cr_get_active_notify_count
  ELSE Cardinality({ i \in DOMAIN ids : IsNotifying(ids[i]) })

DiscoverPrompt == Dispatch("DISCOVER_NOTIFICATIONS")

discover_notifications_denied ==
  /\ DiscoverPrompt
  /\ ~crcb_access_granted
  /\ num_remaining_objects' = 0
  /\ notify_count' = 0
  /\ Silent
  /\ KeepContinued
  /\ UNCHANGED <<link, notify_list, requested, notify_index, next_param, received>>

discover_notifications_none ==
  /\ DiscoverPrompt
  /\ crcb_access_granted
  /\ cr_get_active_notify_count = 0
  /\ Respond("DISCOVER_NOTIFICATIONS", 0, <<>>, <<>>)
  /\ received' = <<>>
  /\ KeepContinued
  /\ UNCHANGED <<link, notify_list, requested, notify_count, notify_index, next_param>>

BeginDiscovery ==
  /\ DiscoverPrompt
  /\ crcb_access_granted
  /\ cr_get_active_notify_count > 0
  /\ requested' = prompt.arg.ids
  /\ notify_count' = HowMany(prompt.arg.ids)

(* None of the ids asked for is notifying.                                 *)
discover_notifications_unanswered ==
  /\ BeginDiscovery
  /\ notify_count' = 0
  /\ notify_index' = 0
  /\ num_remaining_objects' = 0
  /\ Silent
  /\ received' = <<>>
  /\ KeepContinued
  /\ UNCHANGED <<link, notify_list, next_param>>

(* Variant: the discovery is not continued.                                 *)
discover_first_message_only ==
  /\ BeginDiscovery
  /\ notify_count' > 0
  /\ ~Hangs(requested', notify_count', 0)
  /\ LET found == Found(requested', notify_count', 0, 1)
     IN  /\ notify_index' = Len(found)
         /\ next_param' = Passed(requested', found, notify_count', 0, 1)
         /\ Respond("DISCOVER_NOTIFICATIONS", 0, Configs(found), <<>>)
         /\ received' = Configs(found)
  /\ KeepContinued
  /\ UNCHANGED <<link, notify_list>>

discover_notifications_first ==
  /\ BeginDiscovery
  /\ notify_count' > 0
  /\ ~Hangs(requested', notify_count', 0)
  /\ LET found == Found(requested', notify_count', 0, 1)
     IN  /\ notify_index' = Len(found)
         /\ next_param' = Passed(requested', found, notify_count', 0, 1)
         /\ Respond("DISCOVER_NOTIFICATIONS", notify_count' - Len(found), Configs(found), <<>>)
         /\ received' = Configs(found)
  /\ BeginContinued("DISCOVER_NOTIFICATIONS")
  /\ UNCHANGED <<link, notify_list>>

(* The call of cr_process never returns, and nothing happens any more: at   *)
(* the first message of a discovery, or at a later one.                    *)
discover_notifications_hangs ==
  /\ AtPrompt
  /\ prompt.type = "DISCOVER_NOTIFICATIONS"
  /\ crcb_access_granted
  /\ cr_get_active_notify_count > 0
  /\ Hangs(prompt.arg.ids, HowMany(prompt.arg.ids), 0)
  /\ phase' = "hung"
  /\ Silent
  /\ UNCHANGED <<link, prompt, classic, hdr, continued, notifyVars>>

continue_discover_notifications ==
  /\ AtContinued("DISCOVER_NOTIFICATIONS")
  /\ crcb_access_granted
  /\ cr_get_active_notify_count > 0
  /\ LET found == Found(requested, notify_count, notify_index, next_param)
     IN  IF num_remaining_objects = 0
           THEN /\ NoMoreData
                /\ EndContinued
                /\ UNCHANGED <<num_remaining_objects, notifyVars>>
           ELSE /\ ~Hangs(requested, notify_count, notify_index)
                /\ Continue("DISCOVER_NOTIFICATIONS",
                     notify_count - notify_index - Len(found), Configs(found))
                /\ notify_index' = notify_index + Len(found)
                /\ next_param' = Passed(requested, found, notify_count, notify_index, next_param)
                /\ received' = received \o Configs(found)
                /\ UNCHANGED <<notify_list, requested, notify_count>>

continue_discover_hangs ==
  /\ AtContinued("DISCOVER_NOTIFICATIONS")
  /\ crcb_access_granted
  /\ cr_get_active_notify_count > 0
  /\ Hangs(requested, notify_count, notify_index)
  /\ phase' = "hung"
  /\ Silent
  /\ UNCHANGED <<link, prompt, classic, hdr, continued, notifyVars>>

(* All notifications have been cleared in the middle of the discovery.      *)
continue_discover_none ==
  /\ AtContinued("DISCOVER_NOTIFICATIONS")
  /\ crcb_access_granted
  /\ cr_get_active_notify_count = 0
  /\ Continue("DISCOVER_NOTIFICATIONS", 0, <<>>)
  /\ UNCHANGED notifyVars

(* The access has been taken back.  Nothing is left to send, and the        *)
(* transaction ends no sooner than with access again.                       *)
continue_discover_notifications_denied ==
  /\ AtContinued("DISCOVER_NOTIFICATIONS")
  /\ ~crcb_access_granted
  /\ notify_count' = 0
  /\ num_remaining_objects' = 0
  /\ NoMoreData
  /\ KeepContinued
  /\ UNCHANGED <<notify_list, requested, notify_index, next_param, received>>

-----------------------------------------------------------------------------
(* The periodic check, and what the application does.                      *)

Notification(config) ==
  Message("PARAMETER_NOTIFICATION", 0, FALSE, 0, config.parameter_id)

(* Called when there is no prompt.  In classic format nothing is encoded.   *)
pvtCrParam_check_for_notifications ==
  /\ AtPrompt
  /\ prompt = NoPrompt
  /\ phase' = "idle"
  /\ \E due \in SUBSET Active(notify_list) :
       LET slots == InOrder(due)
       IN  /\ sent' = [i \in DOMAIN slots |->
                         IF classic THEN notification_buffer
                         ELSE Notification(notify_list[slots[i]])]
           /\ notification_buffer' =
                IF slots = <<>> THEN notification_buffer ELSE sent'[Len(slots)]
  /\ UNCHANGED <<link, prompt, classic, hdr, continued, response_buffer, notifyVars>>

cr_clear_param_notifications ==
  /\ Idle
  /\ Active(notify_list) # {}
  /\ notify_list' = AllOff
  /\ Silent
  /\ UNCHANGED <<link, prompt, classic, hdr, continued, phase, discoveryVars>>

(* The application presets its notifications into an empty table, before    *)
(* the client begins a discovery.                                          *)
cr_init_param_notifications ==
  /\ Idle
  /\ continued_message_type = INVALID
  /\ Active(notify_list) = {}
  /\ notify_list' = [s \in Slots |-> IF s <= Len(Preset) THEN Preset[s] ELSE notify_list[s]]
  /\ Silent
  /\ UNCHANGED <<link, prompt, classic, hdr, continued, phase, discoveryVars>>

-----------------------------------------------------------------------------

cr_process ==
  \/ CoreHandlers /\ UNCHANGED notifyVars
  \/ pvtCrParam_param_enable_notify
  \/ pvtCrParam_param_disable_notify
  \/ discover_notifications_denied
  \/ discover_notifications_none
  \/ discover_notifications_unanswered
  \/ discover_notifications_first
  \/ discover_notifications_hangs
  \/ continue_discover_notifications
  \/ continue_discover_hangs
  \/ continue_discover_none
  \/ continue_discover_notifications_denied
  \/ pvtCrParam_check_for_notifications

(* A new connection clears the table.                                      *)
LinkApplication ==
  /\ CoreApplication(NotifyPrompts) \/ revoke_access
  /\ notify_list' = IF ~connected /\ connected' THEN AllOff ELSE notify_list
  /\ UNCHANGED discoveryVars

Application ==
  \/ LinkApplication
  \/ cr_clear_param_notifications
  \/ cr_init_param_notifications

Init ==
  /\ CoreInit
  /\ notify_list = AllOff
  /\ requested = <<>>
  /\ notify_count = 0
  /\ notify_index = 0
  /\ next_param = 1
  /\ received = <<>>

Next == cr_process \/ Application

Spec == Init /\ [][Next]_vars

-----------------------------------------------------------------------------
(* Properties.                                                             *)

(* The application presets parameters of the table, each of them once.      *)
(* Nothing checks it: cr_init_param_notifications copies the array.        *)
PresetIsSound ==
  /\ \A i \in DOMAIN Preset : Preset[i].parameter_id \in 0 .. NumParams
  /\ \A i, j \in DOMAIN Preset :
       Preset[i] # Off /\ Preset[j] # Off /\ Preset[i].parameter_id = Preset[j].parameter_id
         => i = j

Setup == [parameter_id: 0 .. NumParams, rate: Nat]

SetupResult == [result: {0}, has_result_message: BOOLEAN]

IsResponse(m) ==
  /\ m.tid \in Tid /\ m.classic \in BOOLEAN /\ m.remaining \in Nat
  /\ \/ m.type \in {"PING", "GET_DEVICE_INFO"} /\ m.body = 0
     \/ m.type \in {"PARAM_ENABLE_NOTIFY", "PARAM_DISABLE_NOTIFY"} /\ m.body \in SetupResult
     \/ m.type = "DISCOVER_NOTIFICATIONS" /\ m.body \in Seq(Setup)

IsNotification(m) == m.type \in {"ERROR_REPORT", "PARAMETER_NOTIFICATION"} /\ m.tid = 0

(* The variables keep their types; only parameters of the table are in the  *)
(* list of notifications.                                                  *)
TypeOK ==
  /\ connected \in BOOLEAN /\ key_valid \in BOOLEAN /\ classic \in BOOLEAN
  /\ key_presented \in BOOLEAN
  /\ prompt \in NotifyPrompts \cup {NoPrompt}
  /\ hdr \in Tid \cup {0}
  /\ owner \in [tid: Tid \cup {0}, classic: BOOLEAN]
  /\ continued_message_type \in {INVALID, "DISCOVER_NOTIFICATIONS"}
  /\ num_remaining_objects \in Nat
  /\ phase \in {"idle", "prompt", "hung"}
  /\ response_buffer = NoMessage \/ IsResponse(response_buffer)
  /\ notification_buffer = NoMessage \/ IsNotification(notification_buffer)
  /\ \A i \in DOMAIN sent :
       sent[i] = NoMessage \/ IsResponse(sent[i]) \/ IsNotification(sent[i])
  /\ notify_list \in [Slots -> Setup]
  /\ requested \in Lists \cup {<<>>}
  /\ notify_count \in Nat /\ notify_index \in Nat
  /\ next_param \in 1 .. NumParams + 1
  /\ received \in Seq(Setup)

(* Whatever was enabled, disabled and preset before, a parameter has at     *)
(* most one notification: a second one would notify twice and outlive      *)
(* being disabled.                                                         *)
OneSlotEach ==
  \A s, t \in Active(notify_list) :
    notify_list[s].parameter_id = notify_list[t].parameter_id => s = t

Of(list, id) == { list[s] : s \in { r \in Active(list) : list[r].parameter_id = id } }

(* This step handles a prompt of the given type.                           *)
Handles(type) == prompt.type = type /\ prompt' = NoPrompt /\ connected'

Named ==
  IF prompt.type = "PARAM_ENABLE_NOTIFY"
    THEN { prompt.arg.configs[i].parameter_id : i \in DOMAIN prompt.arg.configs }
    ELSE { prompt.arg.ids[i] : i \in DOMAIN prompt.arg.ids }

(* Enabling and disabling touch the parameters the prompt names and no      *)
(* others, unless all are to be disabled first: slots are found again       *)
(* whatever holes earlier prompts have left.                               *)
OnlyNamedChange ==
  [][ \/ Handles("PARAM_DISABLE_NOTIFY")
      \/ Handles("PARAM_ENABLE_NOTIFY") /\ ~prompt.arg.disable_all_first
      => \A id \in (1 .. NumParams) \ Named : Of(notify_list', id) = Of(notify_list, id) ]_vars

(* An enable that is answered without a result message has enabled every    *)
(* configuration, up to one that is all zero: none was lost for want of a   *)
(* slot.  (The last of several for one parameter counts.)                  *)
UnremarkedIsEnabled ==
  [][ Handles("PARAM_ENABLE_NOTIFY") /\ ~response_buffer'.body.has_result_message =>
        LET configs == UpToOff(prompt.arg.configs)
        IN  \A i \in DOMAIN configs :
              \/ Of(notify_list', configs[i].parameter_id) = {configs[i]}
              \/ \E j \in i + 1 .. Len(configs) :
                   configs[j].parameter_id = configs[i].parameter_id ]_vars

(* The last message of a discovery of everything: over all its messages the *)
(* client has got every notification that is enabled then, each once.      *)
DiscoveryIsComplete ==
  [][ \A m \in {response_buffer'} :
        sent' = <<m>> /\ m.type = "DISCOVER_NOTIFICATIONS" /\ m.remaining = 0
          /\ m.body # <<>> /\ requested' = <<>> =>
        /\ { received'[i] : i \in DOMAIN received' }
             = { notify_list'[s] : s \in Active(notify_list') }
        /\ Len(received') = Cardinality(Active(notify_list')) ]_vars

(* No call of cr_process lasts for ever: a client that asks for the         *)
(* configurations of some parameters is answered with those that have a    *)
(* notification enabled.                                                   *)
CallsReturn == phase # "hung"

=============================================================================
