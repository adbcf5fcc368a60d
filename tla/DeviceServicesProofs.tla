------------------------- MODULE DeviceServicesProofs -------------------------
(***************************************************************************)
(* Theorems of the WiFi service, the client's protocol version and the      *)
(* switches over the message type, for every build, every set of services  *)
(* with callbacks, every set of lists of access points and every message    *)
(* size.                                                                   *)
(***************************************************************************)
EXTENDS DeviceServices, ReachCoreProofs

CoreType ==
  /\ prompt \in DevicePrompts \cup BarePrompts \cup {NoPrompt}
  /\ continued_message_type \in {INVALID, "DISCOVER_WIFI", "DISCOVER_STREAMS"}
  /\ num_remaining_objects \in Nat
  /\ phase \in {"idle", "prompt", "stopped"}

DeviceType ==
  /\ device \in Devices
  /\ access_points \in Scans
  /\ wifi_index \in 0 .. 255
  /\ client_version \in [1 .. 3 -> 0 .. 255]
  /\ received \in Seq(Nat)
  /\ rescanned \in BOOLEAN

(* A call that goes on to the prompt has nothing continued any more.        *)
PromptPhase == phase = "prompt" => continued_message_type = INVALID

(* A valid key on a live link was presented on it.                          *)
KeyInv == connected /\ key_valid => key_presented

(* The discovery that is continued is one that the build can begin, and     *)
(* what it has sent and still owes is no more than the longest list.        *)
Owed ==
  continued_message_type = "DISCOVER_WIFI" =>
    /\ "WIFI" \in build
    /\ num_remaining_objects > 0
    /\ Len(received) > 0
    /\ Len(received) + num_remaining_objects <= MostAccessPoints

(* The index follows what has been sent, as long as the list is the same.   *)
IndexFollows ==
  continued_message_type = "DISCOVER_WIFI" /\ ~rescanned => wifi_index = Len(received)

DeviceInv ==
  /\ CoreType
  /\ DeviceType
  /\ PromptPhase
  /\ KeyInv
  /\ BareStartsNothing
  /\ Owed
  /\ IndexFollows
  /\ WifiAsListed

-----------------------------------------------------------------------------
(* What the steps do to the variables of the invariant.                     *)

(* A prompt is answered, refused or ignored; the list is not given out, and *)
(* nothing is begun.                                                       *)
AnswersPrompt ==
  /\ AtPrompt
  /\ continued_message_type' \in {continued_message_type, INVALID}
  /\ num_remaining_objects' \in Nat
  /\ prompt' = NoPrompt
  /\ phase' = "idle"
  /\ UNCHANGED <<link, deviceVars>>

BeginsStreams ==
  /\ AtPrompt
  /\ ~Bare
  /\ continued_message_type' = "DISCOVER_STREAMS"
  /\ num_remaining_objects' \in Nat
  /\ prompt' = NoPrompt
  /\ phase' = "idle"
  /\ UNCHANGED <<link, deviceVars>>

(* A continued transaction is dropped, and the call goes on.                *)
Drops ==
  /\ continued_message_type' = INVALID
  /\ num_remaining_objects' \in Nat
  /\ UNCHANGED <<link, prompt, deviceVars>>
  /\ phase' = "prompt"

(* The link goes up or down, access is taken away, a prompt is stored, or    *)
(* stream data is sent or stops the program.                               *)
Outside ==
  /\ \/ UNCHANGED link
     \/ key_valid' = FALSE
     \/ connected' = FALSE
  /\ \/ UNCHANGED <<continued_message_type, num_remaining_objects>>
     \/ continued_message_type' = INVALID /\ num_remaining_objects' = 0
  /\ prompt' \in {prompt} \cup DevicePrompts \cup BarePrompts
  /\ phase' \in {phase, "stopped"}
  /\ UNCHANGED deviceVars

Kinds ==
  \/ AnswersPrompt
  \/ BeginsStreams
  \/ Drops
  \/ Outside
  \/ device_info
  \/ discover_wifi_first
  \/ continue_discover_wifi
  \/ scan_access_points

LEMMA PromptFields ==
  ASSUME CoreType, prompt # NoPrompt
  PROVE  /\ prompt.more \in Nat
         /\ prompt \in BarePrompts => prompt.arg \in Nat
<1>1. prompt \in DevicePrompts \cup BarePrompts
  BY DEF CoreType
<1>2. CASE prompt \in DevicePrompts
  <2>1. prompt.more \in More
    BY <1>2 DEF DevicePrompts, Wire
  <2>2. prompt \in BarePrompts => prompt.arg \in Nat
    BY DEF BarePrompts, BareParameters, BareFiles, BareCommands, BareCli, Wire
  <2>3. QED BY <2>1, <2>2, CoreAssumption
<1>3. CASE prompt \in BarePrompts
  <2>1. prompt.more \in More /\ prompt.arg \in Nat
    BY <1>3 DEF BarePrompts, BareParameters, BareFiles, BareCommands, BareCli, Wire
  <2>2. QED BY <2>1, CoreAssumption
<1>4. QED BY <1>1, <1>2, <1>3

(* A prompt of these types is one that only a bare device gets.             *)
BareTypes ==
  {"DISCOVER_PARAMETERS", "DISCOVER_PARAM_EX", "READ_PARAMETERS", "WRITE_PARAMETERS",
   "PARAM_ENABLE_NOTIFY", "PARAM_DISABLE_NOTIFY", "DISCOVER_NOTIFICATIONS", "DISCOVER_FILES",
   "TRANSFER_INIT", "TRANSFER_DATA", "TRANSFER_DATA_NOTIFICATION", "ERASE_FILE",
   "DISCOVER_COMMANDS", "SEND_COMMAND", "CLI_NOTIFICATION"}

LEMMA BareArg ==
  ASSUME CoreType, prompt.type \in BareTypes PROVE prompt.arg \in Nat
<1>1. prompt # NoPrompt
  BY DEF NoPrompt, BareTypes
<1>2. prompt \notin DevicePrompts
  BY DEF DevicePrompts, Wire, BareTypes
<1>3. QED BY <1>1, <1>2, PromptFields DEF CoreType

(* A dispatched prompt that keeps or ends what is continued.                *)
LEMMA Answered ==
  ASSUME NEW type, Dispatch(type), num_remaining_objects' \in Nat,
         KeepContinued \/ EndContinued, UNCHANGED <<link, deviceVars>>
  PROVE  AnswersPrompt
  BY DEF AnswersPrompt, Dispatch, KeepContinued, EndContinued

LEMMA BareKinds ==
  ASSUME CoreType, BareHandlers, UNCHANGED deviceVars PROVE AnswersPrompt
<1> USE Answered DEF Decided, Respond, Fail, WeakParameters, WeakExtensions, WeakFiles,
        WeakCommands, WeakPreset
<1>1. CASE weak_discover_parameters
  <2>1. prompt.arg \in Nat
    BY <1>1, BareArg DEF weak_discover_parameters, Dispatch, BareTypes
  <2>2. QED BY <1>1, <2>1 DEF weak_discover_parameters
<1>2. CASE weak_discover_parameters_ex
  BY <1>2 DEF weak_discover_parameters_ex
<1>3. CASE weak_read_param
  BY <1>3 DEF weak_read_param
<1>4. CASE weak_write_param
  BY <1>4 DEF weak_write_param
<1>5. CASE weak_enable_notify
  BY <1>5 DEF weak_enable_notify
<1>6. CASE weak_disable_notify
  BY <1>6 DEF weak_disable_notify
<1>7. CASE weak_discover_notifications
  BY <1>7 DEF weak_discover_notifications
<1>8. CASE weak_discover_files
  BY <1>8 DEF weak_discover_files
<1>9. CASE weak_transfer_init
  BY <1>9 DEF weak_transfer_init
<1>10. CASE weak_transfer_data
  BY <1>10 DEF weak_transfer_data
<1>11. CASE weak_erase_file
  BY <1>11 DEF weak_erase_file
<1>12. CASE weak_discover_commands
  BY <1>12 DEF weak_discover_commands
<1>13. CASE weak_send_command
  BY <1>13 DEF weak_send_command
<1>14. CASE weak_cli_enter
  BY <1>14 DEF weak_cli_enter
<1>15. QED
  BY <1>1, <1>2, <1>3, <1>4, <1>5, <1>6, <1>7, <1>8, <1>9, <1>10, <1>11, <1>12, <1>13, <1>14,
     Zenon DEF BareHandlers

LEMMA ServiceKinds ==
  ASSUME CoreType, device \in Devices, cr_process PROVE Kinds
<1> USE Answered DEF Handle, Kinds
<1>1. CASE process_no_prompt /\ UNCHANGED deviceVars
  BY <1>1 DEF process_no_prompt, AnswersPrompt, CoreType, continued
<1>2. CASE device_info \/ discover_wifi_first \/ continue_discover_wifi
  BY <1>2
<1>3. CASE discover_wifi_denied
  BY <1>3 DEF discover_wifi_denied
<1>4. CASE discover_wifi_incomplete
  BY <1>4 DEF discover_wifi_incomplete, Answer, Respond
<1>5. CASE discover_wifi_failed
  BY <1>5 DEF discover_wifi_failed
<1>6. CASE continue_discover_wifi_denied
  BY <1>6 DEF continue_discover_wifi_denied, Drops, NoMoreData, EndContinued
<1>7. CASE handle_wifi_connect
  BY <1>7 DEF handle_wifi_connect, Respond
<1>8. CASE handle_time_get \/ handle_time_set
  BY <1>8 DEF handle_time_get, handle_time_set, handle_time, Respond
<1>9. CASE pvtCr_discover_streams
  <2>1. num_remaining_objects' \in Nat
    BY <1>9, DeviceAssumption
       DEF pvtCr_discover_streams, Respond, crcb_stream_get_count
  <2>2. CASE crcb_stream_get_count > REACH_COUNT_PARAM_READ_VALUES
    <3>1. ~Bare
      BY <2>2, DeviceAssumption DEF Bare, crcb_stream_get_count, Overridden
    <3>2. QED
      BY <1>9, <2>1, <2>2, <3>1
         DEF pvtCr_discover_streams, BeginContinued, BeginsStreams, Dispatch
  <2>3. CASE ~(crcb_stream_get_count > REACH_COUNT_PARAM_READ_VALUES)
    BY <1>9, <2>1, <2>3 DEF pvtCr_discover_streams
  <2>4. QED BY <2>2, <2>3
<1>10. CASE continue_unwritten
  BY <1>10 DEF continue_unwritten, Drops, NoMoreData, EndContinued, CoreType
<1>11. CASE pvtCr_open_stream \/ pvtCr_close_stream
  BY <1>11 DEF pvtCr_open_stream, pvtCr_close_stream, OpenOrClose, Respond
<1>12. CASE pvtCr_stream_receive_notification
  BY <1>12 DEF pvtCr_stream_receive_notification, Respond
<1>13. CASE handle_excluded_service
  <2>1. PICK type \in {"DISCOVER_WIFI", "WIFI_CONNECT", "GET_TIME", "SET_TIME",
                       "DISCOVER_STREAMS", "OPEN_STREAM", "CLOSE_STREAM",
                       "STREAM_DATA_NOTIFICATION"} : Dispatch(type)
    BY <1>13 DEF handle_excluded_service
  <2>2. prompt # NoPrompt
    BY <2>1 DEF Dispatch, NoPrompt
  <2>3. num_remaining_objects' \in Nat
    BY <1>13, <2>2, PromptFields DEF handle_excluded_service, CoreType
  <2>4. QED BY <1>13, <2>1, <2>3 DEF handle_excluded_service
<1>14. CASE BareHandlers /\ UNCHANGED deviceVars
  BY <1>14, BareKinds
<1>15. QED
  BY <1>1, <1>2, <1>3, <1>4, <1>5, <1>6, <1>7, <1>8, <1>9, <1>10, <1>11, <1>12, <1>13, <1>14,
     Zenon DEF cr_process

LEMMA ApplicationKinds == ASSUME CoreType, Application PROVE Kinds
<1> USE DEF Kinds
<1>1. CASE /\ \/ cr_store_coded_prompt(DevicePrompts)
              \/ cr_store_coded_prompt(BarePrompts)
           /\ UNCHANGED deviceVars
  BY <1>1 DEF cr_store_coded_prompt, Outside, continued
<1>2. CASE (set_connected \/ set_disconnected) /\ UNCHANGED deviceVars
  BY <1>2 DEF set_connected, set_disconnected, Outside, EndContinued, continued
<1>3. CASE scan_access_points
  BY <1>3
<1>4. CASE ~Bare /\ revoke_access /\ UNCHANGED deviceVars
  BY <1>4 DEF revoke_access, Outside, continued
<1>5. CASE \/ pvtCr_notify_stream \/ pvtCr_stream_send_notification
           \/ stream_send_no_text \/ stream_send_asserts
  BY <1>5 DEF pvtCr_notify_stream, pvtCr_stream_send_notification, stream_send_no_text,
     stream_send_asserts, StreamSent, SendsStream, Outside, continued
<1>6. QED BY <1>1, <1>2, <1>3, <1>4, <1>5 DEF Application

LEMMA EveryStep ==
  ASSUME CoreType, device \in Devices, [Next]_vars PROVE Kinds \/ UNCHANGED vars
  BY ServiceKinds, ApplicationKinds DEF Next

-----------------------------------------------------------------------------
(* Types.                                                                  *)

LEMMA ReadVersion ==
  ASSUME NEW version \in Seq(Nat) PROVE Parsed(version) \in [1 .. 3 -> 0 .. 255]
<1>1. \A i \in 1 .. 3 : i <= Len(version) => version[i] \in Nat
  <2> SUFFICES ASSUME NEW i \in 1 .. 3, i <= Len(version) PROVE version[i] \in Nat
    OBVIOUS
  <2>1. i \in 1 .. Len(version)
    BY LenProperties
  <2>2. QED BY <2>1, ElementOfSeq
<1>2. \A n \in Nat : n % 256 \in 0 .. 255
  OBVIOUS
<1>3. \A i \in 1 .. 3 : (IF i <= Len(version) THEN version[i] % 256 ELSE 0) \in 0 .. 255
  <2> SUFFICES ASSUME NEW i \in 1 .. 3
               PROVE  (IF i <= Len(version) THEN version[i] % 256 ELSE 0) \in 0 .. 255
    OBVIOUS
  <2>1. CASE i <= Len(version)
    <3>1. version[i] % 256 \in 0 .. 255
      BY <1>1, <1>2, <2>1
    <3>2. QED BY <2>1, <3>1
  <2>2. CASE ~(i <= Len(version))
    BY <2>2
  <2>3. QED BY <2>1, <2>2
<1>4. QED BY <1>3 DEF Parsed

LEMMA VersionPrompt ==
  ASSUME CoreType, Dispatch("GET_DEVICE_INFO") PROVE prompt.arg.version \in Seq(Nat)
<1>1. prompt.type = "GET_DEVICE_INFO"
  BY DEF Dispatch
<1>2. prompt # NoPrompt /\ prompt \notin BarePrompts
  BY <1>1 DEF NoPrompt, BarePrompts, BareParameters, BareFiles, BareCommands, BareCli, Wire
<1>3. prompt.arg \in [version: Versions]
  BY <1>1, <1>2 DEF CoreType, DevicePrompts, Wire
<1>4. QED BY <1>3, DeviceAssumption

LEMMA SendsType ==
  ASSUME DeviceType, NEW index \in Nat, NEW num \in Nat
  PROVE  /\ Fetched(index) \in 0 .. Smaller(MostAccessPoints, REACH_WIFI_AP_IN_DISCOVER)
         /\ LeftAfter(num) \in Nat
         /\ LeftAfter(num) = num - Smaller(num, REACH_WIFI_AP_IN_DISCOVER)
         /\ Listed(index, num) \in Seq(Nat)
         /\ Len(Listed(index, num)) = Smaller(num, REACH_WIFI_AP_IN_DISCOVER)
<1> DEFINE points == Len(access_points)
           n      == Smaller(num, REACH_WIFI_AP_IN_DISCOVER)
<1>1. access_points \in Seq(Nat \ {0}) /\ access_points \in Seq(Nat)
      /\ points \in 0 .. MostAccessPoints /\ MostAccessPoints \in Nat
  BY DeviceAssumption, LenProperties DEF DeviceType
<1>2. REACH_WIFI_AP_IN_DISCOVER \in Nat \ {0}
  BY DeviceAssumption
<1>3. /\ Fetched(index) \in 0 .. Smaller(MostAccessPoints, REACH_WIFI_AP_IN_DISCOVER)
      /\ Fetched(index) > 0 => index + Fetched(index) <= points
  BY <1>1, <1>2 DEF Fetched, Smaller
<1>4. LeftAfter(num) \in Nat /\ LeftAfter(num) = num - n /\ n \in Nat
  BY <1>2 DEF LeftAfter, Smaller
<1>5. \A i \in 1 .. n : i <= Fetched(index) => access_points[index + i] \in Nat
  <2> SUFFICES ASSUME NEW i \in 1 .. n, i <= Fetched(index) PROVE access_points[index + i] \in Nat
    OBVIOUS
  <2>1. index + i \in 1 .. points
    BY <1>1, <1>2, <1>3, <1>4 DEF Smaller
  <2>2. QED BY <1>1, <2>1, ElementOfSeq
<1>6. Listed(index, num) \in [1 .. n -> Nat]
  BY <1>5 DEF Listed, Blank
<1>7. Listed(index, num) \in Seq(Nat)
  BY <1>4, <1>6, SeqDef
<1>8. Len(Listed(index, num)) = n
  BY <1>4, <1>6, <1>7, LenProperties
<1>9. QED BY <1>3, <1>4, <1>7, <1>8

(* What fits in the 8 bits of the index.                                    *)
LEMMA EightBits ==
  /\ \A k \in Nat : k % 256 \in 0 .. 255
  /\ \A k \in 0 .. 255 : k % 256 = k
  OBVIOUS

LEMMA TypeStep ==
  ASSUME CoreType, DeviceType, Kinds PROVE CoreType' /\ DeviceType'
<1>1. CASE AnswersPrompt
  BY <1>1 DEF AnswersPrompt, CoreType, DeviceType, deviceVars
<1>2. CASE BeginsStreams
  BY <1>2 DEF BeginsStreams, CoreType, DeviceType, deviceVars
<1>3. CASE Drops
  BY <1>3 DEF Drops, CoreType, DeviceType, deviceVars
<1>4. CASE Outside
  <2>1. CoreType'
    BY <1>4 DEF Outside, CoreType
  <2>2. DeviceType'
    BY <1>4 DEF Outside, DeviceType, deviceVars
  <2>3. QED BY <2>1, <2>2
<1>5. CASE device_info
  <2>1. /\ Dispatch("GET_DEVICE_INFO") /\ KeepContinued /\ num_remaining_objects' = 0
        /\ client_version' = Parsed(prompt.arg.version)
        /\ UNCHANGED <<device, access_points, wifi_index, received, rescanned>>
    BY <1>5 DEF device_info, handle_get_device_info, Respond
  <2>2. client_version' \in [1 .. 3 -> 0 .. 255]
    BY <2>1, VersionPrompt, ReadVersion
  <2>3. CoreType'
    BY <2>1 DEF CoreType, Dispatch, KeepContinued
  <2>4. QED BY <2>1, <2>2, <2>3, Zenon DEF DeviceType
<1>6. CASE discover_wifi_first
  <2> DEFINE num == Len(access_points)
  <2>1. num \in Nat /\ 0 \in Nat
    BY DeviceAssumption, LenProperties DEF DeviceType
  <2>2. /\ wifi_index' = Fetched(0) % 256 /\ num_remaining_objects' = LeftAfter(num)
        /\ received' = Listed(0, num) /\ rescanned' = FALSE
        /\ Dispatch("DISCOVER_WIFI")
        /\ continued_message_type' \in {"DISCOVER_WIFI", continued_message_type}
        /\ UNCHANGED <<device, access_points, client_version>>
    BY <1>6 DEF discover_wifi_first, Handle, Answer, Respond, BeginContinued, KeepContinued
  <2>3. Fetched(0) \in Nat /\ LeftAfter(num) \in Nat /\ Listed(0, num) \in Seq(Nat)
    BY <2>1, SendsType, DeviceAssumption DEF Smaller
  <2>4. CoreType'
    BY <2>2, <2>3 DEF CoreType, Dispatch
  <2>5. wifi_index' \in 0 .. 255
    BY <2>2, <2>3, EightBits
  <2>6. QED BY <2>2, <2>3, <2>4, <2>5, Zenon DEF DeviceType
<1>7. CASE continue_discover_wifi
  <2> DEFINE num == num_remaining_objects
             entries == Listed(wifi_index, num)
  <2>1. /\ wifi_index' = (wifi_index + Fetched(wifi_index)) % 256
        /\ num_remaining_objects' = LeftAfter(num)
        /\ received' = received \o entries
        /\ continued_message_type' \in {INVALID, continued_message_type}
        /\ UNCHANGED <<prompt, phase, device, access_points, client_version, rescanned>>
    BY <1>7 DEF continue_discover_wifi, Continue, EndContinued, KeepContinued
  <2>2. wifi_index \in Nat /\ num \in Nat
    BY DEF CoreType, DeviceType
  <2>3. Fetched(wifi_index) \in Nat /\ LeftAfter(num) \in Nat /\ entries \in Seq(Nat)
    <3>1. /\ Fetched(wifi_index) \in 0 .. Smaller(MostAccessPoints, REACH_WIFI_AP_IN_DISCOVER)
          /\ LeftAfter(num) \in Nat /\ entries \in Seq(Nat)
      BY <2>2, SendsType
    <3>2. QED BY <3>1
  <2>4. received' \in Seq(Nat)
    BY <2>1, <2>3, ConcatProperties DEF DeviceType
  <2>5. wifi_index' \in 0 .. 255
    <3>1. wifi_index + Fetched(wifi_index) \in Nat
      BY <2>2, <2>3
    <3>2. QED BY <2>1, <3>1, EightBits
  <2>6. CoreType'
    BY <2>1, <2>3 DEF CoreType
  <2>7. QED BY <2>1, <2>4, <2>5, <2>6, Zenon DEF DeviceType
<1>8. CASE scan_access_points
  BY <1>8 DEF scan_access_points, CoreType, DeviceType, continued
<1>9. QED BY <1>1, <1>2, <1>3, <1>4, <1>5, <1>6, <1>7, <1>8, Zenon DEF Kinds

-----------------------------------------------------------------------------
(* Who may get what.                                                       *)

LEMMA AccessStep ==
  ASSUME CoreType, DeviceType, PromptPhase, KeyInv, BareStartsNothing, Kinds
  PROVE  PromptPhase' /\ KeyInv' /\ BareStartsNothing'
<1> USE DEF PromptPhase, KeyInv, BareStartsNothing
<1>1. AtPrompt => continued_message_type = INVALID
  BY DEF AtPrompt
<1>2. device' = device
  BY DEF Kinds, AnswersPrompt, BeginsStreams, Drops, Outside, device_info, discover_wifi_first,
     continue_discover_wifi, scan_access_points, deviceVars
<1>3. Bare' <=> Bare
  BY <1>2 DEF Bare
<1>4. CASE AnswersPrompt
  BY <1>1, <1>3, <1>4 DEF AnswersPrompt, link
<1>5. CASE BeginsStreams
  BY <1>3, <1>5 DEF BeginsStreams, link
<1>6. CASE Drops
  BY <1>3, <1>6 DEF Drops, link
<1>7. CASE Outside
  BY <1>3, <1>7 DEF Outside, link
<1>8. CASE device_info
  BY <1>1, <1>3, <1>8 DEF device_info, handle_get_device_info, Dispatch, KeepContinued
<1>9. CASE discover_wifi_first
  <2>1. ~Bare
    BY <1>9 DEF discover_wifi_first, crcb_discover_wifi, Overridden, Bare
  <2>2. phase' = "idle" /\ UNCHANGED link
    BY <1>9 DEF discover_wifi_first, Handle, Dispatch
  <2>3. QED BY <1>3, <2>1, <2>2 DEF link
<1>10. CASE continue_discover_wifi
  <2>1. continued_message_type # INVALID /\ phase = "idle"
    BY <1>10 DEF continue_discover_wifi, AtContinued, INVALID
  <2>2. phase' = phase /\ UNCHANGED link
    BY <1>10 DEF continue_discover_wifi, Continue
  <2>3. QED BY <1>3, <2>1, <2>2 DEF link
<1>11. CASE scan_access_points
  BY <1>3, <1>11 DEF scan_access_points, link, continued
<1>12. QED
  BY <1>4, <1>5, <1>6, <1>7, <1>8, <1>9, <1>10, <1>11, Zenon DEF Kinds

(* Only the two handlers of the discovery give anything out, and both have  *)
(* asked for the access.                                                   *)
LEMMA GivenOut ==
  ASSUME KeyInv, BareStartsNothing, Kinds
  PROVE  received' = received \/ (key_valid /\ key_presented)
<1>1. CASE discover_wifi_first
  <2>1. crcb_access_granted /\ connected
    BY <1>1 DEF discover_wifi_first, Handle, Dispatch, AtPrompt
  <2>2. ~Bare
    BY <1>1 DEF discover_wifi_first, crcb_discover_wifi, Overridden, Bare
  <2>3. QED BY <2>1, <2>2 DEF crcb_access_granted, KeyInv
<1>2. CASE continue_discover_wifi
  <2>1. crcb_access_granted /\ connected /\ ~Bare
    BY <1>2 DEF continue_discover_wifi, AtContinued, BareStartsNothing, INVALID
  <2>2. QED BY <2>1 DEF crcb_access_granted, KeyInv
<1>3. CASE ~(discover_wifi_first \/ continue_discover_wifi)
  BY <1>3 DEF Kinds, AnswersPrompt, BeginsStreams, Drops, Outside, device_info,
     scan_access_points, deviceVars
<1>4. QED BY <1>1, <1>2, <1>3

-----------------------------------------------------------------------------
(* What has been listed.                                                   *)

LEMMA WifiIncluded ==
  ASSUME "DISCOVER_WIFI" \in decode_reach_payload(build) PROVE "WIFI" \in build
  BY DEF decode_reach_payload, DecodedBase, DecodedParameters, DecodedFiles, DecodedStreams,
     DecodedCommands, DecodedCli, DecodedTime, DecodedWifi, Included

LEMMA Prefix ==
  ASSUME NEW s \in Seq(Nat), NEW n \in 0 .. Len(s)
  PROVE  /\ SubSeq(s, 1, n) \in Seq(Nat)
         /\ Len(SubSeq(s, 1, n)) = n
         /\ \A i \in 1 .. n : SubSeq(s, 1, n)[i] = s[i]
<1>1. n \in Int /\ 1 \in Int /\ \A i \in 1 .. n : s[i] \in Nat
  BY LenProperties
<1>2. /\ SubSeq(s, 1, n) \in Seq(Nat)
      /\ Len(SubSeq(s, 1, n)) = IF 1 <= n THEN n - 1 + 1 ELSE 0
      /\ \A i \in 1 .. n - 1 + 1 : SubSeq(s, 1, n)[i] = s[1 + i - 1]
  BY <1>1, SubSeqProperties
<1>3. n \in Nat /\ n - 1 + 1 = n /\ (IF 1 <= n THEN n ELSE 0) = n
  BY LenProperties
<1>4. \A i \in 1 .. n : 1 + i - 1 = i
  OBVIOUS
<1>5. QED BY <1>2, <1>3, <1>4

(* The first message of a discovery of num access points.                   *)
LEMMA FirstMessage ==
  ASSUME DeviceType
  PROVE  LET num == Len(access_points)
             n   == Smaller(num, REACH_WIFI_AP_IN_DISCOVER)
         IN  /\ num \in 0 .. MostAccessPoints /\ n \in 0 .. num
             /\ LeftAfter(num) = num - n
             /\ Fetched(0) = n
             /\ Len(Listed(0, num)) = n
             /\ Listed(0, num) = SubSeq(access_points, 1, n)
<1> DEFINE num == Len(access_points)
           n   == Smaller(num, REACH_WIFI_AP_IN_DISCOVER)
<1>1. access_points \in Seq(Nat) /\ num \in 0 .. MostAccessPoints /\ MostAccessPoints \in Nat
  BY DeviceAssumption, LenProperties DEF DeviceType
<1>2. REACH_WIFI_AP_IN_DISCOVER \in Nat \ {0}
  BY DeviceAssumption
<1>3. n \in 0 .. num /\ num \in Nat /\ 0 \in Nat
  BY <1>1, <1>2 DEF Smaller
<1>4. Fetched(0) = n
  BY <1>1, <1>2 DEF Fetched, Smaller
<1>5. LeftAfter(num) = num - n /\ Listed(0, num) \in Seq(Nat) /\ Len(Listed(0, num)) = n
  BY <1>3, SendsType
<1>6. SubSeq(access_points, 1, n) \in Seq(Nat) /\ Len(SubSeq(access_points, 1, n)) = n
      /\ \A i \in 1 .. n : SubSeq(access_points, 1, n)[i] = access_points[i]
  BY <1>1, <1>3, Prefix
<1>7. \A i \in 1 .. n : Listed(0, num)[i] = access_points[i]
  BY <1>3, <1>4 DEF Listed
<1>8. Listed(0, num) = SubSeq(access_points, 1, n)
  BY <1>5, <1>6, <1>7, SeqEqual
<1>9. QED BY <1>1, <1>3, <1>4, <1>5, <1>8

(* A further message, when num are left after those that index counts.      *)
LEMMA NextMessage ==
  ASSUME DeviceType, NEW index \in Nat, NEW num \in Nat,
         index = Len(received), index + num = Len(access_points),
         received = SubSeq(access_points, 1, index)
  PROVE  LET n == Smaller(num, REACH_WIFI_AP_IN_DISCOVER)
         IN  /\ Fetched(index) = n
             /\ received \o Listed(index, num) = SubSeq(access_points, 1, index + n)
<1> DEFINE n     == Smaller(num, REACH_WIFI_AP_IN_DISCOVER)
           whole == SubSeq(access_points, 1, index + n)
           both  == received \o Listed(index, num)
<1>1. access_points \in Seq(Nat) /\ Len(access_points) \in Nat /\ received \in Seq(Nat)
  BY DeviceAssumption, LenProperties DEF DeviceType
<1>2. REACH_WIFI_AP_IN_DISCOVER \in Nat \ {0}
  BY DeviceAssumption
<1>3. n \in 0 .. num
  BY <1>2 DEF Smaller
<1>4. Fetched(index) = n
  BY <1>1, <1>2 DEF Fetched, Smaller
<1>5. Listed(index, num) \in Seq(Nat) /\ Len(Listed(index, num)) = n
  BY SendsType
<1>6. \A i \in 1 .. n : Listed(index, num)[i] = access_points[index + i]
  BY <1>3, <1>4 DEF Listed
<1>7. \A i \in 1 .. index : received[i] = access_points[i]
  <2>1. index \in 0 .. Len(access_points)
    BY <1>1
  <2>2. QED BY <1>1, <2>1, Prefix
<1>8. /\ both \in Seq(Nat) /\ Len(both) = index + n
      /\ \A i \in 1 .. index + n :
           both[i] = IF i <= index THEN received[i] ELSE Listed(index, num)[i - index]
  <2> DEFINE more == Listed(index, num)
  <2>1. more \in Seq(Nat) /\ Len(more) = n
    BY <1>5
  <2> HIDE DEF more, n
  <2>2. /\ received \o more \in Seq(Nat)
        /\ Len(received \o more) = Len(received) + Len(more)
        /\ \A i \in 1 .. Len(received) + Len(more) :
             (received \o more)[i] =
               IF i <= Len(received) THEN received[i] ELSE more[i - Len(received)]
    BY <1>1, <2>1, ConcatProperties
  <2>3. QED BY <2>1, <2>2 DEF more
<1>9. /\ whole \in Seq(Nat) /\ Len(whole) = index + n
      /\ \A i \in 1 .. index + n : whole[i] = access_points[i]
  <2>1. index + n \in 0 .. Len(access_points)
    BY <1>3
  <2>2. QED BY <1>1, <2>1, Prefix
<1> HIDE DEF both, whole, n
<1>10. \A i \in 1 .. index + n : both[i] = access_points[i]
  <2> SUFFICES ASSUME NEW i \in 1 .. index + n PROVE both[i] = access_points[i]
    OBVIOUS
  <2>1. CASE i <= index
    BY <1>7, <1>8, <2>1
  <2>2. CASE ~(i <= index)
    <3>1. i - index \in 1 .. n /\ index + (i - index) = i
      BY <1>3, <2>2
    <3>2. Listed(index, num)[i - index] = access_points[i]
      BY <1>6, <3>1
    <3>3. QED BY <1>8, <2>2, <3>2
  <2>3. QED BY <2>1, <2>2
<1>11. both = whole
  BY <1>8, <1>9, <1>10, SeqEqual
<1>12. QED BY <1>4, <1>11 DEF both, whole, n

(* What is owed, where the index is, and what the client has.               *)
Listing == Owed /\ IndexFollows /\ WifiAsListed

(* A step that gives nothing out leaves or ends what is continued.          *)
LEMMA QuietListing ==
  ASSUME DeviceType, Listing,
         \/ continued_message_type' # "DISCOVER_WIFI"
         \/ UNCHANGED <<continued_message_type, num_remaining_objects>>,
         UNCHANGED <<device, access_points, wifi_index, received, rescanned>>
  PROVE  Listing'
  BY DEF Listing, Owed, IndexFollows, WifiAsListed, build

LEMMA FirstListing ==
  ASSUME DeviceType, continued_message_type = INVALID, discover_wifi_first PROVE Listing'
<1> DEFINE num       == Len(access_points)
           n         == Smaller(num, REACH_WIFI_AP_IN_DISCOVER)
           remaining == LeftAfter(num)
           entries   == Listed(0, num)
<1>1. /\ num \in 0 .. MostAccessPoints /\ n \in 0 .. num
      /\ remaining = num - n
      /\ Fetched(0) = n
      /\ Len(entries) = n
      /\ entries = SubSeq(access_points, 1, n)
  BY FirstMessage
<1>2. /\ wifi_index' = Fetched(0) % 256 /\ num_remaining_objects' = remaining
      /\ received' = entries /\ rescanned' = FALSE
      /\ IF remaining > 0 THEN continued_message_type' = "DISCOVER_WIFI"
                          ELSE continued_message_type' = INVALID
      /\ UNCHANGED <<device, access_points>>
      /\ "DISCOVER_WIFI" \in decode_reach_payload(build)
  BY DEF discover_wifi_first, Handle, Answer, Respond, BeginContinued, KeepContinued
<1>3. "WIFI" \in build'
  BY <1>2, WifiIncluded DEF build
<1>4. remaining > 0 => n > 0
  BY <1>1, DeviceAssumption DEF Smaller
<1> HIDE DEF n, remaining, entries
<1>5. MostAccessPoints \in 0 .. 255
  BY DeviceAssumption
<1>6. Owed'
  BY <1>1, <1>2, <1>3, <1>4, <1>5 DEF Owed, INVALID
<1>7. IndexFollows'
  <2>1. n % 256 = n
    BY <1>1, <1>5
  <2>2. QED BY <1>1, <1>2, <2>1 DEF IndexFollows
<1>8. WifiAsListed'
  <2>1. received' = SubSeq(access_points', 1, Len(received'))
    BY <1>1, <1>2
  <2>2. continued_message_type' = "DISCOVER_WIFI"
          => Len(received') + num_remaining_objects' = Len(access_points')
    BY <1>1, <1>2
  <2>3. QED BY <2>1, <2>2 DEF WifiAsListed
<1>9. QED BY <1>6, <1>7, <1>8 DEF Listing

LEMMA NextListing ==
  ASSUME CoreType, DeviceType, Listing, continue_discover_wifi PROVE Listing'
<1> DEFINE num       == num_remaining_objects
           n         == Smaller(num, REACH_WIFI_AP_IN_DISCOVER)
           remaining == LeftAfter(num)
           entries   == Listed(wifi_index, num)
           had       == Len(received)
<1>1. /\ wifi_index' = (wifi_index + Fetched(wifi_index)) % 256
      /\ num_remaining_objects' = remaining
      /\ received' = received \o entries
      /\ continued_message_type = "DISCOVER_WIFI"
      /\ remaining = 0 => continued_message_type' = INVALID
      /\ UNCHANGED <<device, access_points, rescanned>>
  BY DEF continue_discover_wifi, AtContinued, Continue, EndContinued
<1>2. num \in Nat /\ num > 0 /\ wifi_index \in Nat /\ had \in Nat /\ had > 0
      /\ had + num <= MostAccessPoints /\ MostAccessPoints \in 0 .. 255 /\ "WIFI" \in build
  BY <1>1, LenProperties, DeviceAssumption DEF CoreType, DeviceType, Listing, Owed
<1>3. remaining \in Nat /\ remaining = num - n /\ entries \in Seq(Nat) /\ Len(entries) = n
  BY <1>2, SendsType
<1>4. n \in 0 .. num
  BY <1>2, DeviceAssumption DEF Smaller
<1> HIDE DEF n, remaining, entries
<1>5. Len(received') = had + n
  BY <1>1, <1>3, ConcatProperties DEF DeviceType
<1>6. Owed'
  <2>1. "WIFI" \in build'
    BY <1>1, <1>2 DEF build
  <2>2. continued_message_type' = "DISCOVER_WIFI" => num_remaining_objects' > 0
    BY <1>1, <1>3 DEF INVALID
  <2>3. Len(received') > 0 /\ Len(received') + num_remaining_objects' <= MostAccessPoints
    BY <1>1, <1>2, <1>3, <1>4, <1>5
  <2>4. QED BY <2>1, <2>2, <2>3 DEF Owed
<1>7. CASE rescanned
  BY <1>1, <1>6, <1>7 DEF Listing, IndexFollows, WifiAsListed
<1>8. CASE ~rescanned
  <2>1. /\ wifi_index = had
        /\ received = SubSeq(access_points, 1, had)
        /\ had + num = Len(access_points)
    BY <1>1, <1>2, <1>8 DEF Listing, IndexFollows, WifiAsListed
  <2>2. /\ Fetched(wifi_index) = n
        /\ received \o entries = SubSeq(access_points, 1, wifi_index + n)
    BY <1>2, <2>1, NextMessage DEF n, entries
  <2>3. IndexFollows'
    <3>1. had + n \in 0 .. 255
      <4>1. num \in Nat /\ had \in Nat /\ had + num <= 255
        BY <1>2
      <4> HIDE DEF had, num
      <4>2. QED BY <1>4, <4>1
    <3>2. (had + n) % 256 = had + n
      BY <3>1, EightBits
    <3>3. QED BY <1>1, <1>5, <2>1, <2>2, <3>2 DEF IndexFollows
  <2>4. received' = SubSeq(access_points', 1, Len(received'))
    BY <1>1, <1>5, <2>1, <2>2
  <2>5. Len(received') + num_remaining_objects' = Len(access_points')
    <3>1. n \in Nat /\ (had + n) + (num - n) = had + num
      BY <1>2, <1>4
    <3>2. Len(received') + num_remaining_objects' = had + num
      BY <1>1, <1>3, <1>5, <3>1
    <3>3. access_points' = access_points
      BY <1>1
    <3>4. QED BY <2>1, <3>2, <3>3
  <2>6. WifiAsListed'
    BY <2>4, <2>5 DEF WifiAsListed
  <2>7. QED BY <1>6, <2>3, <2>6 DEF Listing
<1>9. QED BY <1>7, <1>8

LEMMA ListingStep ==
  ASSUME CoreType, DeviceType, PromptPhase, Listing, Kinds PROVE Listing'
<1>1. AtPrompt => continued_message_type = INVALID
  BY DEF AtPrompt, PromptPhase
<1>2. CASE AnswersPrompt
  BY <1>1, <1>2, QuietListing DEF AnswersPrompt, deviceVars, INVALID
<1>3. CASE BeginsStreams
  BY <1>3, QuietListing DEF BeginsStreams, deviceVars
<1>4. CASE Drops
  BY <1>4, QuietListing DEF Drops, deviceVars, INVALID
<1>5. CASE Outside
  BY <1>5, QuietListing DEF Outside, deviceVars, INVALID
<1>6. CASE device_info
  BY <1>1, <1>6, QuietListing
     DEF device_info, handle_get_device_info, Dispatch, KeepContinued, INVALID
<1>7. CASE discover_wifi_first
  BY <1>1, <1>7, FirstListing DEF discover_wifi_first, Handle, Dispatch
<1>8. CASE continue_discover_wifi
  BY <1>8, NextListing
<1>9. CASE scan_access_points
  BY <1>9
     DEF scan_access_points, continued, Listing, Owed, IndexFollows, WifiAsListed, build
<1>10. QED BY <1>2, <1>3, <1>4, <1>5, <1>6, <1>7, <1>8, <1>9, Zenon DEF Kinds

-----------------------------------------------------------------------------
(* The invariant.                                                          *)

LEMMA InitDeviceInv == Init => DeviceInv
<1> SUFFICES ASSUME Init PROVE DeviceInv
  OBVIOUS
<1>1. CoreType
  BY DEF Init, CoreInit, CoreType
<1>2. received \in Seq(Nat) /\ access_points \in Scans /\ Len(received) = 0
  BY EmptySeq, DeviceAssumption DEF Init
<1>3. client_version \in [1 .. 3 -> 0 .. 255] /\ 0 \in 0 .. 255
  BY DEF Init
<1>4. DeviceType
  BY <1>2, <1>3 DEF Init, DeviceType
<1>5. QED
  BY <1>1, <1>2, <1>4 DEF Init, CoreInit, DeviceInv, PromptPhase, KeyInv, BareStartsNothing,
     Owed, IndexFollows, WifiAsListed, INVALID

LEMMA StutterDeviceInv == DeviceInv /\ UNCHANGED vars => DeviceInv'
  BY DEF DeviceInv, CoreType, DeviceType, PromptPhase, KeyInv, BareStartsNothing, Bare, Owed,
     IndexFollows, WifiAsListed, build, vars, coreVars, deviceVars, link, continued

LEMMA StepDeviceInv == DeviceInv /\ [Next]_vars => DeviceInv'
<1> SUFFICES ASSUME DeviceInv, [Next]_vars PROVE DeviceInv'
  OBVIOUS
<1>1. Kinds \/ UNCHANGED vars
  BY EveryStep DEF DeviceInv, DeviceType
<1>2. CASE Kinds
  <2>1. CoreType' /\ DeviceType'
    BY <1>2, TypeStep DEF DeviceInv
  <2>2. PromptPhase' /\ KeyInv' /\ BareStartsNothing'
    BY <1>2, AccessStep DEF DeviceInv
  <2>3. Listing'
    BY <1>2, ListingStep DEF DeviceInv, Listing
  <2>4. QED BY <2>1, <2>2, <2>3 DEF DeviceInv, Listing
<1>3. QED BY <1>1, <1>2, StutterDeviceInv

(* The inductive invariant holds in every reachable state.                  *)
THEOREM DeviceInvariance == Spec => []DeviceInv
  BY InitDeviceInv, StepDeviceInv, PTL DEF Spec

(* As long as the application's list is the same, handle_discover_wifi and  *)
(* its continuation give it out in order, each access point once, and       *)
(* announce what is missing.                                               *)
THEOREM AccessPointsAsListed == Spec => []WifiAsListed
<1>1. DeviceInv => WifiAsListed
  BY DEF DeviceInv
<1>2. QED BY <1>1, DeviceInvariance, PTL

(* handle_discover_wifi gives no access point to a client whose key was not *)
(* accepted on this connection, or has been taken back.                    *)
THEOREM AccessPointsNeedKey == Spec => WifiNeedsAccess
<1>1. DeviceInv /\ [Next]_vars =>
        [received' \in {received, <<>>} \/ (key_valid /\ key_presented)]_vars
  <2> SUFFICES ASSUME DeviceInv, [Next]_vars
               PROVE  \/ received' \in {received, <<>>} \/ (key_valid /\ key_presented)
                      \/ UNCHANGED vars
    OBVIOUS
  <2>1. Kinds \/ UNCHANGED vars
    BY EveryStep DEF DeviceInv, DeviceType
  <2>2. QED BY <2>1, GivenOut DEF DeviceInv
<1>2. QED BY <1>1, DeviceInvariance, PTL DEF Spec, WifiNeedsAccess

-----------------------------------------------------------------------------
(* The switches over the message type.                                     *)

LEMMA NotificationsNeedParameters ==
  ASSUME NEW b \in Build, "NOTIFY" \in b PROVE "PARAMETERS" \in b
  BY DEF Build

LEMMA HandledAreDecoded ==
  ASSUME NEW b \in Build PROVE handle_message(b) \subseteq decode_reach_payload(b)
<1> SUFFICES ASSUME NEW type \in handle_message(b) PROVE type \in decode_reach_payload(b)
  OBVIOUS
<1>1. CASE type \in HandledNotify(b)
  BY <1>1, NotificationsNeedParameters
     DEF HandledNotify, Included, decode_reach_payload, DecodedParameters
<1>2. CASE type \in HandledBase \cup HandledParameters(b) \cup HandledFiles(b)
                      \cup HandledStreams(b)
  BY <1>2 DEF HandledBase, HandledParameters, HandledFiles, HandledStreams, Included,
     decode_reach_payload, DecodedBase, DecodedParameters, DecodedFiles, DecodedStreams
<1>3. CASE type \in HandledCommands(b) \cup HandledCli(b) \cup HandledTime(b) \cup HandledWifi(b)
  BY <1>3 DEF HandledCommands, HandledCli, HandledTime, HandledWifi, Included,
     decode_reach_payload, DecodedCommands, DecodedCli, DecodedTime, DecodedWifi
<1>4. QED BY <1>1, <1>2, <1>3 DEF handle_message

LEMMA AnswersAreEncoded ==
  ASSUME NEW b \in Build, NEW type \in handle_message(b)
  PROVE  Answers(type, b) \subseteq encode_reach_payload(b)
<1>1. CASE type \in HandledBase
  BY <1>1 DEF HandledBase, Answers, encode_reach_payload, EncodedBase
<1>2. CASE type \in HandledParameters(b)
  <2>1. CASE type = "DISCOVER_NOTIFICATIONS" /\ "NOTIFY" \notin b
    BY <2>1 DEF Answers
  <2>2. CASE type = "DISCOVER_NOTIFICATIONS" /\ "NOTIFY" \in b
    BY <2>2 DEF Answers, encode_reach_payload, EncodedNotify, Included
  <2>3. CASE type # "DISCOVER_NOTIFICATIONS"
    BY <1>2, <2>3
       DEF HandledParameters, Included, Answers, encode_reach_payload, EncodedParameters
  <2>4. QED BY <2>1, <2>2, <2>3
<1>3. CASE type \in HandledNotify(b)
  BY <1>3 DEF HandledNotify, Included, Answers, encode_reach_payload, EncodedNotify
<1>4. CASE type \in HandledFiles(b)
  BY <1>4 DEF HandledFiles, Included, Answers, encode_reach_payload, EncodedFiles
<1>5. CASE type \in HandledStreams(b)
  BY <1>5 DEF HandledStreams, Included, Answers, encode_reach_payload, EncodedStreams
<1>6. CASE type \in HandledCommands(b)
  BY <1>6 DEF HandledCommands, Included, Answers, encode_reach_payload, EncodedCommands
<1>7. CASE type \in HandledCli(b)
  BY <1>7 DEF HandledCli, Included, Answers
<1>8. CASE type \in HandledTime(b)
  BY <1>8 DEF HandledTime, Included, Answers, encode_reach_payload, EncodedTime
<1>9. CASE type \in HandledWifi(b)
  BY <1>9 DEF HandledWifi, Included, Answers, encode_reach_payload, EncodedWifi
<1>10. QED
  BY <1>1, <1>2, <1>3, <1>4, <1>5, <1>6, <1>7, <1>8, <1>9 DEF handle_message

LEMMA NotificationsAreEncoded ==
  ASSUME NEW b \in Build
  PROVE  Notifications(b) \ encode_reach_payload(b)
           = IF "STREAMS" \in b /\ "CLI" \notin b THEN {"CLI_NOTIFICATION"} ELSE {}
<1>1. \A type \in Notifications(b) :
        type # "CLI_NOTIFICATION" \/ "CLI" \in b => type \in encode_reach_payload(b)
  BY DEF Notifications, Included, encode_reach_payload, EncodedBase, EncodedNotify,
     EncodedStreams, EncodedCli
<1>2. "CLI" \notin b => "CLI_NOTIFICATION" \notin encode_reach_payload(b)
  BY DEF Included, encode_reach_payload, EncodedBase, EncodedParameters, EncodedNotify,
     EncodedFiles, EncodedStreams, EncodedCommands, EncodedCli, EncodedTime, EncodedWifi
<1>3. "CLI" \notin b => ("CLI_NOTIFICATION" \in Notifications(b) <=> "STREAMS" \in b)
  BY DEF Notifications, Included
<1>4. QED BY <1>1, <1>2, <1>3

LEMMA ContinuedAreHandled ==
  ASSUME NEW b \in Build PROVE ContinuedHandled(b) \subseteq handle_message(b)
  BY DEF ContinuedHandled, Included, handle_message, HandledParameters, HandledCommands,
     HandledWifi, HandledFiles

LEMMA SwitchesAgreeAlways == TypesAgree
  BY HandledAreDecoded, AnswersAreEncoded, NotificationsAreEncoded, ContinuedAreHandled
     DEF TypesAgree

(* The decoder, the handlers, the continued handlers and the encoder agree  *)
(* in each of the builds but for one message, the stream data that          *)
(* pvtCr_stream_send_notification sends as a command line's, which a build  *)
(* with streams and no command line has no encoder for; and what            *)
(* handle_continued_transactions finds is something it has a handler for,   *)
(* or the discovery of streams.                                            *)
THEOREM ServicesAreComplete == Spec => []SwitchesAgree
<1>1. DeviceInv => SwitchesAgree
  <2> SUFFICES ASSUME DeviceInv PROVE SwitchesAgree
    OBVIOUS
  <2>1. continued_message_type \in {INVALID, "DISCOVER_WIFI", "DISCOVER_STREAMS"}
    BY DEF DeviceInv, CoreType
  <2>2. continued_message_type = "DISCOVER_WIFI" => "DISCOVER_WIFI" \in ContinuedHandled(build)
    BY DEF DeviceInv, Owed, ContinuedHandled, Included
  <2>3. QED BY <2>1, <2>2, SwitchesAgreeAlways DEF SwitchesAgree, DeviceInv
<1>2. QED BY <1>1, DeviceInvariance, PTL

-----------------------------------------------------------------------------
(* The client's protocol version.                                          *)

(* pvtCr_compare_proto_version compares with any version of three bytes.    *)
LEMMA CompareRanks ==
  ASSUME client_version \in [1 .. 3 -> 0 .. 255], NEW version \in [1 .. 3 -> 0 .. 255]
  PROVE  LET order    == pvtCr_compare_proto_version(version)
             distance == Rank(client_version) - Rank(version)
         IN  (order = 0 <=> distance = 0) /\ (order > 0 <=> distance > 0)
<1>1. \A i \in 1 .. 3 : client_version[i] \in 0 .. 255 /\ version[i] \in 0 .. 255
  OBVIOUS
<1>2. client_version = version <=> \A i \in 1 .. 3 : client_version[i] = version[i]
  OBVIOUS
<1>3. client_version = version <=>
        /\ client_version[1] = version[1]
        /\ client_version[2] = version[2]
        /\ client_version[3] = version[3]
  BY <1>2
<1>4. /\ client_version[1] \in 0 .. 255 /\ client_version[2] \in 0 .. 255
      /\ client_version[3] \in 0 .. 255
      /\ version[1] \in 0 .. 255 /\ version[2] \in 0 .. 255 /\ version[3] \in 0 .. 255
  BY <1>1
<1> DEFINE order    == pvtCr_compare_proto_version(version)
           distance == Rank(client_version) - Rank(version)
           a == client_version[1]
           b == client_version[2]
           c == client_version[3]
           x == version[1]
           y == version[2]
           z == version[3]
<1>5. order = IF a = x /\ b = y /\ c = z THEN 0
              ELSE IF a # x THEN IF a > x THEN 1 ELSE -1
              ELSE IF b # y THEN IF b > y THEN 1 ELSE -1
              ELSE IF c > z THEN 1 ELSE -1
  BY <1>3 DEF pvtCr_compare_proto_version
<1>6. distance = ((a * 256 + b) * 256 + c) - ((x * 256 + y) * 256 + z)
  BY Zenon DEF Rank
<1>7. /\ a \in 0 .. 255 /\ b \in 0 .. 255 /\ c \in 0 .. 255
      /\ x \in 0 .. 255 /\ y \in 0 .. 255 /\ z \in 0 .. 255
  BY <1>4
<1> HIDE DEF order, distance, a, b, c, x, y, z
<1>8. (order = 0 <=> distance = 0) /\ (order > 0 <=> distance > 0)
  <2>1. CASE a = x /\ b = y /\ c = z
    BY <1>5, <1>6, <1>7, <2>1
  <2>2. CASE a > x
    BY <1>5, <1>6, <1>7, <2>2
  <2>3. CASE a < x
    BY <1>5, <1>6, <1>7, <2>3
  <2>4. CASE a = x /\ b > y
    BY <1>5, <1>6, <1>7, <2>4
  <2>5. CASE a = x /\ b < y
    BY <1>5, <1>6, <1>7, <2>5
  <2>6. CASE a = x /\ b = y /\ c > z
    BY <1>5, <1>6, <1>7, <2>6
  <2>7. CASE a = x /\ b = y /\ c < z
    BY <1>5, <1>6, <1>7, <2>7
  <2>8. QED BY <1>7, <2>1, <2>2, <2>3, <2>4, <2>5, <2>6, <2>7
<1>9. QED BY <1>8 DEF order, distance

(* What is kept of the client's version, whatever was read of it, can be    *)
(* compared, and the comparison is the order of the versions.              *)
THEOREM VersionOrder == Spec => []VersionsAreOrdered
<1>1. DeviceInv => VersionsAreOrdered
  <2> SUFFICES ASSUME DeviceInv, NEW version \in [1 .. 3 -> {0, 1, 2}]
               PROVE  LET order    == pvtCr_compare_proto_version(version)
                          distance == Rank(client_version) - Rank(version)
                      IN  (order = 0 <=> distance = 0) /\ (order > 0 <=> distance > 0)
    BY DEF VersionsAreOrdered
  <2>1. version \in [1 .. 3 -> 0 .. 255]
    OBVIOUS
  <2>2. client_version \in [1 .. 3 -> 0 .. 255]
    BY DEF DeviceInv, DeviceType
  <2>3. QED BY <2>1, <2>2, CompareRanks
<1>2. QED BY <1>1, DeviceInvariance, PTL

-----------------------------------------------------------------------------
(* The refinement.                                                         *)

AbstractVars == <<1 .. Len(received), EntriesLeft>>

LEMMA QuietMaps ==
  ASSUME received' = received,
         \/ UNCHANGED <<continued_message_type, num_remaining_objects>>
         \/ continued_message_type # "DISCOVER_WIFI" /\ continued_message_type' # "DISCOVER_WIFI"
  PROVE  UNCHANGED AbstractVars
  BY DEF AbstractVars, EntriesLeft

(* What is dropped, or cut off by a reconnection, is abandoned.             *)
LEMMA DropMaps ==
  ASSUME CoreType, received' = received, continued_message_type' = INVALID
  PROVE  Discovery!Abandon \/ UNCHANGED AbstractVars
<1>1. EntriesLeft' = 0 /\ EntriesLeft \in Nat
  BY DEF EntriesLeft, CoreType, INVALID
<1>2. CASE EntriesLeft > 0
  BY <1>1, <1>2 DEF Discovery!Abandon
<1>3. CASE ~(EntriesLeft > 0)
  BY <1>1, <1>3 DEF AbstractVars
<1>4. QED BY <1>2, <1>3

LEMMA FirstMaps ==
  ASSUME DeviceType, continued_message_type = INVALID, discover_wifi_first
  PROVE  Discovery!Begin
<1> DEFINE num       == Len(access_points)
           n         == Smaller(num, REACH_WIFI_AP_IN_DISCOVER)
           remaining == LeftAfter(num)
<1>1. /\ num \in 0 .. MostAccessPoints /\ n \in 0 .. num
      /\ remaining = num - n
      /\ Len(Listed(0, num)) = n
  BY FirstMessage
<1>2. /\ num_remaining_objects' = remaining
      /\ received' = Listed(0, num)
      /\ IF remaining > 0 THEN continued_message_type' = "DISCOVER_WIFI"
                          ELSE continued_message_type' = INVALID
  BY DEF discover_wifi_first, Handle, Answer, Respond, BeginContinued, KeepContinued
<1>3. n = Discovery!InChunk(num)
  BY DEF Smaller, Discovery!InChunk
<1> HIDE DEF n, remaining
<1>4. EntriesLeft = 0
  BY DEF EntriesLeft, INVALID
<1>5. EntriesLeft' = num - n
  <2>1. MostAccessPoints \in Nat /\ num \in Nat /\ n \in Nat
    BY <1>1, DeviceAssumption
  <2>2. CASE remaining > 0
    BY <1>1, <1>2, <2>2 DEF EntriesLeft
  <2>3. CASE ~(remaining > 0)
    <3>1. remaining = 0
      BY <1>1, <2>1, <2>3
    <3>2. QED BY <1>1, <1>2, <3>1 DEF EntriesLeft, INVALID
  <2>4. QED BY <2>2, <2>3
<1>6. 1 .. Len(received') = 1 .. 0 + n
  BY <1>1, <1>2, DeviceAssumption
<1>7. Discovery!Deliver(0, num)
  BY <1>3, <1>5, <1>6 DEF Discovery!Deliver
<1>8. QED BY <1>1, <1>4, <1>7 DEF Discovery!Begin

LEMMA NextMaps ==
  ASSUME CoreType, DeviceType, Owed, continue_discover_wifi
  PROVE  Discovery!Proceed
<1> DEFINE num       == num_remaining_objects
           n         == Smaller(num, REACH_WIFI_AP_IN_DISCOVER)
           remaining == LeftAfter(num)
           entries   == Listed(wifi_index, num)
           had       == Len(received)
<1>1. /\ num_remaining_objects' = remaining
      /\ received' = received \o entries
      /\ continued_message_type = "DISCOVER_WIFI"
      /\ IF remaining = 0 THEN continued_message_type' = INVALID
                          ELSE continued_message_type' = "DISCOVER_WIFI"
  BY DEF continue_discover_wifi, AtContinued, Continue, EndContinued, KeepContinued
<1>2. num \in Nat /\ num > 0 /\ had \in Nat /\ wifi_index \in Nat
      /\ had + num <= MostAccessPoints /\ MostAccessPoints \in Nat
  BY <1>1, LenProperties, DeviceAssumption DEF CoreType, DeviceType, Owed
<1>3. remaining = num - n /\ entries \in Seq(Nat) /\ Len(entries) = n
  BY <1>2, SendsType
<1>4. n = Discovery!InChunk(num)
  BY DEF Smaller, Discovery!InChunk
<1> HIDE DEF n, remaining, entries
<1>5. Len(received') = had + n
  BY <1>1, <1>3, ConcatProperties DEF DeviceType
<1>6. EntriesLeft = num /\ EntriesLeft > 0
  BY <1>1, <1>2 DEF EntriesLeft
<1>7. EntriesLeft' = num - n
  BY <1>1, <1>3 DEF EntriesLeft, INVALID
<1>8. Discovery!Deliver(had, EntriesLeft)
  BY <1>4, <1>5, <1>6, <1>7 DEF Discovery!Deliver
<1>9. had \in 0 .. MostAccessPoints
  BY <1>2
<1>10. QED BY <1>6, <1>8, <1>9 DEF Discovery!Proceed

LEMMA StepMaps ==
  DeviceInv /\ [Next]_vars => [Discovery!DiscoveryNext]_AbstractVars
<1> SUFFICES ASSUME DeviceInv, [Next]_vars
             PROVE  Discovery!DiscoveryNext \/ UNCHANGED AbstractVars
  OBVIOUS
<1>1. Kinds \/ UNCHANGED vars
  BY EveryStep DEF DeviceInv, DeviceType
<1>2. CoreType /\ DeviceType /\ Owed /\ (AtPrompt => continued_message_type = INVALID)
  BY DEF DeviceInv, PromptPhase, AtPrompt
<1>3. CASE AnswersPrompt
  BY <1>2, <1>3, QuietMaps DEF AnswersPrompt, deviceVars, INVALID
<1>4. CASE BeginsStreams
  BY <1>2, <1>4, QuietMaps DEF BeginsStreams, deviceVars, INVALID
<1>5. CASE Drops
  BY <1>2, <1>5, DropMaps DEF Drops, deviceVars, Discovery!DiscoveryNext
<1>6. CASE Outside
  BY <1>2, <1>6, QuietMaps, DropMaps DEF Outside, deviceVars, Discovery!DiscoveryNext
<1>7. CASE device_info
  BY <1>2, <1>7, QuietMaps
     DEF device_info, handle_get_device_info, Dispatch, KeepContinued, INVALID
<1>8. CASE discover_wifi_first
  BY <1>2, <1>8, FirstMaps
     DEF discover_wifi_first, Handle, Dispatch, Discovery!DiscoveryNext
<1>9. CASE continue_discover_wifi
  BY <1>2, <1>9, NextMaps DEF Discovery!DiscoveryNext
<1>10. CASE scan_access_points
  BY <1>10, QuietMaps DEF scan_access_points, continued
<1>11. CASE UNCHANGED vars
  BY <1>11, QuietMaps DEF vars, coreVars, deviceVars, continued
<1>12. QED
  BY <1>1, <1>3, <1>4, <1>5, <1>6, <1>7, <1>8, <1>9, <1>10, <1>11, Zenon DEF Kinds

(* The discovery of access points, with scans that change the list under    *)
(* it, access that is taken away and reconnections, is a chunked discovery.  *)
THEOREM WifiRefinement == Spec => ImplementsDiscovery
<1>1. Init => Discovery!DiscoveryInit
  <2> SUFFICES ASSUME Init PROVE Discovery!DiscoveryInit
    OBVIOUS
  <2>1. Len(received) = 0
    BY EmptySeq DEF Init
  <2>2. 1 .. Len(received) = {}
    BY <2>1
  <2>3. QED BY <2>2 DEF Init, CoreInit, EntriesLeft, INVALID, Discovery!DiscoveryInit
<1>2. DeviceInv /\ [Next]_vars => [Discovery!DiscoveryNext]_(Discovery!discoveryVars)
  BY StepMaps DEF AbstractVars, Discovery!discoveryVars
<1>3. QED
  BY <1>1, <1>2, DeviceInvariance, PTL DEF Spec, ImplementsDiscovery, Discovery!DiscoverySpec

-----------------------------------------------------------------------------
(* The types of what is sent.                                              *)

(* The header is a client's, and only a bare device has prompts of the      *)
(* other services.                                                         *)
HeaderTypes ==
  /\ connected \in BOOLEAN /\ key_valid \in BOOLEAN /\ classic \in BOOLEAN
  /\ key_presented \in BOOLEAN
  /\ hdr \in Tid \cup {0}
  /\ owner \in [tid: Tid \cup {0}, classic: BOOLEAN]
  /\ continued_message_type # INVALID => hdr \in Tid
  /\ prompt.type \in BareTypes => Bare

BufferTypes ==
  /\ IsSendable(response_buffer) /\ IsSendable(notification_buffer)
  /\ \A i \in DOMAIN sent : IsSendable(sent[i])

SendInv == CoreType /\ DeviceType /\ Owed /\ HeaderTypes /\ BufferTypes

(* The step leaves messages in the buffers that can be sent, and sends such *)
(* messages.                                                               *)
Sends ==
  /\ IsSendable(response_buffer') /\ IsSendable(notification_buffer')
  /\ \A i \in DOMAIN sent' : IsSendable(sent'[i])

(* The types that a bare device answers with.                               *)
BareAnswered ==
  {"DISCOVER_PARAM_EX", "READ_PARAMETERS", "DISCOVER_NOTIFICATIONS", "DISCOVER_COMMANDS",
   "PARAM_ENABLE_NOTIFY", "PARAM_DISABLE_NOTIFY", "ERASE_FILE", "SEND_COMMAND"}

(* The types of this module's handlers.                                     *)
DeviceTypes ==
  {"DISCOVER_WIFI", "WIFI_CONNECT", "GET_TIME", "SET_TIME", "DISCOVER_STREAMS", "OPEN_STREAM",
   "CLOSE_STREAM", "STREAM_DATA_NOTIFICATION"}

(* The body that an answer of this type has.                                *)
FitsBody(type, body) ==
  \/ type = "DISCOVER_WIFI" /\ body \in WifiAnswer
  \/ type = "DISCOVER_STREAMS" /\ body \in Nat
  \/ type = "GET_DEVICE_INFO" /\ body = 0
  \/ type = "STREAM_DATA_NOTIFICATION" /\ body = "ZEROED"
  \/ /\ type \in {"WIFI_CONNECT", "GET_TIME", "SET_TIME", "OPEN_STREAM", "CLOSE_STREAM"}
     /\ body \in Codes
  \/ /\ Bare /\ body \in 0 .. 1
     /\ type \in {"DISCOVER_PARAM_EX", "READ_PARAMETERS", "DISCOVER_NOTIFICATIONS",
                  "DISCOVER_COMMANDS"}
  \/ /\ Bare /\ body \in {"NO_ERROR", "NOT_IMPLEMENTED"}
     /\ type \in {"PARAM_ENABLE_NOTIFY", "PARAM_DISABLE_NOTIFY", "ERASE_FILE", "SEND_COMMAND"}

(* The build can encode an answer of this type, and that is its body.       *)
Fits(type, body) == type \in encode_reach_payload(build) /\ FitsBody(type, body)

(* A type that is handled is answered with itself, and can be encoded.      *)
LEMMA HandledFit ==
  ASSUME device \in Devices, NEW type \in DeviceTypes, Handle(type)
  PROVE  type \in encode_reach_payload(build)
<1>1. build \in Build
  BY DeviceAssumption DEF build
<1>2. type \in handle_message(build)
  BY DEF Handle
<1>3. Answers(type, build) = {type}
  BY DEF Answers, DeviceTypes
<1>4. QED BY <1>1, <1>2, <1>3, AnswersAreEncoded

(* A discovery of access points is of a build that has them.                *)
LEMMA WifiFit ==
  ASSUME "WIFI" \in build PROVE "DISCOVER_WIFI" \in encode_reach_payload(build)
  BY DEF encode_reach_payload, EncodedWifi, Included

LEMMA BareFit ==
  ASSUME device \in Devices, Bare PROVE BareAnswered \subseteq encode_reach_payload(build)
<1>1. build = Services
  BY DeviceAssumption DEF build, Bare
<1>2. QED
  BY <1>1 DEF Services, BareAnswered, encode_reach_payload, EncodedParameters, EncodedNotify,
     EncodedFiles, EncodedCommands, Included

LEMMA SendsKept == ASSUME Sends, device' = device PROVE BufferTypes'
  BY DEF Sends, BufferTypes, IsSendable, IsNotification, IsAnswer, build, Bare

LEMMA Sendable ==
  ASSUME NEW type, NEW tid \in Tid, NEW format, NEW remaining \in Nat, NEW body,
         Fits(type, body)
  PROVE  IsSendable(Message(type, tid, format, remaining, body))
<1> DEFINE m == Message(type, tid, format, remaining, body)
<1>1. m.type = type /\ m.tid = tid /\ m.remaining = remaining /\ m.body = body
  BY DEF Message
<1> HIDE DEF m
<1>2. IsSendable(m)
  BY <1>1 DEF IsSendable, IsAnswer, Fits, FitsBody, BareAnswer
<1>3. QED BY <1>2 DEF m

LEMMA ReportIsSendable == \A code \in Errors : IsSendable(ErrorReport(code))
  BY DEF IsSendable, IsNotification, Notifications, ErrorReport, Message

LEMMA ReportSends ==
  ASSUME BufferTypes, NEW format, NEW codes \in Seq(Errors), NEW m, IsSendable(m),
         Report(format, codes, <<m>>)
  PROVE  IsSendable(notification_buffer') /\ \A i \in DOMAIN sent' : IsSendable(sent'[i])
<1>1. /\ \A i \in DOMAIN sent' :
            \/ sent'[i] = m
            \/ sent'[i] = notification_buffer
            \/ \E code \in Errors : sent'[i] = ErrorReport(code)
      /\ \/ notification_buffer' = notification_buffer
         \/ \E code \in Errors : notification_buffer' = ErrorReport(code)
  BY ReportedIs
<1>2. QED BY <1>1, ReportIsSendable DEF BufferTypes

LEMMA EncodeSends ==
  ASSUME BufferTypes, NEW type, NEW tid \in Tid, NEW format, NEW remaining, NEW body,
         Fits(type, body), NEW codes \in Seq(Errors),
         num_remaining_objects' = remaining, num_remaining_objects' \in Nat,
         Encode(type, tid, format, remaining, body, codes)
  PROVE  Sends
<1> DEFINE m == Message(type, tid, format, remaining, body)
<1>1. response_buffer' = m /\ Report(format, codes, <<m>>)
  BY DEF Encode
<1>2. IsSendable(m)
  BY Sendable
<1> HIDE DEF m
<1>3. QED BY <1>1, <1>2, ReportSends DEF Sends

LEMMA RespondSends ==
  ASSUME BufferTypes, prompt.tid \in Tid, NEW type, NEW remaining, NEW body, Fits(type, body),
         NEW codes \in Seq(Errors), num_remaining_objects' \in Nat,
         Respond(type, remaining, body, codes)
  PROVE  Sends
<1>1. PICK tid \in Tid : tid = prompt.tid
  OBVIOUS
<1>2. PICK format \in {prompt.classic} : TRUE
  OBVIOUS
<1>3. /\ num_remaining_objects' = remaining
      /\ Encode(type, tid, format, remaining, body, codes)
  BY <1>1, <1>2 DEF Respond
<1>4. QED BY <1>3, EncodeSends

LEMMA FailSends ==
  ASSUME BufferTypes, NEW codes \in Seq(Errors), NEW code \in Errors, Fail(codes, code)
  PROVE  Sends
<1>1. Append(codes, code) \in Seq(Errors)
  BY AppendProperties
<1>2. /\ Report(prompt.classic, Append(codes, code), <<response_buffer>>)
      /\ response_buffer' = response_buffer
  BY DEF Fail
<1>3. PICK format \in {prompt.classic}, m \in {response_buffer} : TRUE
  OBVIOUS
<1>4. PICK reported \in Seq(Errors) : reported = Append(codes, code)
  BY <1>1
<1>5. Report(format, reported, <<m>>) /\ m = response_buffer
  BY <1>2, <1>3, <1>4
<1>6. IsSendable(m)
  BY <1>5 DEF BufferTypes
<1>7. IsSendable(notification_buffer') /\ \A i \in DOMAIN sent' : IsSendable(sent'[i])
  BY <1>4, <1>5, <1>6, ReportSends
<1>8. QED BY <1>2, <1>5, <1>6, <1>7 DEF Sends

LEMMA SilentSends == ASSUME BufferTypes, Silent PROVE Sends
  BY DEF BufferTypes, Sends, Silent, buffers

(* A prompt that is dispatched has the client's header.                     *)
LEMMA DispatchHeader ==
  ASSUME SendInv, NEW type, type # "NONE", Dispatch(type),
         KeepContinued \/ EndContinued \/ \E t \in {"DISCOVER_WIFI", "DISCOVER_STREAMS"} : BeginContinued(t),
         connected' \in BOOLEAN, key_valid' \in BOOLEAN, key_presented' \in BOOLEAN
  PROVE  prompt.tid \in Tid /\ HeaderTypes'
<1>1. prompt \in DevicePrompts \cup BarePrompts
  BY DEF SendInv, CoreType, Dispatch, NoPrompt
<1>2. prompt.tid \in Tid /\ prompt.classic \in Formats
  <2>1. CASE prompt \in DevicePrompts
    BY <2>1 DEF DevicePrompts, Wire
  <2>2. CASE prompt \in BarePrompts
    BY <2>2 DEF BarePrompts, BareParameters, BareFiles, BareCommands, BareCli, Wire
  <2>3. QED BY <1>1, <2>1, <2>2
<1>3. prompt.classic \in BOOLEAN
  BY <1>2, CoreAssumption
<1>4. owner' \in [tid: Tid \cup {0}, classic: BOOLEAN]
  <2>1. CASE KeepContinued
    BY <2>1 DEF SendInv, HeaderTypes, KeepContinued
  <2>2. CASE EndContinued
    BY <2>2 DEF EndContinued, NoOwner
  <2>3. CASE \E t \in {"DISCOVER_WIFI", "DISCOVER_STREAMS"} : BeginContinued(t)
    <3>1. owner' = [tid |-> prompt.tid, classic |-> prompt.classic]
      BY <2>3 DEF BeginContinued
    <3>2. PICK format \in BOOLEAN, tid \in Tid : format = prompt.classic /\ tid = prompt.tid
      BY <1>2, <1>3
    <3>3. [tid |-> tid, classic |-> format] \in [tid: Tid \cup {0}, classic: BOOLEAN]
      OBVIOUS
    <3>4. QED BY <3>1, <3>2, <3>3
  <2>4. QED BY <2>1, <2>2, <2>3
<1>5. hdr' \in Tid /\ classic' \in BOOLEAN /\ prompt'.type \notin BareTypes
  BY <1>2, <1>3 DEF Dispatch, NoPrompt, BareTypes
<1>6. QED BY <1>2, <1>4, <1>5 DEF HeaderTypes

(* What the steps of the prompts and of the application keep.               *)
Typed == HeaderTypes' /\ Sends

LEMMA Answering ==
  ASSUME SendInv, num_remaining_objects' \in Nat, NEW type, type # "NONE", Dispatch(type),
         UNCHANGED link,
         KeepContinued \/ EndContinued \/ \E t \in {"DISCOVER_WIFI", "DISCOVER_STREAMS"} : BeginContinued(t),
         \/ Silent
         \/ \E codes \in Seq(Errors), code \in Errors : Fail(codes, code)
         \/ \E remaining, body : \E codes \in Seq(Errors) :
              Fits(type, body) /\ Respond(type, remaining, body, codes)
  PROVE  Typed
<1>1. BufferTypes
  BY DEF SendInv
<1>2. prompt.tid \in Tid /\ HeaderTypes'
  BY DispatchHeader DEF SendInv, HeaderTypes, link
<1>3. Sends
  BY <1>1, <1>2, SilentSends, FailSends, RespondSends
<1>4. QED BY <1>2, <1>3 DEF Typed

LEMMA AnsweringWith ==
  ASSUME SendInv, num_remaining_objects' \in Nat, NEW type, type # "NONE", Dispatch(type),
         UNCHANGED link,
         KeepContinued \/ EndContinued \/ \E t \in {"DISCOVER_WIFI", "DISCOVER_STREAMS"} : BeginContinued(t),
         NEW remaining, NEW body, Fits(type, body), Respond(type, remaining, body, <<>>)
  PROVE  Typed
<1>1. <<>> \in Seq(Errors)
  OBVIOUS
<1>2. QED BY <1>1, Answering

(* A list in a prompt of a bare device has one entry at most.               *)
LEMMA BareList ==
  ASSUME SendInv, prompt.type \in BareTypes
  PROVE  prompt.arg \in 0 .. 1
<1>1. prompt # NoPrompt
  BY DEF NoPrompt, BareTypes
<1>2. prompt \notin DevicePrompts
  BY DEF DevicePrompts, Wire, BareTypes
<1>3. prompt \in BarePrompts
  BY <1>1, <1>2 DEF SendInv, CoreType
<1>4. QED
  BY <1>3 DEF BarePrompts, BareParameters, BareFiles, BareCommands, BareCli, Wire

LEMMA BareSends ==
  ASSUME SendInv, num_remaining_objects' \in Nat, BareHandlers
  PROVE  Typed
<1> USE DEF Decided, WeakParameters, WeakExtensions, WeakFiles, WeakCommands, WeakPreset
<1>0. \A type : type \in BareTypes => type # "NONE"
  BY DEF BareTypes
<1>1. ASSUME NEW type \in BareTypes, Dispatch(type)
      PROVE  /\ Bare /\ prompt.arg \in 0 .. 1
             /\ BareAnswered \subseteq encode_reach_payload(build)
  <2>1. prompt.type \in BareTypes
    BY <1>1 DEF Dispatch
  <2>2. Bare
    BY <2>1 DEF SendInv, HeaderTypes
  <2>3. BareAnswered \subseteq encode_reach_payload(build)
    BY <2>2, BareFit DEF SendInv, DeviceType
  <2>4. QED BY <2>1, <2>2, <2>3, BareList
<1>2. CASE weak_discover_parameters
  <2>1. Dispatch("DISCOVER_PARAMETERS") /\ UNCHANGED link /\ EndContinued /\ Silent
    BY <1>2 DEF weak_discover_parameters
  <2>2. QED BY <2>1, Answering
<1>3. CASE weak_discover_parameters_ex
  <2>1. /\ Dispatch("DISCOVER_PARAM_EX") /\ UNCHANGED link /\ (EndContinued \/ KeepContinued)
        /\ Respond("DISCOVER_PARAM_EX", 0, 0, <<>>)
    BY <1>3 DEF weak_discover_parameters_ex
  <2>2. Fits("DISCOVER_PARAM_EX", 0)
    BY <1>1, <2>1 DEF Fits, FitsBody, BareTypes, BareAnswered
  <2>3. QED BY <2>1, <2>2, AnsweringWith
<1>4. CASE weak_read_param
  <2>1. /\ Dispatch("READ_PARAMETERS") /\ UNCHANGED link /\ EndContinued
        /\ Silent \/ Respond("READ_PARAMETERS", 0, prompt.arg, <<"NOT_IMPLEMENTED">>)
    BY <1>4 DEF weak_read_param
  <2>2. PICK body \in 0 .. 1 : body = prompt.arg
    BY <1>1, <2>1 DEF BareTypes
  <2>3. Fits("READ_PARAMETERS", body)
    BY <1>1, <2>1 DEF Fits, FitsBody, BareTypes, BareAnswered
  <2>4. Silent \/ Respond("READ_PARAMETERS", 0, body, <<"NOT_IMPLEMENTED">>)
    BY <2>1, <2>2
  <2>5. <<"NOT_IMPLEMENTED">> \in Seq(Errors)
    BY DEF Errors
  <2>6. QED BY <2>1, <2>3, <2>4, <2>5, Answering
<1>5. CASE weak_write_param
  <2>1. PICK code \in Errors :
          /\ Dispatch("WRITE_PARAMETERS") /\ UNCHANGED link /\ KeepContinued
          /\ Fail(<<code>>, code)
    BY <1>5 DEF weak_write_param, Errors
  <2>2. <<code>> \in Seq(Errors)
    BY DEF Errors
  <2>3. QED BY <2>1, <2>2, Answering
<1>6. CASE weak_enable_notify
  <2> DEFINE codes == [i \in 1 .. prompt.arg |-> "INVALID_PARAMETER"]
  <2>1. /\ Dispatch("PARAM_ENABLE_NOTIFY") /\ UNCHANGED link /\ KeepContinued
        /\ Respond("PARAM_ENABLE_NOTIFY", 0, "NO_ERROR", codes)
    BY <1>6 DEF weak_enable_notify
  <2>2. Fits("PARAM_ENABLE_NOTIFY", "NO_ERROR")
    BY <1>1, <2>1 DEF Fits, FitsBody, BareTypes, BareAnswered
  <2>3. codes \in Seq(Errors)
    <3>1. PICK n \in Nat : n = prompt.arg
      BY <1>1, <2>1 DEF BareTypes
    <3>2. [i \in 1 .. n |-> "INVALID_PARAMETER"] \in [1 .. n -> Errors]
      BY DEF Errors
    <3>3. [i \in 1 .. n |-> "INVALID_PARAMETER"] \in Seq(Errors)
      BY <3>2, SeqDef
    <3>4. QED BY <3>1, <3>3
  <2> HIDE DEF codes
  <2>4. QED BY <2>1, <2>2, <2>3, Answering
<1>7. CASE weak_disable_notify
  <2>1. /\ Dispatch("PARAM_DISABLE_NOTIFY") /\ UNCHANGED link /\ KeepContinued
        /\ Respond("PARAM_DISABLE_NOTIFY", 0, "NO_ERROR", <<>>)
    BY <1>7 DEF weak_disable_notify
  <2>2. Fits("PARAM_DISABLE_NOTIFY", "NO_ERROR")
    BY <1>1, <2>1 DEF Fits, FitsBody, BareTypes, BareAnswered
  <2>3. QED BY <2>1, <2>2, AnsweringWith
<1>8. CASE weak_discover_notifications
  <2>1. /\ Dispatch("DISCOVER_NOTIFICATIONS") /\ UNCHANGED link /\ EndContinued
        /\ Respond("DISCOVER_NOTIFICATIONS", 0, 0, <<>>)
    BY <1>8 DEF weak_discover_notifications
  <2>2. Fits("DISCOVER_NOTIFICATIONS", 0)
    BY <1>1, <2>1 DEF Fits, FitsBody, BareTypes, BareAnswered
  <2>3. QED BY <2>1, <2>2, AnsweringWith
<1>9. CASE weak_discover_files
  <2>1. Dispatch("DISCOVER_FILES") /\ UNCHANGED link /\ KeepContinued /\ Silent
    BY <1>9 DEF weak_discover_files
  <2>2. QED BY <2>1, Answering
<1>10. CASE weak_transfer_init
  <2>1. /\ Dispatch("TRANSFER_INIT") /\ UNCHANGED link /\ KeepContinued
        /\ Fail(<<"BAD_FILE">>, "NOT_IMPLEMENTED")
    BY <1>10 DEF weak_transfer_init
  <2>2. <<"BAD_FILE">> \in Seq(Errors) /\ "NOT_IMPLEMENTED" \in Errors
    BY DEF Errors
  <2>3. QED BY <2>1, <2>2, Answering
<1>11. CASE weak_transfer_data
  <2>1. PICK type \in {"TRANSFER_DATA", "TRANSFER_DATA_NOTIFICATION"} :
          /\ Dispatch(type) /\ UNCHANGED link /\ KeepContinued
          /\ Fail(<<"INVALID_STATE">>, "INVALID_STATE")
    BY <1>11 DEF weak_transfer_data
  <2>2. <<"INVALID_STATE">> \in Seq(Errors) /\ type # "NONE" /\ "INVALID_STATE" \in Errors
    BY DEF Errors
  <2>3. QED BY <2>1, <2>2, Answering
<1>12. CASE weak_erase_file
  <2>1. /\ Dispatch("ERASE_FILE") /\ UNCHANGED link /\ KeepContinued
        /\ Respond("ERASE_FILE", 0, "NOT_IMPLEMENTED", <<>>)
    BY <1>12 DEF weak_erase_file
  <2>2. Fits("ERASE_FILE", "NOT_IMPLEMENTED")
    BY <1>1, <2>1 DEF Fits, FitsBody, BareTypes, BareAnswered
  <2>3. QED BY <2>1, <2>2, AnsweringWith
<1>13. CASE weak_discover_commands
  <2>1. /\ Dispatch("DISCOVER_COMMANDS") /\ UNCHANGED link /\ KeepContinued
        /\ Respond("DISCOVER_COMMANDS", 0, 0, <<>>)
    BY <1>13 DEF weak_discover_commands
  <2>2. Fits("DISCOVER_COMMANDS", 0)
    BY <1>1, <2>1 DEF Fits, FitsBody, BareTypes, BareAnswered
  <2>3. QED BY <2>1, <2>2, AnsweringWith
<1>14. CASE weak_send_command
  <2>1. /\ Dispatch("SEND_COMMAND") /\ UNCHANGED link /\ KeepContinued
        /\ Respond("SEND_COMMAND", 0, "NOT_IMPLEMENTED", <<>>)
    BY <1>14 DEF weak_send_command
  <2>2. Fits("SEND_COMMAND", "NOT_IMPLEMENTED")
    BY <1>1, <2>1 DEF Fits, FitsBody, BareTypes, BareAnswered
  <2>3. QED BY <2>1, <2>2, AnsweringWith
<1>15. CASE weak_cli_enter
  <2>1. Dispatch("CLI_NOTIFICATION") /\ UNCHANGED link /\ KeepContinued /\ Silent
    BY <1>15 DEF weak_cli_enter
  <2>2. QED BY <2>1, Answering
<1>16. QED
  BY <1>2, <1>3, <1>4, <1>5, <1>6, <1>7, <1>8, <1>9, <1>10, <1>11, <1>12, <1>13, <1>14, <1>15,
     Zenon DEF BareHandlers

(* A continued transaction's message has the header of its prompt.          *)
LEMMA Continuing ==
  ASSUME SendInv, AtContinued("DISCOVER_WIFI"), UNCHANGED <<link, prompt, classic, hdr>>,
         continued_message_type' \in {continued_message_type, INVALID},
         KeepContinued \/ EndContinued, device' = device
  PROVE  hdr \in Tid /\ HeaderTypes'
<1>1. hdr \in Tid
  BY DEF SendInv, HeaderTypes, AtContinued, INVALID
<1>2. owner' \in [tid: Tid \cup {0}, classic: BOOLEAN]
  <2>1. CASE KeepContinued
    BY <2>1 DEF SendInv, HeaderTypes, KeepContinued
  <2>2. CASE EndContinued
    BY <2>2 DEF EndContinued, NoOwner
  <2>3. QED BY <2>1, <2>2
<1>3. (prompt.type \in BareTypes => Bare)'
  BY DEF SendInv, HeaderTypes, Bare
<1>4. (connected \in BOOLEAN /\ key_valid \in BOOLEAN /\ classic \in BOOLEAN
        /\ key_presented \in BOOLEAN /\ hdr \in Tid)'
  BY <1>1 DEF SendInv, HeaderTypes, link
<1>5. QED BY <1>1, <1>2, <1>3, <1>4 DEF HeaderTypes

LEMMA WifiSends ==
  ASSUME SendInv, num_remaining_objects' \in Nat,
         \/ discover_wifi_denied \/ discover_wifi_incomplete \/ discover_wifi_failed
         \/ discover_wifi_first \/ handle_wifi_connect
  PROVE  Typed
<1>0. \A type \in DeviceTypes : Handle(type) => type \in encode_reach_payload(build)
  BY HandledFit DEF SendInv, DeviceType
<1> USE DEF DeviceTypes
<1>1. CASE discover_wifi_denied
  <2>1. Dispatch("DISCOVER_WIFI") /\ UNCHANGED link /\ EndContinued /\ Silent
    BY <1>1 DEF discover_wifi_denied, Handle
  <2>2. QED BY <2>1, Answering
<1>2. CASE discover_wifi_incomplete
  <2> DEFINE body == [result |-> "NO_ERROR", entries |-> <<>>]
  <2>1. /\ Dispatch("DISCOVER_WIFI") /\ UNCHANGED link /\ KeepContinued
        /\ Respond("DISCOVER_WIFI", 0, body, <<>>)
    BY <1>2 DEF discover_wifi_incomplete, Handle, Answer
  <2>2. <<>> \in Seq(Nat) /\ "DISCOVER_WIFI" \in encode_reach_payload(build)
    BY <1>0, <1>2 DEF discover_wifi_incomplete
  <2>3. Fits("DISCOVER_WIFI", body)
    BY <2>2 DEF Fits, FitsBody, WifiAnswer
  <2> HIDE DEF body
  <2>4. QED BY <2>1, <2>3, AnsweringWith
<1>3. CASE discover_wifi_failed
  <2>1. /\ Dispatch("DISCOVER_WIFI") /\ UNCHANGED link /\ KeepContinued
        /\ Fail(<<>>, "NOT_IMPLEMENTED")
    BY <1>3 DEF discover_wifi_failed, Handle
  <2>2. <<>> \in Seq(Errors) /\ "NOT_IMPLEMENTED" \in Errors
    BY DEF Errors
  <2>3. QED BY <2>1, <2>2, Answering
<1>4. CASE discover_wifi_first
  <2> DEFINE num  == Len(access_points)
             body == [result |-> "NO_ERROR", entries |-> Listed(0, num)]
             left == LeftAfter(num)
  <2>1. /\ Dispatch("DISCOVER_WIFI") /\ UNCHANGED link
        /\ BeginContinued("DISCOVER_WIFI") \/ KeepContinued
        /\ Respond("DISCOVER_WIFI", left, body, <<>>)
    BY <1>4 DEF discover_wifi_first, Handle, Answer
  <2>2. num \in Nat /\ 0 \in Nat
    BY DeviceAssumption, LenProperties DEF SendInv, DeviceType
  <2>3. Listed(0, num) \in Seq(Nat) /\ "DISCOVER_WIFI" \in encode_reach_payload(build)
    BY <1>0, <1>4, <2>2, SendsType DEF SendInv, discover_wifi_first
  <2>4. Fits("DISCOVER_WIFI", body)
    BY <2>3 DEF Fits, FitsBody, WifiAnswer
  <2> HIDE DEF body, left
  <2>5. QED BY <2>1, <2>4, AnsweringWith
<1>5. CASE handle_wifi_connect
  <2>1. PICK result \in Codes :
          /\ Dispatch("WIFI_CONNECT") /\ UNCHANGED link /\ KeepContinued
          /\ Respond("WIFI_CONNECT", 0, result, <<>>)
    BY <1>5, DeviceAssumption DEF handle_wifi_connect, Handle, crcb_wifi_connection, Codes
  <2>2. Fits("WIFI_CONNECT", result)
    BY <1>0, <1>5 DEF handle_wifi_connect, Fits, FitsBody
  <2>3. QED BY <2>1, <2>2, AnsweringWith
<1>6. QED BY <1>1, <1>2, <1>3, <1>4, <1>5

LEMMA NextWifiSends ==
  ASSUME SendInv, num_remaining_objects' \in Nat, continue_discover_wifi PROVE Typed
<1> DEFINE body == [result |-> "NO_ERROR", entries |-> Listed(wifi_index, num_remaining_objects)]
           left == LeftAfter(num_remaining_objects)
<1>1. /\ AtContinued("DISCOVER_WIFI") /\ Continue("DISCOVER_WIFI", left, body)
  BY DEF continue_discover_wifi
<1>2. /\ Listed(wifi_index, num_remaining_objects) \in Seq(Nat)
      /\ "DISCOVER_WIFI" \in encode_reach_payload(build)
  <2>1. wifi_index \in Nat /\ num_remaining_objects \in Nat
    BY DEF SendInv, CoreType, DeviceType
  <2>2. "DISCOVER_WIFI" \in encode_reach_payload(build)
    BY <1>1, WifiFit DEF AtContinued, SendInv, Owed
  <2>3. QED BY <2>1, <2>2, SendsType DEF SendInv
<1>3. Fits("DISCOVER_WIFI", body)
  BY <1>2 DEF Fits, FitsBody, WifiAnswer
<1> HIDE DEF body, left
<1>4. /\ num_remaining_objects' = left /\ UNCHANGED <<link, prompt, classic, hdr>>
      /\ KeepContinued \/ EndContinued
      /\ continued_message_type' \in {continued_message_type, INVALID}
      /\ Encode("DISCOVER_WIFI", hdr, classic, left, body, <<>>)
      /\ device' = device
  BY <1>1 DEF Continue, KeepContinued, EndContinued, continue_discover_wifi
<1>5. hdr \in Tid /\ HeaderTypes'
  <2>1. hdr \in Tid /\ HeaderTypes'
    BY <1>1, <1>4, Continuing
  <2>2. QED BY <2>1
<1>6. Sends
  <2>1. PICK tid \in Tid, format \in {classic} : tid = hdr
    BY <1>5
  <2>2. Encode("DISCOVER_WIFI", tid, format, left, body, <<>>)
    BY <1>4, <2>1
  <2>3. <<>> \in Seq(Errors)
    OBVIOUS
  <2>4. QED BY <1>3, <1>4, <2>2, <2>3, EncodeSends DEF SendInv
<1>7. QED BY <1>5, <1>6 DEF Typed

LEMMA TimeAndStreamsSend ==
  ASSUME SendInv, num_remaining_objects' \in Nat,
         \/ handle_time_get \/ handle_time_set \/ pvtCr_discover_streams \/ pvtCr_open_stream
         \/ pvtCr_close_stream \/ pvtCr_stream_receive_notification
  PROVE  Typed
<1>0. \A type \in DeviceTypes : Handle(type) => type \in encode_reach_payload(build)
  BY HandledFit DEF SendInv, DeviceType
<1> USE DEF DeviceTypes
<1>1. CASE handle_time_get \/ handle_time_set
  <2>1. PICK type \in {"GET_TIME", "SET_TIME"} :
          /\ Handle(type) /\ Dispatch(type) /\ UNCHANGED link /\ KeepContinued
          /\ Silent \/ \E result \in Codes : Respond(type, 0, result, <<>>)
    BY <1>1, DeviceAssumption
       DEF handle_time_get, handle_time_set, handle_time, Handle, crcb_time_get, crcb_time_set,
           Codes
  <2>2. \A result \in Codes : Fits(type, result)
    BY <1>0, <2>1 DEF Fits, FitsBody
  <2>3. <<>> \in Seq(Errors) /\ type # "NONE"
    OBVIOUS
  <2>4. QED BY <2>1, <2>2, <2>3, Answering, AnsweringWith
<1>2. CASE pvtCr_discover_streams
  <2>1. /\ Dispatch("DISCOVER_STREAMS") /\ UNCHANGED link
        /\ BeginContinued("DISCOVER_STREAMS") \/ KeepContinued
        /\ \/ Silent
           \/ Fail(<<>>, "INVALID_PARAMETER")
           \/ Respond("DISCOVER_STREAMS", crcb_stream_get_count,
                      REACH_COUNT_STREAM_DESC_IN_RESPONSE, <<>>)
    BY <1>2 DEF pvtCr_discover_streams, Handle
  <2>2. Fits("DISCOVER_STREAMS", REACH_COUNT_STREAM_DESC_IN_RESPONSE)
    BY <1>0, <1>2, DeviceAssumption DEF pvtCr_discover_streams, Fits, FitsBody
  <2>3. <<>> \in Seq(Errors) /\ "INVALID_PARAMETER" \in Errors
    BY DEF Errors
  <2>4. PICK count \in {crcb_stream_get_count} : TRUE
    OBVIOUS
  <2>5. \/ Silent
        \/ Fail(<<>>, "INVALID_PARAMETER")
        \/ Respond("DISCOVER_STREAMS", count, REACH_COUNT_STREAM_DESC_IN_RESPONSE, <<>>)
    BY <2>1, <2>4
  <2>6. QED BY <2>1, <2>2, <2>3, <2>5, Answering
<1>3. CASE pvtCr_open_stream \/ pvtCr_close_stream
  <2>1. PICK type \in {"OPEN_STREAM", "CLOSE_STREAM"}, result \in Codes :
          /\ Handle(type) /\ Dispatch(type) /\ UNCHANGED link /\ KeepContinued
          /\ Respond(type, 0, result, <<>>)
    BY <1>3, DeviceAssumption
       DEF pvtCr_open_stream, pvtCr_close_stream, OpenOrClose, Handle, crcb_stream_open,
           crcb_stream_close, Codes
  <2>2. Fits(type, result) /\ type # "NONE"
    BY <1>0, <2>1 DEF Fits, FitsBody
  <2>3. QED BY <2>1, <2>2, AnsweringWith
<1>4. CASE pvtCr_stream_receive_notification
  <2>1. /\ Dispatch("STREAM_DATA_NOTIFICATION") /\ UNCHANGED link /\ KeepContinued
        /\ Respond("STREAM_DATA_NOTIFICATION", 0, "ZEROED", <<>>)
    BY <1>4 DEF pvtCr_stream_receive_notification, Handle
  <2>2. Fits("STREAM_DATA_NOTIFICATION", "ZEROED")
    BY <1>0, <1>4 DEF pvtCr_stream_receive_notification, Fits, FitsBody
  <2>3. QED BY <2>1, <2>2, AnsweringWith
<1>5. QED BY <1>1, <1>2, <1>3, <1>4

LEMMA DeviceInfoSends ==
  ASSUME SendInv, num_remaining_objects' \in Nat, device_info PROVE Typed
<1>1. /\ Dispatch("GET_DEVICE_INFO") /\ Respond("GET_DEVICE_INFO", 0, 0, <<>>)
      /\ KeepContinued /\ key_valid' \in BOOLEAN /\ key_presented' = key_valid'
      /\ connected' = connected
  BY DEF device_info, handle_get_device_info
<1>2. prompt.tid \in Tid /\ HeaderTypes'
  BY <1>1, DispatchHeader DEF SendInv, HeaderTypes
<1>3. Fits("GET_DEVICE_INFO", 0) /\ <<>> \in Seq(Errors)
  BY DEF Fits, FitsBody, encode_reach_payload, EncodedBase
<1>4. Sends
  BY <1>1, <1>2, <1>3, RespondSends DEF SendInv
<1>5. QED BY <1>2, <1>4 DEF Typed

(* A step that answers nothing and leaves the header of the prompt.         *)
Quiet ==
  /\ Silent
  /\ connected' \in BOOLEAN /\ key_valid' \in BOOLEAN /\ key_presented' \in BOOLEAN
  /\ UNCHANGED <<classic, hdr, device>>
  /\ \/ UNCHANGED <<continued_message_type, owner>>
     \/ continued_message_type' = INVALID /\ owner' = NoOwner
  /\ prompt'.type \in BareTypes => Bare

LEMMA QuietIsTyped == ASSUME SendInv, Quiet PROVE Typed
<1>1. owner' \in [tid: Tid \cup {0}, classic: BOOLEAN]
  <2>1. CASE UNCHANGED <<continued_message_type, owner>>
    BY <2>1 DEF SendInv, HeaderTypes
  <2>2. CASE owner' = NoOwner
    BY <2>2 DEF NoOwner
  <2>3. QED BY <2>1, <2>2 DEF Quiet
<1>2. (prompt.type \in BareTypes => Bare)'
  BY DEF Quiet, Bare
<1>3. (continued_message_type # INVALID => hdr \in Tid)'
  BY DEF SendInv, HeaderTypes, Quiet
<1>4. (connected \in BOOLEAN /\ key_valid \in BOOLEAN /\ classic \in BOOLEAN
        /\ key_presented \in BOOLEAN /\ hdr \in Tid \cup {0})'
  BY DEF SendInv, HeaderTypes, Quiet
<1>5. HeaderTypes'
  BY <1>1, <1>2, <1>3, <1>4 DEF HeaderTypes
<1>6. Sends
  BY SilentSends DEF SendInv, Quiet
<1>7. QED BY <1>5, <1>6 DEF Typed

LEMMA DropSends ==
  ASSUME SendInv, continue_discover_wifi_denied \/ continue_unwritten PROVE Typed
<1>1. /\ NoMoreData /\ EndContinued /\ device' = device
  BY DEF continue_discover_wifi_denied, continue_unwritten, deviceVars
<1>2. prompt'.type \in BareTypes => Bare
  BY <1>1 DEF SendInv, HeaderTypes, NoMoreData
<1>3. connected' \in BOOLEAN /\ key_valid' \in BOOLEAN /\ key_presented' \in BOOLEAN
  BY <1>1 DEF SendInv, HeaderTypes, NoMoreData, link
<1>4. Quiet
  BY <1>1, <1>2, <1>3 DEF NoMoreData, EndContinued, Quiet
<1>5. QED BY <1>4, QuietIsTyped

LEMMA ExcludedSends ==
  ASSUME SendInv, num_remaining_objects' \in Nat, handle_excluded_service PROVE Typed
<1>1. PICK type \in {"DISCOVER_WIFI", "WIFI_CONNECT", "GET_TIME", "SET_TIME", "DISCOVER_STREAMS",
                     "OPEN_STREAM", "CLOSE_STREAM", "STREAM_DATA_NOTIFICATION"} :
        /\ Dispatch(type) /\ UNCHANGED link /\ KeepContinued
        /\ Fail(<<"DECODING_FAILED">>, "DECODING_FAILED")
  BY DEF handle_excluded_service
<1>2. <<"DECODING_FAILED">> \in Seq(Errors) /\ "DECODING_FAILED" \in Errors /\ type # "NONE"
  BY DEF Errors
<1>3. QED BY <1>1, <1>2, Answering

LEMMA ProcessSends ==
  ASSUME SendInv, num_remaining_objects' \in Nat, cr_process PROVE Typed
<1>1. CASE process_no_prompt /\ UNCHANGED deviceVars
  <2>1. Silent /\ UNCHANGED <<link, prompt, classic, hdr, continued, deviceVars>>
    BY <1>1 DEF process_no_prompt
  <2>2. Quiet
    BY <2>1 DEF SendInv, HeaderTypes, Quiet, link, continued, deviceVars
  <2>3. QED BY <2>2, QuietIsTyped
<1>2. CASE device_info
  BY <1>2, DeviceInfoSends
<1>3. CASE \/ discover_wifi_denied \/ discover_wifi_incomplete \/ discover_wifi_failed
           \/ discover_wifi_first \/ handle_wifi_connect
  BY <1>3, WifiSends
<1>4. CASE continue_discover_wifi
  BY <1>4, NextWifiSends
<1>5. CASE continue_discover_wifi_denied \/ continue_unwritten
  BY <1>5, DropSends
<1>6. CASE \/ handle_time_get \/ handle_time_set \/ pvtCr_discover_streams \/ pvtCr_open_stream
           \/ pvtCr_close_stream \/ pvtCr_stream_receive_notification
  BY <1>6, TimeAndStreamsSend
<1>7. CASE handle_excluded_service
  BY <1>7, ExcludedSends
<1>8. CASE BareHandlers /\ UNCHANGED deviceVars
  BY <1>8, BareSends
<1>9. QED
  BY <1>1, <1>2, <1>3, <1>4, <1>5, <1>6, <1>7, <1>8, Zenon DEF cr_process

(* Sending stream data leaves the header alone.                             *)
LEMMA StreamHeader == ASSUME SendInv, SendsStream PROVE HeaderTypes' /\ IsSendable(response_buffer')
<1>1. /\ UNCHANGED <<link, prompt, classic, hdr, continued, device>>
      /\ response_buffer' = response_buffer
  BY DEF SendsStream, deviceVars
<1>2. HeaderTypes'
  BY <1>1 DEF SendInv, HeaderTypes, link, continued, Bare
<1>3. QED BY <1>1, <1>2 DEF SendInv, BufferTypes

LEMMA StreamIsSendable ==
  ASSUME "STREAMS" \in build
  PROVE  /\ IsSendable(Message("STREAM_DATA_NOTIFICATION", 0, FALSE, 0, "STREAM_DATA"))
         /\ IsSendable(Message("CLI_NOTIFICATION", 0, FALSE, 0,
                              IF "CLI" \in build THEN "TEXT" ELSE "UNDEFINED"))
  BY DEF IsSendable, IsNotification, Message, Notifications, Included

LEMMA NotifySends ==
  ASSUME SendInv, SendsStream, NEW type, NEW body, StreamSent(type, body),
         IsSendable(Message(type, 0, FALSE, 0, body))
  PROVE  Typed
<1>1. /\ \/ notification_buffer' = notification_buffer
         \/ notification_buffer' = Message(type, 0, FALSE, 0, body)
      /\ sent' = <<notification_buffer'>>
  BY DEF StreamSent
<1>2. IsSendable(notification_buffer')
  BY <1>1 DEF SendInv, BufferTypes
<1>3. PICK m \in {notification_buffer'} : sent' = <<m>>
  BY <1>1
<1>4. \A i \in DOMAIN sent' : sent'[i] = notification_buffer'
  <2>1. \A i \in DOMAIN <<m>> : <<m>>[i] = m
    OBVIOUS
  <2>2. QED BY <1>3, <2>1
<1>5. QED BY <1>2, <1>4, StreamHeader DEF Typed, Sends

LEMMA NoTextSends == ASSUME SendInv, stream_send_no_text PROVE Typed
<1>1. SendsStream /\ "ENCODING_FAILED" \in Errors
  BY DEF stream_send_no_text, Errors
<1>2. PICK codes \in Seq(Errors), m \in {ErrorReport("ENCODING_FAILED")} :
        Report(FALSE, codes, <<m>>)
  <2> DEFINE report == ErrorReport("ENCODING_FAILED")
             failed == <<"ENCODING_FAILED">>
  <2>1. failed \in Seq(Errors)
    BY <1>1
  <2>2. Report(FALSE, failed, <<report>>)
    BY DEF stream_send_no_text
  <2> HIDE DEF report, failed
  <2>3. QED BY <2>1, <2>2 DEF report
<1>3. IsSendable(m)
  BY <1>1, <1>2, ReportIsSendable
<1>4. IsSendable(notification_buffer') /\ \A i \in DOMAIN sent' : IsSendable(sent'[i])
  BY <1>2, <1>3, ReportSends DEF SendInv
<1>5. QED BY <1>1, <1>4, StreamHeader DEF Typed, Sends

LEMMA StreamSends ==
  ASSUME SendInv,
         \/ pvtCr_notify_stream \/ pvtCr_stream_send_notification
         \/ stream_send_no_text \/ stream_send_asserts
  PROVE  Typed
<1>1. CASE pvtCr_notify_stream
  <2>1. "STREAMS" \in build
    BY <1>1 DEF pvtCr_notify_stream, SendsStream
  <2>2. QED BY <1>1, <2>1, StreamIsSendable, NotifySends DEF pvtCr_notify_stream
<1>2. CASE pvtCr_stream_send_notification
  <2>1. "STREAMS" \in build
    BY <1>2 DEF pvtCr_stream_send_notification, SendsStream
  <2>2. QED BY <1>2, <2>1, StreamIsSendable, NotifySends DEF pvtCr_stream_send_notification
<1>3. CASE stream_send_no_text
  BY <1>3, NoTextSends
<1>4. CASE stream_send_asserts
  <2>1. SendsStream /\ Silent
    BY <1>4 DEF stream_send_asserts
  <2>2. QED BY <2>1, StreamHeader, SilentSends DEF SendInv, Typed
<1>5. QED BY <1>1, <1>2, <1>3, <1>4

LEMMA ApplicationSends ==
  ASSUME SendInv, Application PROVE Typed
<1>1. CASE cr_store_coded_prompt(DevicePrompts) /\ UNCHANGED deviceVars
  <2>1. /\ prompt' \in DevicePrompts /\ Silent
        /\ UNCHANGED <<link, classic, hdr, continued, deviceVars>>
    BY <1>1 DEF cr_store_coded_prompt
  <2>2. prompt'.type \notin BareTypes
    BY <2>1 DEF DevicePrompts, Wire, BareTypes
  <2>3. Quiet
    BY <2>1, <2>2 DEF SendInv, HeaderTypes, Quiet, link, continued, deviceVars
  <2>4. QED BY <2>3, QuietIsTyped
<1>2. CASE Bare /\ cr_store_coded_prompt(BarePrompts) /\ UNCHANGED deviceVars
  <2>1. Bare /\ Silent /\ UNCHANGED <<link, classic, hdr, continued, deviceVars>>
    BY <1>2 DEF cr_store_coded_prompt
  <2>2. Quiet
    BY <2>1 DEF SendInv, HeaderTypes, Quiet, link, continued, deviceVars
  <2>3. QED BY <2>2, QuietIsTyped
<1>3. CASE (set_connected \/ set_disconnected) /\ UNCHANGED deviceVars
  <2>1. Silent /\ UNCHANGED <<prompt, classic, hdr, deviceVars>>
    BY <1>3 DEF set_connected, set_disconnected
  <2>2. /\ connected' \in BOOLEAN /\ key_valid' \in BOOLEAN /\ key_presented' \in BOOLEAN
        /\ \/ UNCHANGED <<continued_message_type, owner>>
           \/ continued_message_type' = INVALID /\ owner' = NoOwner
    BY <1>3 DEF set_connected, set_disconnected, EndContinued, continued, SendInv, HeaderTypes
  <2>3. Quiet
    BY <2>1, <2>2 DEF SendInv, HeaderTypes, Quiet, deviceVars
  <2>4. QED BY <2>3, QuietIsTyped
<1>4. CASE scan_access_points \/ (~Bare /\ revoke_access /\ UNCHANGED deviceVars)
  <2>1. /\ Silent /\ UNCHANGED <<connected, key_presented, prompt, classic, hdr, continued, device>>
        /\ key_valid' \in BOOLEAN
    BY <1>4 DEF scan_access_points, revoke_access, link, deviceVars, SendInv, HeaderTypes
  <2>2. Quiet
    BY <2>1 DEF SendInv, HeaderTypes, Quiet, continued
  <2>3. QED BY <2>2, QuietIsTyped
<1>5. CASE \/ pvtCr_notify_stream \/ pvtCr_stream_send_notification
           \/ stream_send_no_text \/ stream_send_asserts
  BY <1>5, StreamSends
<1>6. QED BY <1>1, <1>2, <1>3, <1>4, <1>5 DEF Application

LEMMA SendInvInit == Init => SendInv
<1> SUFFICES ASSUME Init PROVE SendInv
  OBVIOUS
<1>1. CoreType /\ DeviceType /\ Owed
  BY InitDeviceInv DEF DeviceInv
<1>2. HeaderTypes
  BY DEF Init, CoreInit, HeaderTypes, NoOwner, NoPrompt, BareTypes, INVALID
<1>3. BufferTypes
  BY DEF Init, CoreInit, BufferTypes, IsSendable
<1>4. QED BY <1>1, <1>2, <1>3 DEF SendInv

LEMMA SendInvStep == DeviceInv /\ SendInv /\ [Next]_vars => SendInv'
<1> SUFFICES ASSUME DeviceInv, SendInv, [Next]_vars PROVE SendInv'
  OBVIOUS
<1>0. Owed'
  BY StepDeviceInv DEF DeviceInv
<1>1. CASE UNCHANGED vars
  <2>1. CoreType' /\ DeviceType'
    BY <1>1 DEF vars, coreVars, deviceVars, continued, SendInv, CoreType, DeviceType
  <2>2. HeaderTypes'
    BY <1>1 DEF vars, coreVars, deviceVars, continued, link, SendInv, HeaderTypes, Bare
  <2>3. Sends /\ device' = device
    BY <1>1 DEF vars, coreVars, deviceVars, buffers, SendInv, BufferTypes, Sends
  <2>4. BufferTypes'
    BY <2>3, SendsKept
  <2>5. QED BY <1>0, <2>1, <2>2, <2>4 DEF SendInv
<1>2. CASE Next
  <2>1. Kinds \/ UNCHANGED vars
    BY EveryStep DEF SendInv, DeviceType
  <2>2. CoreType' /\ DeviceType'
    <3>1. CASE Kinds
      BY <3>1, TypeStep DEF SendInv
    <3>2. CASE UNCHANGED vars
      BY <3>2 DEF vars, coreVars, deviceVars, continued, SendInv, CoreType, DeviceType
    <3>3. QED BY <2>1, <3>1, <3>2
  <2>3. num_remaining_objects' \in Nat
    BY <2>2 DEF CoreType
  <2>4. Typed
    BY <1>2, <2>3, ProcessSends, ApplicationSends DEF Next
  <2>5. device' = device
    <3>1. CASE Kinds
      BY <3>1 DEF Kinds, AnswersPrompt, BeginsStreams, Drops, Outside, device_info,
            discover_wifi_first, continue_discover_wifi, scan_access_points, deviceVars
    <3>2. CASE UNCHANGED vars
      BY <3>2 DEF vars, deviceVars
    <3>3. QED BY <2>1, <3>1, <3>2
  <2>6. BufferTypes'
    BY <2>4, <2>5, SendsKept DEF Typed
  <2>7. QED BY <1>0, <2>2, <2>4, <2>6 DEF SendInv, Typed
<1>3. QED BY <1>1, <1>2

(* The variables keep their types: in particular an answer is of a type     *)
(* that the build can encode, with the payload of that type, whichever      *)
(* handler wrote it and whatever callbacks the device has; so is what the   *)
(* stack sends of its own accord, but for the stream data that              *)
(* pvtCr_stream_send_notification sends, without a payload that is defined, *)
(* in a build without a command line; and what is continued has its         *)
(* client's header.                                                        *)
THEOREM DeviceTyped == Spec => []TypeOK
<1>1. SendInv => TypeOK
  BY DEF SendInv, CoreType, DeviceType, HeaderTypes, BufferTypes, TypeOK
<1>2. QED BY <1>1, SendInvInit, SendInvStep, DeviceInvariance, PTL DEF Spec

=============================================================================
