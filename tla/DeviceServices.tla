---------------------------- MODULE DeviceServices ----------------------------
(***************************************************************************)
(* The WiFi, time and stream services and the client's protocol version on *)
(* top of the core, in a build that includes any of the services.  The     *)
(* client sends the prompts of these services and asks for the device      *)
(* info; a prompt of a service that the build leaves out cannot be decoded. *)
(* What the core does with its other prompts is in the modules of the      *)
(* larger services, and in BareServices for a device that has no           *)
(* application for them: here, one that overrides nothing at all.           *)
(*                                                                         *)
(* The access points are the application's, which may scan for them, or    *)
(* take the access to them away, between any two calls of cr_process.  The  *)
(* callbacks that an application does not override are the weak ones of     *)
(* src/src/crcb_weak.c.                                                    *)
(***************************************************************************)
EXTENDS BareServices, FiniteSets

CONSTANTS
  Devices,                             (* builds, each with its number of  *)
                                       (*   streams and the services whose  *)
                                       (*   callbacks are overridden        *)
  Scans,                               (* lists of access points, as found *)
  MostAccessPoints,                    (* the length of the longest: the   *)
                                       (*   index into it has 8 bits       *)
  Results,                             (* what the application may answer  *)
  Versions,                            (* what can be read of the versions *)
                                       (*   that clients send              *)
  REACH_WIFI_AP_IN_DISCOVER,           (* access points in one message     *)
  REACH_COUNT_STREAM_DESC_IN_RESPONSE, (* streams in one message           *)
  REACH_COUNT_PARAM_READ_VALUES        (* streams before it is continued   *)

ASSUME DeviceAssumption ==
  /\ Devices \subseteq [build: Build, streams: Nat, overridden: SUBSET Services]
  /\ \A d \in Devices : d.overridden = {} => d.build = Services
  /\ <<>> \in Scans /\ Scans \subseteq Seq(Nat \ {0})
  /\ MostAccessPoints \in 0 .. 255 /\ \A scan \in Scans : Len(scan) <= MostAccessPoints
  /\ Results \subseteq {"NO_ERROR", "NOT_IMPLEMENTED"}
  /\ Versions \subseteq Seq(Nat)
  /\ REACH_WIFI_AP_IN_DISCOVER \in Nat \ {0}
  /\ REACH_COUNT_STREAM_DESC_IN_RESPONSE \in Nat \ {0}
  /\ REACH_COUNT_PARAM_READ_VALUES \in Nat

VARIABLES
  device,           (* the build and its streams; never changes            *)
  access_points,    (* the application's list                              *)
  wifi_index,       (* sCr_requested_WiFI_index                            *)
  client_version,   (* sClientProtocolVersion                              *)
  received,         (* history: access points the client has got in the    *)
                    (*   discovery begun last                              *)
  rescanned         (* history: the list has changed since it began        *)

deviceVars == <<device, access_points, wifi_index, client_version, received, rescanned>>
vars == <<coreVars, deviceVars>>

build == device.build

Blank == 0     (* a zeroed entry of the response's array                    *)

DevicePrompts ==
  Wire({"GET_DEVICE_INFO"}, [version: Versions])
    \cup Wire({"DISCOVER_WIFI", "WIFI_CONNECT", "GET_TIME", "SET_TIME", "DISCOVER_STREAMS",
               "OPEN_STREAM", "CLOSE_STREAM", "STREAM_DATA_NOTIFICATION"}, NoArgs)

Bare == device.overridden = {}

crcb_access_granted == Bare \/ key_valid

(* What an answer's result may be, and what is reported.                    *)
Codes == {"NO_ERROR", "CHALLENGE_FAILED", "NOT_IMPLEMENTED"}

Errors ==
  {"DECODING_FAILED", "ENCODING_FAILED", "NOT_IMPLEMENTED", "INVALID_PARAMETER",
   "WRITE_FAILED", "BAD_FILE", "INVALID_STATE"}

(* The handler of a prompt of this type, in a build that has it.           *)
Handle(type) ==
  /\ type \in decode_reach_payload(build) /\ type \in handle_message(build)
  /\ Dispatch(type)

-----------------------------------------------------------------------------
(* The application's callbacks: what each may return.                       *)

Overridden(service) == service \in device.overridden

crcb_time_get == IF Overridden("TIME") THEN Results ELSE {"NOT_IMPLEMENTED"}

crcb_time_set == IF Overridden("TIME") THEN Results ELSE {"NOT_IMPLEMENTED"}

crcb_discover_wifi ==
  IF Overridden("WIFI") THEN {"NO_ERROR", "INCOMPLETE", "NOT_IMPLEMENTED"}
  ELSE {"NOT_IMPLEMENTED"}

(* What it puts in the answer: the weak one leaves it zeroed.               *)
crcb_wifi_connection == IF Overridden("WIFI") THEN Results ELSE {"NO_ERROR"}

crcb_stream_get_count == IF Overridden("STREAMS") THEN device.streams ELSE 0

(* Streams that crcb_stream_discover_next gives.                            *)
Described == IF Overridden("STREAMS") THEN device.streams ELSE 0

crcb_stream_open == IF Overridden("STREAMS") THEN Results ELSE {"NOT_IMPLEMENTED"}

crcb_stream_close == IF Overridden("STREAMS") THEN Results ELSE {"NOT_IMPLEMENTED"}

-----------------------------------------------------------------------------
(* Device info: what is kept of the client's protocol version.             *)

(* Variant: the numbers are not cut to the 8 bits they are kept in.         *)
Unbounded(version) ==
  [i \in 1 .. 3 |-> IF i <= Len(version) THEN version[i] ELSE 0]

(* Of a version that cannot be read to its end the rest is 0: what the      *)
(* branch for such a version stores is overwritten.                         *)
Parsed(version) ==
  [i \in 1 .. 3 |-> IF i <= Len(version) THEN version[i] % 256 ELSE 0]

device_info ==
  /\ handle_get_device_info
  /\ client_version' = Parsed(prompt.arg.version)
  /\ UNCHANGED <<device, access_points, wifi_index, received, rescanned>>

(* Variant: a smaller minor version counts before the major ones are equal. *)
compare_each(version) ==
  IF client_version = version THEN 0
  ELSE IF \E i \in 1 .. 3 : client_version[i] > version[i] THEN 1 ELSE -1

pvtCr_compare_proto_version(version) ==
  LET By(i) == IF client_version[i] > version[i] THEN 1 ELSE -1
  IN  IF client_version = version THEN 0
      ELSE IF client_version[1] # version[1] THEN By(1)
      ELSE IF client_version[2] # version[2] THEN By(2)
      ELSE By(3)

-----------------------------------------------------------------------------
(* WiFi.                                                                   *)

Smaller(m, n) == IF m < n THEN m ELSE n

(* How many access points the loop fetches from the list, from index on.   *)
Fetched(index) ==
  IF index > Len(access_points) THEN 0
  ELSE Smaller(Len(access_points) - index, REACH_WIFI_AP_IN_DISCOVER)

(* Variant: the answer has what was fetched, not what was counted.          *)
OnlyFetched(index, num_ap) ==
  SubSeq(access_points, index + 1, index + Fetched(index))

(* The cd_count entries of the answer.  The count comes from num_ap: where  *)
(* fewer were fetched, the array is still zeroed.                          *)
Listed(index, num_ap) ==
  [i \in 1 .. Smaller(num_ap, REACH_WIFI_AP_IN_DISCOVER) |->
     IF i <= Fetched(index) THEN access_points[index + i] ELSE Blank]

LeftAfter(num_ap) ==
  IF num_ap <= REACH_WIFI_AP_IN_DISCOVER THEN 0 ELSE num_ap - REACH_WIFI_AP_IN_DISCOVER

Answer(remaining, entries) ==
  Respond("DISCOVER_WIFI", remaining, [result |-> "NO_ERROR", entries |-> entries], <<>>)

discover_wifi_denied ==
  /\ Handle("DISCOVER_WIFI")
  /\ ~crcb_access_granted
  /\ num_remaining_objects' = 0
  /\ EndContinued
  /\ Silent
  /\ UNCHANGED <<link, deviceVars>>

(* The application is still scanning: the answer is the zeroed buffer,      *)
(* whose result says that there is no error.                               *)
discover_wifi_incomplete ==
  /\ Handle("DISCOVER_WIFI")
  /\ crcb_access_granted
  /\ "INCOMPLETE" \in crcb_discover_wifi
  /\ Answer(0, <<>>)
  /\ KeepContinued
  /\ UNCHANGED <<link, deviceVars>>

discover_wifi_failed ==
  /\ Handle("DISCOVER_WIFI")
  /\ crcb_access_granted
  /\ "NOT_IMPLEMENTED" \in crcb_discover_wifi
  /\ num_remaining_objects' = 0
  /\ Fail(<<>>, "NOT_IMPLEMENTED")
  /\ KeepContinued
  /\ UNCHANGED <<link, deviceVars>>

discover_wifi_first ==
  /\ Handle("DISCOVER_WIFI")
  /\ crcb_access_granted
  /\ "NO_ERROR" \in crcb_discover_wifi
  /\ LET num_ap    == Len(access_points)
         remaining == LeftAfter(num_ap)
         entries   == Listed(0, num_ap)
     IN  /\ wifi_index' = Fetched(0) % 256
         /\ Answer(remaining, entries)
         /\ received' = entries
         /\ IF remaining > 0 THEN BeginContinued("DISCOVER_WIFI") ELSE KeepContinued
  /\ rescanned' = FALSE
  /\ UNCHANGED <<link, device, access_points, client_version>>

(* Variant: access is checked at the prompt only.                           *)
continue_discover_wifi_unchecked ==
  /\ AtContinued("DISCOVER_WIFI")
  /\ LET remaining == LeftAfter(num_remaining_objects)
         entries   == Listed(wifi_index, num_remaining_objects)
     IN  /\ Continue("DISCOVER_WIFI", remaining, [result |-> "NO_ERROR", entries |-> entries])
         /\ received' = received \o entries
  /\ wifi_index' = (wifi_index + Fetched(wifi_index)) % 256
  /\ UNCHANGED <<device, access_points, client_version, rescanned>>

(* Variant: the index goes on by a whole message.                           *)
continue_discover_wifi_from_start ==
  /\ AtContinued("DISCOVER_WIFI")
  /\ crcb_access_granted
  /\ LET remaining == LeftAfter(num_remaining_objects)
         entries   == Listed(0, num_remaining_objects)
     IN  /\ Continue("DISCOVER_WIFI", remaining, [result |-> "NO_ERROR", entries |-> entries])
         /\ received' = received \o entries
  /\ wifi_index' = (wifi_index + Fetched(0)) % 256
  /\ UNCHANGED <<device, access_points, client_version, rescanned>>

continue_discover_wifi ==
  /\ AtContinued("DISCOVER_WIFI")
  /\ crcb_access_granted
  /\ LET remaining == LeftAfter(num_remaining_objects)
         entries   == Listed(wifi_index, num_remaining_objects)
     IN  /\ Continue("DISCOVER_WIFI", remaining, [result |-> "NO_ERROR", entries |-> entries])
         /\ received' = received \o entries
  /\ wifi_index' = (wifi_index + Fetched(wifi_index)) % 256
  /\ UNCHANGED <<device, access_points, client_version, rescanned>>

(* The access has been taken away: there is no last message, and the call   *)
(* goes on to the prompt.                                                  *)
continue_discover_wifi_denied ==
  /\ AtContinued("DISCOVER_WIFI")
  /\ ~crcb_access_granted
  /\ NoMoreData
  /\ num_remaining_objects' = 0
  /\ EndContinued
  /\ UNCHANGED deviceVars

(* The result is what the application has put in the answer; its return     *)
(* value is not looked at.                                                 *)
handle_wifi_connect ==
  /\ Handle("WIFI_CONNECT")
  /\ \E result \in IF crcb_access_granted THEN crcb_wifi_connection
                ELSE {"CHALLENGE_FAILED"} :
       Respond("WIFI_CONNECT", 0, result, <<>>)
  /\ KeepContinued
  /\ UNCHANGED <<link, deviceVars>>

-----------------------------------------------------------------------------
(* Time.                                                                   *)

handle_time(type, results) ==
  /\ Handle(type)
  /\ IF crcb_access_granted
       THEN \E result \in results : Respond(type, 0, result, <<>>)
       ELSE num_remaining_objects' = 0 /\ Silent
  /\ KeepContinued
  /\ UNCHANGED <<link, deviceVars>>

handle_time_get == handle_time("GET_TIME", crcb_time_get)

handle_time_set == handle_time("SET_TIME", crcb_time_set)

-----------------------------------------------------------------------------
(* Streams.                                                                *)

(* All streams are announced as remaining, the ones in the message too; and *)
(* an array that is not filled is an error.                                *)
pvtCr_discover_streams ==
  /\ Handle("DISCOVER_STREAMS")
  /\ IF crcb_stream_get_count > REACH_COUNT_PARAM_READ_VALUES
       THEN BeginContinued("DISCOVER_STREAMS") ELSE KeepContinued
  /\ IF Described >= REACH_COUNT_STREAM_DESC_IN_RESPONSE
       THEN Respond("DISCOVER_STREAMS", crcb_stream_get_count,
                    REACH_COUNT_STREAM_DESC_IN_RESPONSE, <<>>)
       ELSE /\ num_remaining_objects' = 0
            /\ IF Described = 0 THEN Silent ELSE Fail(<<>>, "INVALID_PARAMETER")
  /\ UNCHANGED <<link, deviceVars>>

(* Variant: a type without a handler is left for the next call.             *)
continue_unwritten_later ==
  /\ continued_message_type \notin ContinuedHandled(build) \cup {INVALID}
  /\ AtContinued(continued_message_type)
  /\ NoMoreData
  /\ KeepContinued
  /\ UNCHANGED <<num_remaining_objects, deviceVars>>

(* The continued type has no handler: it is dropped, and the call goes on.  *)
continue_unwritten ==
  /\ continued_message_type \notin ContinuedHandled(build) \cup {INVALID}
  /\ AtContinued(continued_message_type)
  /\ NoMoreData
  /\ EndContinued
  /\ UNCHANGED <<num_remaining_objects, deviceVars>>

OpenOrClose(type, results) ==
  /\ Handle(type)
  /\ \E result \in results : Respond(type, 0, result, <<>>)
  /\ KeepContinued
  /\ UNCHANGED <<link, deviceVars>>

pvtCr_open_stream == OpenOrClose("OPEN_STREAM", crcb_stream_open)

pvtCr_close_stream == OpenOrClose("CLOSE_STREAM", crcb_stream_close)

(* There is no response, says the source; but it returns 0, and the zeroed  *)
(* buffer is answered.                                                     *)
pvtCr_stream_receive_notification ==
  /\ Handle("STREAM_DATA_NOTIFICATION")
  /\ Respond("STREAM_DATA_NOTIFICATION", 0, "ZEROED", <<>>)
  /\ KeepContinued
  /\ UNCHANGED <<link, deviceVars>>

(* The application sends stream data.                                       *)
SendsStream ==
  /\ Idle
  /\ connected
  /\ "STREAMS" \in build
  /\ UNCHANGED <<link, prompt, classic, hdr, continued, response_buffer, deviceVars>>

(* It is encoded as the given type; in classic format nothing is encoded,   *)
(* and what the buffer holds is sent.                                      *)
StreamSent(type, body) ==
  /\ notification_buffer' =
       IF classic THEN notification_buffer ELSE Message(type, 0, FALSE, 0, body)
  /\ sent' = <<notification_buffer'>>
  /\ UNCHANGED phase

pvtCr_notify_stream ==
  /\ SendsStream
  /\ StreamSent("STREAM_DATA_NOTIFICATION", "STREAM_DATA")

(* The data is encoded as a command line's, which is a text.  Where there is *)
(* no command line in the build, there is no encoder, and no error: the     *)
(* size of the payload is whatever the stack held.                         *)
pvtCr_stream_send_notification ==
  /\ SendsStream
  /\ StreamSent("CLI_NOTIFICATION", IF "CLI" \in build THEN "TEXT" ELSE "UNDEFINED")

(* Data that does not end in a zero is no text: that is reported, and the    *)
(* report is sent again in place of the data.                              *)
stream_send_no_text ==
  /\ SendsStream
  /\ "CLI" \in build /\ ~classic
  /\ Report(FALSE, <<"ENCODING_FAILED">>, <<ErrorReport("ENCODING_FAILED")>>)
  /\ UNCHANGED phase

(* Nothing has been encoded, and the assertion on the size of the payload    *)
(* stops the program.                                                      *)
stream_send_asserts ==
  /\ SendsStream
  /\ ~classic
  /\ phase' = "stopped"
  /\ Silent

-----------------------------------------------------------------------------

(* A prompt of a service the build leaves out: the decoder does not know it. *)
handle_excluded_service ==
  \E type \in {"DISCOVER_WIFI", "WIFI_CONNECT", "GET_TIME", "SET_TIME", "DISCOVER_STREAMS",
               "OPEN_STREAM", "CLOSE_STREAM", "STREAM_DATA_NOTIFICATION"}
                \ decode_reach_payload(build) :
    /\ Dispatch(type)
    /\ Fail(<<"DECODING_FAILED">>, "DECODING_FAILED")
    /\ num_remaining_objects' =
         IF prompt.classic THEN num_remaining_objects ELSE prompt.more
    /\ KeepContinued
    /\ UNCHANGED <<link, deviceVars>>

cr_process ==
  \/ process_no_prompt /\ UNCHANGED deviceVars
  \/ device_info
  \/ discover_wifi_denied
  \/ discover_wifi_incomplete
  \/ discover_wifi_failed
  \/ discover_wifi_first
  \/ continue_discover_wifi
  \/ continue_discover_wifi_denied
  \/ handle_wifi_connect
  \/ handle_time_get
  \/ handle_time_set
  \/ pvtCr_discover_streams
  \/ continue_unwritten
  \/ pvtCr_open_stream
  \/ pvtCr_close_stream
  \/ pvtCr_stream_receive_notification
  \/ handle_excluded_service
  \/ BareHandlers /\ UNCHANGED deviceVars

(* A scan of the application's has come to an end.                         *)
scan_access_points ==
  /\ Idle
  /\ Overridden("WIFI")
  /\ access_points' \in Scans \ {access_points}
  /\ rescanned' = TRUE
  /\ Silent
  /\ UNCHANGED <<link, prompt, classic, hdr, continued, phase,
                 device, wifi_index, client_version, received>>

Application ==
  \/ cr_store_coded_prompt(DevicePrompts) /\ UNCHANGED deviceVars
  \/ Bare /\ cr_store_coded_prompt(BarePrompts) /\ UNCHANGED deviceVars
  \/ (set_connected \/ set_disconnected) /\ UNCHANGED deviceVars
  \/ scan_access_points
  \/ ~Bare /\ revoke_access /\ UNCHANGED deviceVars
  \/ pvtCr_notify_stream
  \/ pvtCr_stream_send_notification
  \/ stream_send_no_text
  \/ stream_send_asserts

Init ==
  /\ CoreInit
  /\ device \in Devices
  /\ access_points = <<>>
  /\ wifi_index = 0
  /\ client_version = [i \in 1 .. 3 |-> 0]
  /\ received = <<>>
  /\ rescanned = FALSE

Next == cr_process \/ Application

(* The application must call cr_process() regularly; nothing else is owed.  *)
Fairness == WF_vars(cr_process)

Spec == Init /\ [][Next]_vars
FairSpec == Spec /\ Fairness

-----------------------------------------------------------------------------
(* Properties.                                                             *)

WifiAnswer == [result: {"NO_ERROR"}, entries: Seq(Nat)]

IsNotification(m) ==
  /\ m.tid = 0 /\ m.remaining = 0 /\ m.type \in Notifications(build)
  /\ \/ m.type = "ERROR_REPORT" /\ m.body \in Errors
     \/ m.type = "STREAM_DATA_NOTIFICATION" /\ m.body = "STREAM_DATA"
     \/ m.type = "CLI_NOTIFICATION" /\ m.body = IF "CLI" \in build THEN "TEXT" ELSE "UNDEFINED"

IsAnswer(m) ==
  /\ m.tid \in Tid /\ m.remaining \in Nat /\ m.type \in encode_reach_payload(build)
  /\ \/ m.type = "DISCOVER_WIFI" /\ m.body \in WifiAnswer
     \/ m.type = "DISCOVER_STREAMS" /\ m.body \in Nat
     \/ m.type = "GET_DEVICE_INFO" /\ m.body = 0
     \/ m.type = "STREAM_DATA_NOTIFICATION" /\ m.body = "ZEROED"
     \/ m.type \in {"WIFI_CONNECT", "GET_TIME", "SET_TIME", "OPEN_STREAM", "CLOSE_STREAM"}
          /\ m.body \in Codes
     \/ Bare /\ BareAnswer(m)

IsSendable(m) == m = NoMessage \/ IsNotification(m) \/ IsAnswer(m)

(* The variables keep their types.  Of a message that is type and payload:  *)
(* an answer is of a type the build can encode and has its payload; so is a *)
(* notification, but for the stream data that a build without a command    *)
(* line sends as if it had one.                                            *)
TypeOK ==
  /\ connected \in BOOLEAN /\ key_valid \in BOOLEAN /\ classic \in BOOLEAN
  /\ key_presented \in BOOLEAN
  /\ prompt \in DevicePrompts \cup BarePrompts \cup {NoPrompt}
  /\ hdr \in Tid \cup {0}
  /\ owner \in [tid: Tid \cup {0}, classic: BOOLEAN]
  /\ continued_message_type \in {INVALID, "DISCOVER_WIFI", "DISCOVER_STREAMS"}
  /\ num_remaining_objects \in Nat
  /\ phase \in {"idle", "prompt", "stopped"}
  /\ IsSendable(response_buffer) /\ IsSendable(notification_buffer)
  /\ \A i \in DOMAIN sent : IsSendable(sent[i])
  /\ device \in Devices
  /\ access_points \in Scans
  /\ wifi_index \in 0 .. 255
  /\ client_version \in [1 .. 3 -> 0 .. 255]
  /\ received \in Seq(Nat)
  /\ rescanned \in BOOLEAN

(* The four switches over the message type agree in every build: what is    *)
(* handled can be decoded, what is answered can be encoded, and what is     *)
(* continued is handled.  Of what is notified one thing cannot be encoded:  *)
(* the stream data sent as a command line's, in a build without one.  It is *)
(* not refused, as no type without an encoder is.                          *)
TypesAgree ==
  \A b \in Build :
    /\ handle_message(b) \subseteq decode_reach_payload(b)
    /\ \A type \in handle_message(b) : Answers(type, b) \subseteq encode_reach_payload(b)
    /\ Notifications(b) \ encode_reach_payload(b)
         = IF "STREAMS" \in b /\ "CLI" \notin b THEN {"CLI_NOTIFICATION"} ELSE {}
    /\ ContinuedHandled(b) \subseteq handle_message(b)

(* A device without an application begins nothing: discoveries are set up   *)
(* as continued before their table turns out to be empty, and each way out  *)
(* has to undo that, or cr_process would go on with it.                    *)
BareStartsNothing == Bare => continued_message_type = INVALID

(* What is continued has a handler in the build that continues it, or is    *)
(* the discovery of streams, and is nothing on a device with nothing to     *)
(* list.                                                                   *)
SwitchesAgree ==
  /\ TypesAgree
  /\ continued_message_type \in ContinuedHandled(build) \cup {INVALID, "DISCOVER_STREAMS"}
  /\ BareStartsNothing

(* However the list changes under it, a discovery of access points gives    *)
(* them as they are listed, each once; and when it has not changed, its     *)
(* last message leaves the client with the whole list.                     *)
WifiAsListed ==
  ~rescanned /\ Len(received) > 0 =>
    /\ received = SubSeq(access_points, 1, Len(received))
    /\ continued_message_type = "DISCOVER_WIFI"
         => Len(received) + num_remaining_objects = Len(access_points)

(* The list of access points is given out message by message under the      *)
(* access the client has at each: an access taken away in the middle of a   *)
(* discovery stops it, and none survives from an earlier connection.        *)
WifiNeedsAccess ==
  [][ received' \in {received, <<>>} \/ (key_valid /\ key_presented) ]_vars

(* The comparison of the client's version with another is the order of the  *)
(* versions, whatever version was received, readable or not.               *)
Rank(version) == (version[1] * 256 + version[2]) * 256 + version[3]

VersionsAreOrdered ==
  \A version \in [1 .. 3 -> {0, 1, 2}] :
    LET order == pvtCr_compare_proto_version(version)
        distance == Rank(client_version) - Rank(version)
    IN  (order = 0 <=> distance = 0) /\ (order > 0 <=> distance > 0)

(* A discovery that is continued ends, also the one of streams, which has   *)
(* nothing to continue it, unless the link is lost or the program stops.    *)
TransactionEnds ==
  (continued_message_type # INVALID)
    ~> (continued_message_type = INVALID \/ ~connected \/ phase = "stopped")

-----------------------------------------------------------------------------
(* The discovery of access points is a chunked discovery of as many as the  *)
(* list had when it began.                                                 *)

EntriesLeft ==
  IF continued_message_type = "DISCOVER_WIFI" THEN num_remaining_objects ELSE 0

Discovery ==
  INSTANCE ChunkedDiscovery WITH
    Size      <- MostAccessPoints,
    Chunk     <- REACH_WIFI_AP_IN_DISCOVER,
    delivered <- 1 .. Len(received),
    left      <- EntriesLeft

(* Every step is a step of the abstract discovery or leaves it alone: a     *)
(* list that grows or shrinks in the middle does not change how many        *)
(* entries the client gets, nor what it is told is left.                    *)
ImplementsDiscovery == Discovery!DiscoverySpec

=============================================================================
