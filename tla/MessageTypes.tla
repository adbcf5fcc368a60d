----------------------------- MODULE MessageTypes -----------------------------
(***************************************************************************)
(* Which message types a build of the stack knows.  A build is the set of   *)
(* the services it includes (INCLUDE_..._SERVICE in reach-server.h); NOTIFY *)
(* stands for NUM_SUPPORTED_PARAM_NOTIFY # 0.  Four switches over the type, *)
(* in two files, each with its own conditional compilation, have to agree: *)
(* the payload decoder, the handlers, the continued handlers and the        *)
(* payload encoder.  Each definition here is the part of one switch that    *)
(* one service has.                                                        *)
(***************************************************************************)

Services ==
  {"PARAMETERS", "NOTIFY", "FILES", "STREAMS", "COMMANDS", "CLI", "TIME", "WIFI"}

(* Notifications are part of the parameter service.                        *)
Build == { b \in SUBSET Services : "NOTIFY" \in b => "PARAMETERS" \in b }

(* The types of a service, if the build includes it.                       *)
Included(service, build, types) == IF service \in build THEN types ELSE {}

-----------------------------------------------------------------------------
(* decode_reach_payload: the prompts whose payload can be decoded.          *)

DecodedBase == {"GET_DEVICE_INFO", "PING"}

DecodedParameters(build) ==
  Included("PARAMETERS", build,
     {"DISCOVER_PARAMETERS", "DISCOVER_PARAM_EX", "READ_PARAMETERS", "WRITE_PARAMETERS",
      "PARAM_ENABLE_NOTIFY", "PARAM_DISABLE_NOTIFY", "DISCOVER_NOTIFICATIONS"})

DecodedFiles(build) ==
  Included("FILES", build,
     {"DISCOVER_FILES", "TRANSFER_INIT", "TRANSFER_DATA", "TRANSFER_DATA_NOTIFICATION",
      "ERASE_FILE"})

DecodedStreams(build) ==
  Included("STREAMS", build,
     {"DISCOVER_STREAMS", "OPEN_STREAM", "CLOSE_STREAM", "STREAM_DATA_NOTIFICATION"})

DecodedCommands(build) == Included("COMMANDS", build, {"DISCOVER_COMMANDS", "SEND_COMMAND"})

DecodedCli(build) == Included("CLI", build, {"CLI_NOTIFICATION"})

DecodedTime(build) == Included("TIME", build, {"GET_TIME", "SET_TIME"})

DecodedWifi(build) == Included("WIFI", build, {"DISCOVER_WIFI", "WIFI_CONNECT"})

decode_reach_payload(build) ==
  DecodedBase \cup DecodedParameters(build) \cup DecodedFiles(build)
    \cup DecodedStreams(build) \cup DecodedCommands(build) \cup DecodedCli(build)
    \cup DecodedTime(build) \cup DecodedWifi(build)

-----------------------------------------------------------------------------
(* handle_message: the prompts that have a handler.                        *)

HandledBase == {"PING", "GET_DEVICE_INFO"}

HandledParameters(build) ==
  Included("PARAMETERS", build,
     {"DISCOVER_PARAMETERS", "DISCOVER_PARAM_EX", "READ_PARAMETERS", "WRITE_PARAMETERS",
      "DISCOVER_NOTIFICATIONS"})

HandledNotify(build) ==
  Included("NOTIFY", build, {"PARAM_ENABLE_NOTIFY", "PARAM_DISABLE_NOTIFY"})

HandledFiles(build) ==
  Included("FILES", build,
     {"DISCOVER_FILES", "TRANSFER_INIT", "TRANSFER_DATA", "TRANSFER_DATA_NOTIFICATION",
      "ERASE_FILE"})

HandledStreams(build) ==
  Included("STREAMS", build,
     {"DISCOVER_STREAMS", "OPEN_STREAM", "CLOSE_STREAM", "STREAM_DATA_NOTIFICATION"})

HandledCommands(build) == Included("COMMANDS", build, {"DISCOVER_COMMANDS", "SEND_COMMAND"})

HandledCli(build) == Included("CLI", build, {"CLI_NOTIFICATION"})

HandledTime(build) == Included("TIME", build, {"SET_TIME", "GET_TIME"})

HandledWifi(build) == Included("WIFI", build, {"DISCOVER_WIFI", "WIFI_CONNECT"})

handle_message(build) ==
  HandledBase \cup HandledParameters(build) \cup HandledNotify(build) \cup HandledFiles(build)
    \cup HandledStreams(build) \cup HandledCommands(build) \cup HandledCli(build)
    \cup HandledTime(build) \cup HandledWifi(build)

(* The types of the answer to a prompt that is handled.  A data packet is   *)
(* acknowledged by a notification, a notification asks for a data packet or *)
(* confirms the last one, what comes from the client's command line and a   *)
(* discovery without notifications in the build have no answer.            *)
Answers(type, build) ==
  CASE type = "TRANSFER_DATA" -> {"TRANSFER_DATA_NOTIFICATION"}
    [] type = "TRANSFER_DATA_NOTIFICATION" -> {"TRANSFER_DATA", "TRANSFER_DATA_NOTIFICATION"}
    [] type = "CLI_NOTIFICATION" -> {}
    [] type = "DISCOVER_NOTIFICATIONS" /\ "NOTIFY" \notin build -> {}
    [] OTHER -> {type}

-----------------------------------------------------------------------------
(* handle_continued_transactions: the types that have a continued handler.  *)

ContinuedHandled(build) ==
  Included("PARAMETERS", build,
     {"DISCOVER_PARAMETERS", "DISCOVER_PARAM_EX", "READ_PARAMETERS",
      "DISCOVER_NOTIFICATIONS"})
    \cup Included("COMMANDS", build, {"DISCOVER_COMMANDS"})
    \cup Included("WIFI", build, {"DISCOVER_WIFI"})
    \cup Included("FILES", build, {"TRANSFER_DATA"})

-----------------------------------------------------------------------------
(* encode_reach_payload: the types that have an encoder.                    *)

EncodedBase == {"GET_DEVICE_INFO", "ERROR_REPORT", "PING"}

EncodedParameters(build) ==
  Included("PARAMETERS", build,
     {"DISCOVER_PARAMETERS", "DISCOVER_PARAM_EX", "READ_PARAMETERS", "WRITE_PARAMETERS"})

(* Variant: notifications themselves are left out.                          *)
EncodedSetupOnly(build) ==
  Included("NOTIFY", build,
     {"PARAM_ENABLE_NOTIFY", "PARAM_DISABLE_NOTIFY", "DISCOVER_NOTIFICATIONS"})

EncodedNotify(build) ==
  Included("NOTIFY", build,
     {"PARAM_ENABLE_NOTIFY", "PARAM_DISABLE_NOTIFY", "DISCOVER_NOTIFICATIONS",
      "PARAMETER_NOTIFICATION"})

EncodedFiles(build) ==
  Included("FILES", build,
     {"DISCOVER_FILES", "TRANSFER_INIT", "TRANSFER_DATA", "TRANSFER_DATA_NOTIFICATION",
      "ERASE_FILE"})

EncodedStreams(build) ==
  Included("STREAMS", build,
     {"DISCOVER_STREAMS", "OPEN_STREAM", "CLOSE_STREAM", "STREAM_DATA_NOTIFICATION"})

EncodedCommands(build) == Included("COMMANDS", build, {"DISCOVER_COMMANDS", "SEND_COMMAND"})

EncodedCli(build) == Included("CLI", build, {"CLI_NOTIFICATION"})

EncodedTime(build) == Included("TIME", build, {"SET_TIME", "GET_TIME"})

EncodedWifi(build) == Included("WIFI", build, {"DISCOVER_WIFI", "WIFI_CONNECT"})

encode_reach_payload(build) ==
  EncodedBase \cup EncodedParameters(build) \cup EncodedNotify(build) \cup EncodedFiles(build)
    \cup EncodedStreams(build) \cup EncodedCommands(build) \cup EncodedCli(build)
    \cup EncodedTime(build) \cup EncodedWifi(build)

(* What the stack sends of its own accord.  The stream service has two ways *)
(* to send the application's data; one sends it as a command line           *)
(* notification.                                                           *)
Notifications(build) ==
  {"ERROR_REPORT"} \cup Included("NOTIFY", build, {"PARAMETER_NOTIFICATION"})
    \cup Included("STREAMS", build, {"STREAM_DATA_NOTIFICATION", "CLI_NOTIFICATION"})
    \cup Included("CLI", build, {"CLI_NOTIFICATION"})

=============================================================================
