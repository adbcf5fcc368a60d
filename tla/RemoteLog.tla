------------------------------- MODULE RemoteLog -------------------------------
(***************************************************************************)
(* The log, and what of it is sent to the client: i3_log (src/src/i3_log.c) *)
(* calls back into the stack to send a line, and what sends a line, an      *)
(* error report or a notification logs on its way.  All of them go through  *)
(* the same three buffers, so this module takes the calls apart: calls is   *)
(* what is left to do, the innermost call first.  The rest of the stack has *)
(* messages encoded and sent in one step (Report in ReachCore), which is    *)
(* right if what is checked here holds.                                    *)
(*                                                                         *)
(* A client has one header format, and the application gives it access to   *)
(* the command line service when it presents its key.  Lines longer than    *)
(* the buffer are left out.                                                *)
(***************************************************************************)
EXTENDS Integers, Sequences

CONSTANTS
  Clients,     (* records: header format and access to the command line    *)
  Lines,       (* what the application logs                                *)
  LineMasks,   (* and under which masks                                    *)
  LogMasks,    (* masks the application may set                            *)
  Payloads,    (* of its notifications                                     *)
  Builds,      (* INCLUDE_CLI_SERVICE, and ERROR_FORMAT_FULL defined       *)
  CallDepth    (* bound: calls in progress                                 *)

Masks == {"ALWAYS", "ERROR", "WARN", "REMOTE", "WIRE", "AHSOKA"}

ASSUME RemoteLogAssumption ==
  /\ Clients \subseteq [classic: BOOLEAN, access: BOOLEAN]
  /\ LineMasks \subseteq SUBSET Masks /\ LogMasks \subseteq SUBSET Masks
  /\ Builds \subseteq [cli: BOOLEAN, full_report: BOOLEAN]
  /\ CallDepth \in Nat /\ CallDepth >= 3     (* what is called at once      *)

VARIABLES
  build,                  (* never changes                                 *)
  connected,              (* sCr_comm_link_is_connected                    *)
  access_granted,         (* crcb_access_granted(cr_ServiceIds_CLI, 0)     *)
  classic,                (* sClassic_header_format                        *)
  sLogMask,
  sUseRemoteCLI,
  sLog_rcliBuf,           (* the line for the client                       *)
  sCr_raw_notification,   (* a message before it is encoded                *)
  sCr_coded_notification, (* and after                                     *)
  calls,                  (* what is left to do                            *)
  sent,                   (* what this step has passed to                  *)
                          (*   crcb_send_coded_response                    *)
  owed                    (* history: what the client is still to get of   *)
                          (*   what the application called                 *)

settings == <<build, connected, access_granted, classic, sLogMask, sUseRemoteCLI>>
buffers  == <<sLog_rcliBuf, sCr_raw_notification, sCr_coded_notification>>
vars     == <<settings, buffers, calls, sent, owed>>

-----------------------------------------------------------------------------
(* Messages and calls.                                                     *)

Own == {"Remote command", "response disabled", "Logged Error full report", "Error message",
        "report disabled", "Notifications no longer supported", "trace"}

Text == Lines \cup Own

Types == {"CLI_NOTIFICATION", "ERROR_REPORT", "PARAMETER_NOTIFICATION", "STREAM_DATA_NOTIFICATION"}

Note(type, payload) == [type |-> type, payload |-> payload]

Nothing == Note("NONE", "NONE")

CliLine(line) == Note("CLI_NOTIFICATION", line)

(* A call of i3_log, of pvtCr_cli_respond with what is in the buffer, or of *)
(* one of the functions that send a notification; from ENCODE on, its       *)
(* payload is in the raw buffer, and from SEND on it has been encoded.      *)
Log(mask, line) == [do |-> "LOG", mask |-> mask, note |-> CliLine(line)]

Sending(do, note) == [do |-> do, mask |-> {}, note |-> note]

Top == Head(calls)

(* The innermost call does this first, then goes on as rest.                *)
Proceed(first, rest) ==
  /\ Len(first \o rest) + Len(Tail(calls)) <= CallDepth
  /\ calls' = first \o rest \o Tail(calls)

-----------------------------------------------------------------------------
(* i3_log.                                                                 *)

Unsuppressed == {"ALWAYS", "ERROR", "WARN"}

Printed(mask) == mask \cap (sLogMask \cup Unsuppressed) # {}

i3_log_get_remote_cli_enable == build.cli /\ access_granted /\ sUseRemoteCLI

Echoed(mask) ==
  /\ i3_log_get_remote_cli_enable
  /\ mask \cap (Unsuppressed \cup {"REMOTE"}) # {}

log_locally ==
  /\ calls # <<>> /\ Top.do = "LOG"
  /\ ~(Printed(Top.mask) /\ Echoed(Top.mask))
  /\ calls' = Tail(calls)
  /\ sent' = <<>>
  /\ UNCHANGED <<settings, buffers, owed>>

(* The line is put in the buffer for the client, and is given to            *)
(* pvtCr_cli_respond.                                                      *)
log_remotely ==
  /\ calls # <<>> /\ Top.do = "LOG"
  /\ Printed(Top.mask) /\ Echoed(Top.mask)
  /\ sLog_rcliBuf' = Top.note.payload
  /\ Proceed(<<>>, <<Sending("RESPOND", Top.note)>>)
  /\ sent' = <<>>
  /\ UNCHANGED <<settings, sCr_raw_notification, sCr_coded_notification, owed>>

-----------------------------------------------------------------------------
(* Sending.                                                                *)

not_connected ==
  /\ calls # <<>> /\ Top.do \in {"RESPOND", "NOTIFY"}
  /\ ~connected
  /\ calls' = Tail(calls)
  /\ sent' = <<>>
  /\ UNCHANGED <<settings, buffers, owed>>

(* Variant: the line is not copied to the raw buffer.                       *)
respond_without_copy ==
  /\ calls # <<>> /\ Top.do = "RESPOND"
  /\ connected
  /\ Proceed(<<Log({"WIRE"}, "trace")>>, <<Sending("ENCODE", Top.note)>>)
  /\ sent' = <<>>
  /\ UNCHANGED <<settings, buffers, owed>>

pvtCr_cli_respond ==
  /\ calls # <<>> /\ Top.do = "RESPOND"
  /\ connected
  /\ sCr_raw_notification' = CliLine(sLog_rcliBuf)
  /\ Proceed(<<Log({"WIRE"}, "trace")>>, <<Sending("ENCODE", Top.note)>>)
  /\ sent' = <<>>
  /\ UNCHANGED <<settings, sLog_rcliBuf, sCr_coded_notification, owed>>

(* pvtCr_notify_error, pvtCr_notify_param and pvtCr_notify_stream.          *)
pvtCr_notify ==
  /\ calls # <<>> /\ Top.do = "NOTIFY"
  /\ connected
  /\ sCr_raw_notification' = Top.note
  /\ Proceed(<<>>, <<Sending("ENCODE", Top.note)>>)
  /\ sent' = <<>>
  /\ UNCHANGED <<settings, sLog_rcliBuf, sCr_coded_notification, owed>>

(* In classic format nothing is encoded: that is an error, which is logged. *)
encode_classic ==
  /\ calls # <<>> /\ Top.do = "ENCODE"
  /\ classic
  /\ Proceed(<<Log({"ERROR"}, "Notifications no longer supported")>>,
             <<Sending("SEND", Top.note)>>)
  /\ sent' = <<>>
  /\ UNCHANGED <<settings, buffers, owed>>

(* Variant: the encoder reports its progress as a warning.                  *)
encode_header_warning ==
  /\ calls # <<>> /\ Top.do = "ENCODE"
  /\ ~classic
  /\ Proceed(<<Log({"WARN"}, "trace")>>, <<Sending("ENCODE_PAYLOAD", Top.note)>>)
  /\ sent' = <<>>
  /\ UNCHANGED <<settings, buffers, owed>>

encode_header ==
  /\ calls # <<>> /\ Top.do = "ENCODE"
  /\ ~classic
  /\ Proceed(<<Log({"AHSOKA"}, "trace")>>, <<Sending("ENCODE_PAYLOAD", Top.note)>>)
  /\ sent' = <<>>
  /\ UNCHANGED <<settings, buffers, owed>>

encode_payload ==
  /\ calls # <<>> /\ Top.do = "ENCODE_PAYLOAD"
  /\ sCr_coded_notification' = sCr_raw_notification
  /\ Proceed(<<>>, <<Sending("SEND", Top.note)>>)
  /\ sent' = <<>>
  /\ UNCHANGED <<settings, sLog_rcliBuf, sCr_raw_notification, owed>>

crcb_send_coded_response ==
  /\ calls # <<>> /\ Top.do = "SEND"
  /\ sent' = <<sCr_coded_notification>>
  /\ calls' = Tail(calls)
  /\ owed' = IF owed = <<>> THEN owed ELSE Tail(owed)
  /\ UNCHANGED <<settings, buffers>>

-----------------------------------------------------------------------------
(* What the application and the client call.                               *)

AtRest == calls = <<>>

(* What these calls owe the client: every notification, and every line that *)
(* is printed and meant for it.                                            *)
OwedBy(call) ==
  IF connected /\ (call.do = "NOTIFY" \/ (Printed(call.mask) /\ Echoed(call.mask)))
    THEN <<call.note>> ELSE <<>>

OwedByAll(made) ==
  CASE Len(made) = 1 -> OwedBy(made[1])
    [] Len(made) = 2 -> OwedBy(made[1]) \o OwedBy(made[2])
    [] Len(made) = 3 -> OwedBy(made[1]) \o OwedBy(made[2]) \o OwedBy(made[3])

Make(made) ==
  /\ AtRest
  /\ calls' = made
  /\ owed' = OwedByAll(made)
  /\ sent' = <<>>
  /\ UNCHANGED buffers

i3_log == \E mask \in LineMasks, line \in Lines : Make(<<Log(mask, line)>>)

cr_report_error ==
  Make(IF build.full_report
         THEN <<Sending("NOTIFY", Note("ERROR_REPORT", "Error message")),
                Log({"WARN"}, "Logged Error full report"), Log({"ERROR"}, "Error message")>>
         ELSE <<Log({"ERROR"}, "report disabled")>>)

notify ==
  \E type \in {"PARAMETER_NOTIFICATION", "STREAM_DATA_NOTIFICATION"}, payload \in Payloads :
    Make(<<Sending("NOTIFY", Note(type, payload))>>)

(* A line for the device's command interpreter, which answers by logging.   *)
handle_cli_notification ==
  /\ connected /\ build.cli
  /\ \E mask \in LineMasks, line \in Lines :
       Make(<<Log({"ALWAYS"}, "Remote command")>>
              \o (IF i3_log_get_remote_cli_enable
                    THEN <<>> ELSE <<Log({"WARN"}, "response disabled")>>)
              \o <<Log(mask, line)>>)
  /\ UNCHANGED settings

(* Variant: masks are added to the ones that are set.                       *)
add_log_mask ==
  /\ AtRest
  /\ \E mask \in LogMasks : sLogMask' = sLogMask \cup mask
  /\ sent' = <<>>
  /\ UNCHANGED <<build, connected, access_granted, classic, sUseRemoteCLI, buffers, calls, owed>>

i3_log_set_mask ==
  /\ AtRest
  /\ sLogMask' \in LogMasks
  /\ sent' = <<>>
  /\ UNCHANGED <<build, connected, access_granted, classic, sUseRemoteCLI, buffers, calls, owed>>

(* A build without the service has a stub here.                             *)
i3_log_set_remote_cli_enable ==
  /\ AtRest
  /\ sUseRemoteCLI' \in IF build.cli THEN BOOLEAN ELSE {sUseRemoteCLI}
  /\ sent' = <<>>
  /\ UNCHANGED <<build, connected, access_granted, classic, sLogMask, buffers, calls, owed>>

(* A new connection invalidates the challenge key, and with it the access.  *)
cr_set_comm_link_connected ==
  /\ AtRest
  /\ connected' = ~connected
  /\ access_granted' = IF connected THEN access_granted ELSE FALSE
  /\ sent' = <<>>
  /\ UNCHANGED <<build, classic, sLogMask, sUseRemoteCLI, buffers, calls, owed>>

(* The first prompt of a client: its format is taken, its key judged.       *)
handle_get_device_info ==
  /\ AtRest
  /\ connected
  /\ \E client \in Clients : classic' = client.classic /\ access_granted' = client.access
  /\ sent' = <<>>
  /\ UNCHANGED <<build, connected, sLogMask, sUseRemoteCLI, buffers, calls, owed>>

Init ==
  /\ build \in Builds
  /\ connected = FALSE /\ access_granted = FALSE /\ classic = FALSE
  /\ sLogMask = {}
  /\ sUseRemoteCLI = TRUE
  /\ sLog_rcliBuf = "NONE"
  /\ sCr_raw_notification = Nothing
  /\ sCr_coded_notification = Nothing
  /\ calls = <<>> /\ sent = <<>> /\ owed = <<>>

(* The calls in progress.                                                  *)
Call ==
  \/ log_locally
  \/ log_remotely
  \/ not_connected
  \/ pvtCr_cli_respond
  \/ pvtCr_notify
  \/ encode_classic
  \/ encode_header
  \/ encode_payload
  \/ crcb_send_coded_response

Application ==
  \/ (i3_log \/ cr_report_error \/ notify) /\ UNCHANGED settings
  \/ handle_cli_notification
  \/ i3_log_set_mask
  \/ i3_log_set_remote_cli_enable
  \/ cr_set_comm_link_connected
  \/ handle_get_device_info

Next == Call \/ Application

Spec == Init /\ [][Next]_vars

(* A call that has begun goes on: it runs on the caller's stack.            *)
FairSpec == Spec /\ WF_vars(Call)

-----------------------------------------------------------------------------
(* Properties.                                                             *)

IsNote(note) ==
  \/ note = Nothing
  \/ note.type = "CLI_NOTIFICATION" /\ note.payload \in Text
  \/ note.type = "ERROR_REPORT" /\ note.payload = "Error message"
  \/ note.type \in Types /\ note.payload \in Payloads

(* The variables keep their types.                                          *)
TypeOK ==
  /\ build \in Builds
  /\ connected \in BOOLEAN /\ access_granted \in BOOLEAN /\ classic \in BOOLEAN
  /\ sLogMask \in LogMasks \cup {{}}
  /\ sUseRemoteCLI \in BOOLEAN
  /\ sLog_rcliBuf \in Text \cup {"NONE"}
  /\ IsNote(sCr_raw_notification) /\ IsNote(sCr_coded_notification)
  /\ Len(calls) <= CallDepth
  /\ \A i \in DOMAIN calls :
       /\ calls[i].do \in {"LOG", "RESPOND", "NOTIFY", "ENCODE", "ENCODE_PAYLOAD", "SEND"}
       /\ calls[i].mask \in SUBSET Masks
       /\ IsNote(calls[i].note)
  /\ \A i \in DOMAIN sent : IsNote(sent[i])
  /\ \A i \in DOMAIN owed : IsNote(owed[i])

(* A line in the buffer for the client is sent before another is put there, *)
(* and a message in the raw buffer is encoded before another is: what the   *)
(* sending logs does not come back to the buffers it is sending from.       *)
BufferSentBeforeReused ==
  \A i \in DOMAIN calls :
    /\ calls[i].do # "LOG" /\ calls[i].note.type = "CLI_NOTIFICATION"
         => sLog_rcliBuf = calls[i].note.payload
    /\ calls[i].do \in {"ENCODE", "ENCODE_PAYLOAD"} => sCr_raw_notification = calls[i].note

(* In Ahsoka format the client gets what the application's calls owe it, in *)
(* the order they are made, each with its own payload, all of it before the *)
(* call returns, and nothing else: nothing while it is denied the command   *)
(* line, nothing of the traces.                                            *)
SentAsOwed ==
  [][ /\ ~classic /\ sent' # <<>> => owed # <<>> /\ sent' = <<Head(owed)>>
      /\ calls' = <<>> => owed' = <<>> ]_vars

(* A call of the log returns: a line about the sending of a line does not   *)
(* have itself sent.                                                       *)
LogReturns == []<>AtRest

=============================================================================
