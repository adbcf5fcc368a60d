------------------------------ MODULE ReachCore ------------------------------
(***************************************************************************)
(* The core of the Reach stack (src/src/cr_stack.c): the link, the one-slot *)
(* prompt buffer, the header of the transaction in progress, the continued *)
(* transaction, the two transmit buffers, and what one call of cr_process  *)
(* does with them.  The modules of the services extend this one: their     *)
(* handlers end in one of the operators Respond, Continue, Fail, Silent or *)
(* NoMoreData, which stand for the tail of handle_message and cr_process.  *)
(*                                                                         *)
(* The application calls the stack from a single thread, so a call of      *)
(* cr_process is one step.  The exception is a continued handler that      *)
(* returns NO_DATA: the same call then goes on to the prompt, which is the *)
(* step taken from phase "prompt"; nothing else runs in between.           *)
(***************************************************************************)
EXTENDS Integers, Sequences, FiniteSets

CONSTANTS
  Tid,       (* transaction ids a client may choose                        *)
  Formats,   (* header formats in use: TRUE is classic, FALSE is Ahsoka    *)
  More       (* values of remaining_objects a client may send in a header  *)

ASSUME CoreAssumption ==
  /\ 0 \notin Tid
  /\ Formats \subseteq BOOLEAN
  /\ More \subseteq Nat

VARIABLES
  connected,               (* sCr_comm_link_is_connected                   *)
  key_valid,               (* the application's challenge-key verdict      *)
  prompt,                  (* sCr_encoded_message_buffer and its size      *)
  classic,                 (* sClassic_header_format                       *)
  hdr,                     (* sCr_transaction_id (endpoint, client alike)  *)
  continued_message_type,  (* pvtCr_continued_message_type                 *)
  num_remaining_objects,   (* pvtCr_num_remaining_objects                  *)
  response_buffer,         (* sCr_encoded_response_buffer and its size     *)
  notification_buffer,     (* sCr_coded_notification and its size          *)
  phase,                   (* "prompt": cr_process goes on to the prompt   *)
  sent,                    (* what this step passed to                     *)
                           (*   crcb_send_coded_response, in order         *)
  owner,                   (* history: the prompt that began the continued *)
                           (*   transaction on this connection             *)
  key_presented            (* history: a key was accepted since the link   *)
                           (*   came up                                    *)

link      == <<connected, key_valid, key_presented>>
buffers   == <<response_buffer, notification_buffer>>
continued == <<continued_message_type, num_remaining_objects, owner>>
coreVars  == <<link, prompt, classic, hdr, continued, buffers, phase, sent>>

-----------------------------------------------------------------------------
(* Messages.                                                               *)

INVALID == "INVALID"

(* A prompt as the client encoded it.                                      *)
Wire(types, args) ==
  [type: types, arg: args, tid: Tid, classic: Formats, more: More]

NoPrompt == [type |-> "NONE"]

NoArgs == {[none |-> TRUE]}   (* the payload carries nothing that matters    *)

(* BAD_HEADER and BAD_PAYLOAD fail to decode at the envelope and at the     *)
(* payload; UNHANDLED decodes, and its service is not in the build.        *)
CorePrompts ==
  Wire({"PING", "GET_DEVICE_INFO", "BAD_HEADER", "BAD_PAYLOAD", "UNHANDLED"}, NoArgs)

(* An encoded message.  A notification carries transaction id 0.           *)
Message(type, tid, format, remaining, body) ==
  [type |-> type, tid |-> tid, classic |-> format, remaining |-> remaining,
   body |-> body]

NoMessage == Message("NONE", 0, FALSE, 0, 0)   (* size 0 *)

ErrorReport(code) == Message("ERROR_REPORT", 0, FALSE, 0, code)

IsErrorReport(m) == m.type = "ERROR_REPORT"

NoOwner == [tid |-> 0, classic |-> FALSE]

(* The numbers in a finite set, the least first.                            *)
InOrder(numbers) ==
  [k \in 1 .. Cardinality(numbers) |->
     CHOOSE n \in numbers : Cardinality({ m \in numbers : m <= n }) = k]

-----------------------------------------------------------------------------
(* Encoding and sending.                                                   *)

(* cr_report_error, as often as codes says: an Ahsoka report is encoded in  *)
(* the notification buffer and sent; in classic format the encoder only    *)
(* logs, and whatever the buffer holds is sent.                            *)
Reports(format, codes) ==
  [i \in DOMAIN codes |->
     IF format THEN notification_buffer ELSE ErrorReport(codes[i])]

Report(format, codes, tail) ==
  /\ sent' = Reports(format, codes) \o tail
  /\ notification_buffer' =
       IF format \/ codes = <<>> THEN notification_buffer
       ELSE ErrorReport(codes[Len(codes)])

(* The response is encoded with the saved header and sent.                 *)
Encode(type, tid, format, remaining, body, codes) ==
  LET m == Message(type, tid, format, remaining, body)
  IN  /\ response_buffer' = m
      /\ Report(format, codes, <<m>>)

-----------------------------------------------------------------------------
(* Where a call of cr_process looks at the prompt, and how it ends.        *)

(* Variant: a stored prompt holds up the continued transaction.             *)
AtContinuedUnlessPrompt(type) ==
  connected /\ phase = "idle" /\ continued_message_type = type /\ prompt = NoPrompt

AtContinued(type) ==
  connected /\ phase = "idle" /\ continued_message_type = type

(* Variant: the prompt is taken while a transaction is continued.           *)
AtPromptAlways == connected

AtPrompt ==
  /\ connected
  /\ phase = "prompt" \/ (phase = "idle" /\ continued_message_type = INVALID)

(* handle_coded_prompt up to the switch of handle_message, for a prompt of  *)
(* the given type whose envelope and payload decode.                       *)
Dispatch(type) ==
  /\ AtPrompt
  /\ prompt.type = type
  /\ prompt' = NoPrompt
  /\ classic' = prompt.classic
  /\ hdr' = prompt.tid
  /\ phase' = "idle"

(* The continued transaction of service type t begins with this prompt.    *)
BeginContinued(t) ==
  /\ continued_message_type' = t
  /\ owner' = [tid |-> prompt.tid, classic |-> prompt.classic]

KeepContinued == UNCHANGED <<continued_message_type, owner>>

EndContinued == continued_message_type' = INVALID /\ owner' = NoOwner

(* The handler returned 0 after reporting codes: send its response.        *)
Respond(type, remaining, body, codes) ==
  /\ num_remaining_objects' = remaining
  /\ Encode(type, prompt.tid, prompt.classic, remaining, body, codes)

(* The handler returned an error: it has reported codes, cr_process adds    *)
(* its own report, and the response buffer is sent as it is.               *)
Fail(codes, rval) ==
  /\ Report(prompt.classic, Append(codes, rval), <<response_buffer>>)
  /\ UNCHANGED response_buffer

(* The handler returned NO_DATA or NO_RESPONSE.                             *)
Silent == sent' = <<>> /\ UNCHANGED buffers

(* A continued handler returned 0.                                         *)
Continue(type, remaining, body) ==
  /\ num_remaining_objects' = remaining
  /\ IF remaining = 0 THEN EndContinued ELSE KeepContinued
  /\ Encode(type, hdr, classic, remaining, body, <<>>)
  /\ UNCHANGED <<link, prompt, classic, hdr, phase>>

(* A continued handler failed after reporting codes: cr_process sends the   *)
(* response buffer as it is.                                               *)
FailContinued(codes) ==
  /\ Report(classic, codes, <<response_buffer>>)
  /\ UNCHANGED <<link, prompt, classic, hdr, phase, response_buffer>>

(* A continued handler returned NO_DATA: the call goes on to the prompt.    *)
NoMoreData ==
  /\ phase' = "prompt"
  /\ Silent
  /\ UNCHANGED <<link, prompt, classic, hdr>>

-----------------------------------------------------------------------------
(* The handlers of the core.                                               *)

handle_ping ==
  /\ Dispatch("PING")
  /\ IF key_valid
       THEN Respond("PING", 0, 0, <<>>)
       ELSE num_remaining_objects' = 0 /\ Silent
  /\ KeepContinued
  /\ UNCHANGED link

(* The application decides from the request's key which access it grants.  *)
handle_get_device_info ==
  /\ Dispatch("GET_DEVICE_INFO")
  /\ Respond("GET_DEVICE_INFO", 0, 0, <<>>)
  /\ key_valid' \in BOOLEAN
  /\ key_presented' = key_valid'
  /\ KeepContinued
  /\ UNCHANGED connected

(* Variant: the size of a prompt that fails to decode is not cleared.       *)
keep_undecodable_header ==
  /\ AtPrompt
  /\ prompt.type = "BAD_HEADER"
  /\ classic' = prompt.classic
  /\ phase' = "idle"
  /\ Fail(<<"DECODING_FAILED">>, "DECODING_FAILED")
  /\ UNCHANGED <<link, prompt, hdr, continued>>

handle_undecodable_header ==
  /\ AtPrompt
  /\ prompt.type = "BAD_HEADER"
  /\ prompt' = NoPrompt
  /\ classic' = prompt.classic
  /\ phase' = "idle"
  /\ Fail(<<"DECODING_FAILED">>, "DECODING_FAILED")
  /\ UNCHANGED <<link, hdr, continued>>

(* Only the Ahsoka decoder has copied remaining_objects out of the header.  *)
handle_undecodable_payload ==
  /\ Dispatch("BAD_PAYLOAD")
  /\ Fail(<<"DECODING_FAILED">>, "DECODING_FAILED")
  /\ num_remaining_objects' = IF prompt.classic THEN num_remaining_objects ELSE prompt.more
  /\ KeepContinued
  /\ UNCHANGED link

handle_unhandled_type ==
  /\ Dispatch("UNHANDLED")
  /\ Fail(<<"NOT_IMPLEMENTED">>, "NOT_IMPLEMENTED")
  /\ num_remaining_objects' = 0
  /\ KeepContinued
  /\ UNCHANGED link

process_no_prompt ==
  /\ AtPrompt
  /\ prompt = NoPrompt
  /\ phase' = "idle"
  /\ Silent
  /\ UNCHANGED <<link, prompt, classic, hdr, continued>>

(* What cr_process does with the prompts the services have no part in.      *)
CoreHandlers ==
  \/ handle_ping
  \/ handle_get_device_info
  \/ handle_undecodable_header
  \/ handle_undecodable_payload
  \/ handle_unhandled_type

CoreProcess == CoreHandlers \/ process_no_prompt

-----------------------------------------------------------------------------
(* What the application calls between two calls of cr_process.             *)

Idle == phase = "idle"

cr_store_coded_prompt(prompts) ==
  /\ Idle
  /\ connected
  /\ prompt' \in prompts
  /\ Silent
  /\ UNCHANGED <<link, classic, hdr, continued, phase>>

(* Variant: a new connection does not invalidate the challenge key.         *)
set_connected_keeping_key ==
  /\ Idle
  /\ ~connected
  /\ connected' = TRUE
  /\ EndContinued
  /\ num_remaining_objects' = 0
  /\ Silent
  /\ UNCHANGED <<key_valid, prompt, classic, hdr, phase, key_presented>>

set_connected ==
  /\ Idle
  /\ ~connected
  /\ connected' = TRUE
  /\ EndContinued
  /\ num_remaining_objects' = 0
  /\ key_valid' = FALSE
  /\ Silent
  /\ UNCHANGED <<prompt, classic, hdr, phase, key_presented>>

set_disconnected ==
  /\ Idle
  /\ connected
  /\ connected' = FALSE
  /\ key_presented' = FALSE
  /\ Silent
  /\ UNCHANGED <<key_valid, prompt, classic, hdr, continued, phase>>

(* An application that polls the response buffer empties it.               *)
cr_get_coded_response_buffer ==
  /\ Idle
  /\ response_buffer.type # "NONE"
  /\ response_buffer' = NoMessage
  /\ sent' = <<>>
  /\ UNCHANGED <<link, prompt, classic, hdr, continued, notification_buffer, phase>>

(* The application takes back the access it has granted, at any time; a     *)
(* client gets it again with a device info.                                 *)
revoke_access ==
  /\ Idle
  /\ key_valid
  /\ key_valid' = FALSE
  /\ Silent
  /\ UNCHANGED <<connected, key_presented, prompt, classic, hdr, continued, phase>>

CoreApplication(prompts) ==
  \/ cr_store_coded_prompt(prompts)
  \/ set_connected
  \/ set_disconnected
  \/ cr_get_coded_response_buffer

CoreInit ==
  /\ connected = FALSE
  /\ key_valid = FALSE
  /\ prompt = NoPrompt
  /\ classic = FALSE
  /\ hdr = 0
  /\ continued_message_type = INVALID
  /\ num_remaining_objects = 0
  /\ response_buffer = NoMessage
  /\ notification_buffer = NoMessage
  /\ phase = "idle"
  /\ sent = <<>>
  /\ owner = NoOwner
  /\ key_presented = FALSE

-----------------------------------------------------------------------------
(* Properties of the core that every service must keep.                    *)

(* A continued transaction goes on under the transaction id and the header  *)
(* format of the prompt that began it, and never on a later connection:    *)
(* the messages of a multi-message transaction share one transaction_id.   *)
ContinuedBelongsToItsPrompt ==
  continued_message_type # INVALID =>
    /\ owner.tid = hdr /\ hdr \in Tid
    /\ owner.classic = classic

(* A continued transaction always has something left to send; without it   *)
(* cr_process would call its handler for nothing.                          *)
ContinuedHasRemaining ==
  continued_message_type # INVALID => num_remaining_objects > 0

(* While the link stays up, a stored prompt is consumed: neither a          *)
(* continued transaction nor a failing prompt keeps cr_process from it.    *)
PromptConsumed ==
  (prompt # NoPrompt) ~> (prompt = NoPrompt \/ ~connected)

=============================================================================
