------------------------- MODULE CommandServiceProofs -------------------------
(***************************************************************************)
(* Theorems of the command service, for every table, chunk and set of       *)
(* clients' transaction ids.                                               *)
(***************************************************************************)
EXTENDS CommandService, SequenceTheorems, TLAPS

(* The invariant that the steps preserve: no part of it is inductive alone. *)
(* The type of a response needs DiscoveryConserves (no blank entry), which  *)
(* needs ContinuedHasRemaining and the types.                              *)
IInv ==
  /\ TypeOK
  /\ ContinuedBelongsToItsPrompt
  /\ ContinuedHasRemaining
  /\ DiscoveryConserves

-----------------------------------------------------------------------------
(* Lemmas about messages.                                                  *)

(* What a stored prompt's fields may be.                                   *)
LEMMA PromptFields ==
  ASSUME TypeOK, prompt # NoPrompt
  PROVE  /\ prompt.tid \in Tid
         /\ prompt.classic \in BOOLEAN
         /\ prompt.more \in Nat
         /\ prompt.type = "SEND_COMMAND" => prompt.arg.command_id \in 1 .. NumCommands
<1>1. prompt \in CommandPrompts
  BY DEF TypeOK
<1>2. QED
  BY <1>1, CoreAssumption DEF CommandPrompts, CorePrompts, Wire, NoArgs

(* Error reports and what follows them are messages the stack can send.     *)
LEMMA ReportType ==
  ASSUME NEW format \in BOOLEAN, NEW codes \in Seq(Codes), NEW tail \in Seq(Sendable),
         notification_buffer \in ErrorReports \cup {NoMessage},
         Report(format, codes, tail)
  PROVE  /\ sent' \in Seq(Sendable)
         /\ notification_buffer' \in ErrorReports \cup {NoMessage}
<1>1. codes \in [1 .. Len(codes) -> Codes] /\ Len(codes) \in Nat
  BY LenProperties
<1>2. \A i \in 1 .. Len(codes) : ErrorReport(codes[i]) \in ErrorReports
  BY <1>1 DEF ErrorReports
<1>3. Reports(format, codes) \in [1 .. Len(codes) -> Sendable]
  BY <1>1, <1>2 DEF Reports, Sendable
<1>4. Reports(format, codes) \in Seq(Sendable)
  BY <1>1, <1>3, SeqDef
<1>5. sent' \in Seq(Sendable)
  BY <1>4 DEF Report
<1>6. codes # <<>> => Len(codes) \in 1 .. Len(codes)
  BY <1>1, EmptySeq
<1>7. QED BY <1>2, <1>5, <1>6 DEF Report

BuffersOK ==
  /\ response_buffer \in CommandResponses \cup {NoMessage}
  /\ notification_buffer \in ErrorReports \cup {NoMessage}
  /\ sent \in Seq(Sendable)

(* The three ways a step ends.                                             *)
LEMMA EncodeBuffers ==
  ASSUME TypeOK, NEW type, NEW tid, NEW format \in BOOLEAN, NEW remaining, NEW body,
         Message(type, tid, format, remaining, body) \in CommandResponses,
         Encode(type, tid, format, remaining, body, <<>>)
  PROVE  BuffersOK'
<1> DEFINE m == Message(type, tid, format, remaining, body)
<1>1. m \in Sendable
  BY DEF Sendable
<1>2. <<m>> \in Seq(Sendable) /\ <<>> \in Seq(Codes)
  BY <1>1, EmptySeq
<1>3. response_buffer' = m /\ Report(format, <<>>, <<m>>)
  BY DEF Encode
<1>4. notification_buffer \in ErrorReports \cup {NoMessage}
  BY DEF TypeOK
<1>5. sent' \in Seq(Sendable) /\ notification_buffer' \in ErrorReports \cup {NoMessage}
  BY <1>2, <1>3, <1>4, ReportType
<1>6. QED BY <1>3, <1>5 DEF BuffersOK

LEMMA FailBuffers ==
  ASSUME TypeOK, prompt # NoPrompt, NEW code \in Codes, Fail(<<code>>, code)
  PROVE  BuffersOK'
<1>1. Append(<<code>>, code) \in Seq(Codes)
  OBVIOUS
<1>2. /\ Report(prompt.classic, Append(<<code>>, code), <<response_buffer>>)
      /\ response_buffer' = response_buffer
  BY DEF Fail
<1>3. response_buffer \in CommandResponses \cup {NoMessage}
  BY DEF TypeOK
<1>4. <<response_buffer>> \in Seq(Sendable)
  BY <1>3 DEF Sendable
<1>5. prompt.classic \in BOOLEAN
  BY PromptFields
<1>6. notification_buffer \in ErrorReports \cup {NoMessage}
  BY DEF TypeOK
<1>7. sent' \in Seq(Sendable) /\ notification_buffer' \in ErrorReports \cup {NoMessage}
  BY <1>1, <1>2, <1>4, <1>5, <1>6, ReportType
<1>8. QED BY <1>2, <1>3, <1>7 DEF BuffersOK

LEMMA SilentBuffers == ASSUME TypeOK, Silent PROVE BuffersOK'
<1>1. sent' \in Seq(Sendable)
  BY EmptySeq DEF Silent
<1>2. QED BY <1>1 DEF Silent, buffers, TypeOK, BuffersOK

-----------------------------------------------------------------------------
(* Lemmas about one message of a discovery.                                *)

LEMMA CountType == ASSUME TypeOK PROVE crcb_get_command_count \in 0 .. NumCommands
  BY CommandAssumption DEF crcb_get_command_count, TypeOK

(* When the entries described and those to come make up the table, a        *)
(* message describes as many as it announces: the next ones, none blank.    *)
LEMMA OneMessage ==
  ASSUME TypeOK, NEW index \in Nat, NEW num \in Nat,
         index + num = crcb_get_command_count
  PROVE  /\ Fetched(index) \in 0 .. num
         /\ Fetched(index) = IF num < REACH_NUM_COMMANDS_IN_RESPONSE
                               THEN num ELSE REACH_NUM_COMMANDS_IN_RESPONSE
         /\ RemainingAfter(index, num) = num - Fetched(index)
         /\ Described(index, num) = index + 1 .. index + Fetched(index)
         /\ Described(index, num) \subseteq 1 .. NumCommands
<1> USE CommandAssumption
<1>1. crcb_get_command_count \in 0 .. NumCommands
  BY CountType
<1>2. /\ Fetched(index) = IF num < REACH_NUM_COMMANDS_IN_RESPONSE
                            THEN num ELSE REACH_NUM_COMMANDS_IN_RESPONSE
      /\ Fetched(index) \in 0 .. num
  BY <1>1 DEF Fetched
<1>3. RemainingAfter(index, num) = num - Fetched(index)
  BY <1>2 DEF RemainingAfter
<1>4. Announced(index, num) = Fetched(index)
  BY <1>2 DEF Announced
<1>5. \A i \in index + 1 .. index + Fetched(index) : i \in 1 .. crcb_get_command_count
  BY <1>1, <1>2
<1>6. Described(index, num) = index + 1 .. index + Fetched(index)
  BY <1>1, <1>4, <1>5 DEF Described
<1>7. QED BY <1>1, <1>2, <1>3, <1>5, <1>6

-----------------------------------------------------------------------------
(* The initial states and every step.                                      *)

LEMMA InitIInv == Init => IInv
<1> SUFFICES ASSUME Init PROVE IInv
  OBVIOUS
<1>1. sent \in Seq(Sendable)
  BY EmptySeq DEF Init, CoreInit
<1>2. owner \in [tid: Tid \cup {0}, classic: BOOLEAN]
  BY DEF Init, CoreInit, NoOwner
<1>3. sCr_requested_command_index \in 0 .. NumCommands /\ num_remaining_objects \in Nat
  BY CommandAssumption DEF Init, CoreInit
<1>4. TypeOK
  BY <1>1, <1>2, <1>3, Zenon DEF Init, CoreInit, TypeOK
<1>5. QED
  BY <1>4 DEF Init, CoreInit, IInv, ContinuedBelongsToItsPrompt,
              ContinuedHasRemaining, DiscoveryConserves, INVALID

(* A step after which nothing is continued has only the types to keep.      *)
LEMMA NothingContinued ==
  ASSUME TypeOK', continued_message_type' = INVALID PROVE IInv'
  BY DEF IInv, ContinuedBelongsToItsPrompt, ContinuedHasRemaining, DiscoveryConserves, INVALID

(* A prompt is looked at only when nothing is continued.                    *)
LEMMA PromptMeansNothingContinued ==
  ASSUME TypeOK, AtPrompt PROVE continued_message_type = INVALID
  BY DEF TypeOK, AtPrompt

(* No command has run, and the discovery is where it was.                   *)
Elsewhere ==
  executed' = {} /\ UNCHANGED <<sCr_requested_command_index, received>>

LinkOK == connected' \in BOOLEAN /\ key_valid' \in BOOLEAN /\ key_presented' \in BOOLEAN

LEMMA SameLink == ASSUME TypeOK, UNCHANGED link PROVE LinkOK
  BY DEF TypeOK, link, LinkOK

(* What a prompt of any type that is dispatched does to the core.           *)
Dispatched ==
  /\ AtPrompt
  /\ prompt # NoPrompt
  /\ prompt' = NoPrompt
  /\ classic' = prompt.classic
  /\ hdr' = prompt.tid
  /\ phase' = "idle"

(* The types after a prompt that concerns neither discovery nor link.       *)
LEMMA PromptStep ==
  ASSUME TypeOK, Dispatched, KeepContinued, num_remaining_objects' \in Nat, BuffersOK',
         LinkOK, executed' \subseteq 1 .. NumCommands,
         UNCHANGED <<sCr_requested_command_index, received>>
  PROVE  IInv'
<1>2. prompt.tid \in Tid /\ prompt.classic \in BOOLEAN
  BY PromptFields DEF Dispatched
<1>3. prompt' \in CommandPrompts \cup {NoPrompt}
  BY DEF Dispatched
<1>4. /\ classic' \in BOOLEAN /\ hdr' \in Tid \cup {0} /\ phase' = "idle"
  BY <1>2 DEF Dispatched
<1>5. TypeOK'
  BY <1>3, <1>4, Zenon DEF TypeOK, BuffersOK, KeepContinued, LinkOK
<1>6. continued_message_type' = INVALID
  BY PromptMeansNothingContinued DEF Dispatched, KeepContinued
<1>7. QED BY <1>5, <1>6, NothingContinued

-----------------------------------------------------------------------------
(* The core's prompts.                                                     *)

LEMMA Ping == ASSUME IInv, handle_ping, Elsewhere PROVE IInv'
<1>1. TypeOK /\ Dispatched /\ prompt # NoPrompt
  BY DEF IInv, handle_ping, Dispatch, Dispatched, NoPrompt
<1>2. prompt.tid \in Tid /\ prompt.classic \in BOOLEAN
  BY <1>1, PromptFields
<1>3. Message("PING", prompt.tid, prompt.classic, 0, 0) \in CommandResponses
  BY <1>2 DEF Message, CommandResponses
<1>4. num_remaining_objects' = 0
  BY DEF handle_ping, Respond
<1>5. BuffersOK'
  <2>1. CASE key_valid
    BY <1>1, <1>2, <1>3, <2>1, EncodeBuffers DEF handle_ping, Respond
  <2>2. CASE ~key_valid
    BY <1>1, <2>2, SilentBuffers DEF handle_ping
  <2>3. QED BY <2>1, <2>2
<1>6. KeepContinued /\ UNCHANGED link
  BY DEF handle_ping
<1>7. QED
  BY <1>1, <1>4, <1>5, <1>6, SameLink, PromptStep DEF Elsewhere

LEMMA DeviceInfo == ASSUME IInv, handle_get_device_info, Elsewhere PROVE IInv'
<1>1. TypeOK /\ Dispatched /\ prompt # NoPrompt
  BY DEF IInv, handle_get_device_info, Dispatch, Dispatched, NoPrompt
<1>2. prompt.tid \in Tid /\ prompt.classic \in BOOLEAN
  BY <1>1, PromptFields
<1>3. Message("GET_DEVICE_INFO", prompt.tid, prompt.classic, 0, 0) \in CommandResponses
  BY <1>2 DEF Message, CommandResponses
<1>4. num_remaining_objects' = 0
  BY DEF handle_get_device_info, Respond
<1>5. BuffersOK'
  BY <1>1, <1>2, <1>3, EncodeBuffers DEF handle_get_device_info, Respond
<1>6. KeepContinued /\ LinkOK
  BY <1>1 DEF handle_get_device_info, LinkOK, TypeOK
<1>7. QED
  BY <1>1, <1>4, <1>5, <1>6, PromptStep DEF Elsewhere

LEMMA UndecodablePayload == ASSUME IInv, handle_undecodable_payload, Elsewhere PROVE IInv'
<1>1. TypeOK /\ Dispatched /\ prompt # NoPrompt
  BY DEF IInv, handle_undecodable_payload, Dispatch, Dispatched, NoPrompt
<1>2. num_remaining_objects' \in Nat
  BY <1>1, PromptFields DEF handle_undecodable_payload, TypeOK
<1>3. BuffersOK'
  BY <1>1, FailBuffers DEF handle_undecodable_payload, Codes
<1>4. KeepContinued /\ UNCHANGED link
  BY DEF handle_undecodable_payload
<1>5. QED
  BY <1>1, <1>2, <1>3, <1>4, SameLink, PromptStep DEF Elsewhere

LEMMA UnhandledType == ASSUME IInv, handle_unhandled_type, Elsewhere PROVE IInv'
<1>1. TypeOK /\ Dispatched /\ prompt # NoPrompt
  BY DEF IInv, handle_unhandled_type, Dispatch, Dispatched, NoPrompt
<1>2. num_remaining_objects' \in Nat /\ KeepContinued /\ UNCHANGED link
  BY DEF handle_unhandled_type
<1>3. BuffersOK'
  BY <1>1, FailBuffers DEF handle_unhandled_type, Codes
<1>4. QED
  BY <1>1, <1>2, <1>3, SameLink, PromptStep DEF Elsewhere

LEMMA UndecodableHeader == ASSUME IInv, handle_undecodable_header, Elsewhere PROVE IInv'
<1>1. TypeOK /\ AtPrompt /\ prompt # NoPrompt
  BY DEF IInv, handle_undecodable_header, NoPrompt
<1>2. prompt.classic \in BOOLEAN
  BY <1>1, PromptFields
<1>3. BuffersOK'
  BY <1>1, FailBuffers DEF handle_undecodable_header, Codes
<1>4. prompt' \in CommandPrompts \cup {NoPrompt} /\ classic' \in BOOLEAN /\ phase' = "idle"
  BY <1>2 DEF handle_undecodable_header
<1>5. UNCHANGED <<link, hdr, continued>>
  BY DEF handle_undecodable_header
<1>6. TypeOK'
  BY <1>1, <1>3, <1>4, <1>5, Zenon DEF TypeOK, BuffersOK, link, continued, Elsewhere
<1>7. continued_message_type' = INVALID
  BY <1>1, <1>5, PromptMeansNothingContinued DEF continued
<1>8. QED BY <1>6, <1>7, NothingContinued

LEMMA NoPromptStep == ASSUME IInv, process_no_prompt, Elsewhere PROVE IInv'
<1>1. TypeOK /\ AtPrompt /\ Silent /\ phase' = "idle"
      /\ UNCHANGED <<link, prompt, classic, hdr, continued>>
  BY DEF IInv, process_no_prompt
<1>2. BuffersOK'
  BY <1>1, SilentBuffers
<1>3. TypeOK'
  BY <1>1, <1>2, Zenon DEF TypeOK, BuffersOK, link, continued, Elsewhere
<1>4. continued_message_type' = INVALID
  BY <1>1, PromptMeansNothingContinued DEF continued
<1>5. QED BY <1>3, <1>4, NothingContinued

-----------------------------------------------------------------------------
(* The service's prompts and the continued discovery.                      *)

LEMMA SendCommand == ASSUME IInv, handle_send_command PROVE IInv'
<1>1. /\ TypeOK /\ Dispatched /\ prompt # NoPrompt
      /\ prompt.type = "SEND_COMMAND"
  BY DEF IInv, handle_send_command, Dispatch, Dispatched, NoPrompt
<1>2. prompt.tid \in Tid /\ prompt.classic \in BOOLEAN /\ prompt.arg.command_id \in 1 .. NumCommands
  BY <1>1, PromptFields
<1>3. /\ KeepContinued /\ LinkOK
      /\ UNCHANGED <<sCr_requested_command_index, received>>
  BY <1>1, SameLink DEF handle_send_command
<1>4. CASE crcb_access_granted(prompt.arg.command_id)
  <2>1. PICK result \in {"NO_ERROR", "FAILED"} : Respond("SEND_COMMAND", 0, result, <<>>)
    BY <1>4 DEF handle_send_command
  <2>2. Message("SEND_COMMAND", prompt.tid, prompt.classic, 0, result) \in CommandResponses
    BY <1>2 DEF Message, CommandResponses
  <2>3. BuffersOK' /\ num_remaining_objects' = 0
    BY <1>1, <1>2, <2>1, <2>2, EncodeBuffers DEF Respond
  <2>4. executed' \subseteq 1 .. NumCommands
    BY <1>2, <1>4 DEF handle_send_command
  <2>5. QED BY <1>1, <1>3, <2>3, <2>4, PromptStep
<1>5. CASE ~crcb_access_granted(prompt.arg.command_id)
  <2>1. Silent /\ num_remaining_objects' = 0 /\ executed' = {}
    BY <1>5 DEF handle_send_command
  <2>2. BuffersOK'
    BY <1>1, <2>1, SilentBuffers
  <2>3. QED BY <1>1, <1>3, <2>1, <2>2, PromptStep
<1>6. QED BY <1>4, <1>5

(* A message of a discovery that took n entries from index on, typed.       *)
LEMMA DiscoveryMessage ==
  ASSUME TypeOK, NEW tid \in Tid, NEW format \in BOOLEAN,
         NEW remaining \in 0 .. NumCommands, NEW entries \in SUBSET (1 .. NumCommands),
         Encode("DISCOVER_COMMANDS", tid, format, remaining, entries, <<>>)
  PROVE  BuffersOK'
<1>1. Message("DISCOVER_COMMANDS", tid, format, remaining, entries) \in CommandResponses
  BY DEF Message, CommandResponses
<1>2. QED BY <1>1, EncodeBuffers

LEMMA Discover == ASSUME IInv, handle_discover_commands PROVE IInv'
<1> DEFINE num       == crcb_get_command_count
           remaining == RemainingAfter(0, num)
           entries   == Described(0, num)
<1>1. TypeOK /\ Dispatched /\ prompt # NoPrompt
  BY DEF IInv, handle_discover_commands, Dispatch, Dispatched, NoPrompt
<1>2. prompt.tid \in Tid /\ prompt.classic \in BOOLEAN
  BY <1>1, PromptFields
<1>3. num \in 0 .. NumCommands /\ NumCommands \in Nat
  BY <1>1, CountType, CommandAssumption
<1>4. /\ Fetched(0) \in 0 .. num
      /\ remaining = num - Fetched(0)
      /\ entries = 0 + 1 .. 0 + Fetched(0)
      /\ entries \subseteq 1 .. NumCommands
  <2>1. 0 \in Nat /\ num \in Nat /\ 0 + num = crcb_get_command_count
    BY <1>3
  <2>2. QED BY <1>1, <2>1, OneMessage
<1>5. entries = 1 .. Fetched(0)
  BY <1>4
<1>6. remaining \in 0 .. NumCommands /\ Fetched(0) \in 0 .. NumCommands
  BY <1>3, <1>4
<1>7. /\ Respond("DISCOVER_COMMANDS", remaining, entries, <<>>)
      /\ sCr_requested_command_index' = Fetched(0)
      /\ received' = entries
      /\ executed' = {}
      /\ UNCHANGED link
      /\ IF remaining > 0 THEN BeginContinued("DISCOVER_COMMANDS") ELSE KeepContinued
  BY DEF handle_discover_commands
<1>8. num_remaining_objects' = remaining
  BY <1>7 DEF Respond
<1>9. BuffersOK'
  BY <1>1, <1>2, <1>4, <1>6, <1>7, DiscoveryMessage DEF Respond
<1>10. num_remaining_objects' \in Nat /\ executed' \subseteq 1 .. NumCommands
       /\ sCr_requested_command_index' \in 0 .. NumCommands /\ received' \subseteq 1 .. NumCommands
  BY <1>4, <1>6, <1>7, <1>8
<1>11. /\ classic' = prompt.classic /\ hdr' = prompt.tid /\ prompt' = NoPrompt /\ phase' = "idle"
       /\ classic' \in BOOLEAN /\ hdr' \in Tid \cup {0}
  BY <1>1, <1>2 DEF Dispatched
<1>12. LinkOK
  BY <1>1, <1>7, SameLink
<1>13. CASE remaining > 0
  <2>1. /\ continued_message_type' = "DISCOVER_COMMANDS"
        /\ owner' = [tid |-> prompt.tid, classic |-> prompt.classic]
    BY <1>7, <1>13 DEF BeginContinued
  <2>2. owner' \in [tid: Tid \cup {0}, classic: BOOLEAN]
    BY <1>2, <2>1
  <2>3. TypeOK'
    BY <1>9, <1>10, <1>11, <1>12, <2>1, <2>2, Zenon DEF TypeOK, BuffersOK, LinkOK
  <2>4. owner'.tid = hdr' /\ owner'.classic = classic' /\ hdr' \in Tid
    BY <1>2, <1>11, <2>1
  <2>5. crcb_get_command_count' = num
    BY <1>7 DEF crcb_get_command_count, link
  <2>6. /\ received' = 1 .. sCr_requested_command_index'
        /\ sCr_requested_command_index' + num_remaining_objects' = crcb_get_command_count'
    BY <1>3, <1>4, <1>5, <1>7, <1>8, <2>5
  <2>7. num_remaining_objects' > 0
    BY <1>8, <1>13
  <2>8. QED
    BY <2>3, <2>4, <2>6, <2>7
       DEF IInv, ContinuedBelongsToItsPrompt, ContinuedHasRemaining, DiscoveryConserves
<1>14. CASE ~(remaining > 0)
  <2>1. KeepContinued
    BY <1>7, <1>14
  <2>2. TypeOK'
    BY <1>1, <1>9, <1>10, <1>11, <1>12, <2>1, Zenon DEF TypeOK, BuffersOK, LinkOK, KeepContinued
  <2>3. continued_message_type' = INVALID
    BY <1>1, <2>1, PromptMeansNothingContinued DEF Dispatched, KeepContinued
  <2>4. QED BY <2>2, <2>3, NothingContinued
<1>15. QED BY <1>13, <1>14

LEMMA ContinueDiscovery == ASSUME IInv, continue_discover_commands PROVE IInv'
<1> DEFINE index     == sCr_requested_command_index
           num       == num_remaining_objects
           remaining == RemainingAfter(index, num)
           entries   == Described(index, num)
<1>1. TypeOK /\ continued_message_type = "DISCOVER_COMMANDS"
  BY DEF IInv, continue_discover_commands, AtContinued
<1>2. /\ index \in Nat /\ num \in Nat /\ NumCommands \in Nat
      /\ crcb_get_command_count \in 0 .. NumCommands
  BY <1>1, CountType, CommandAssumption DEF TypeOK
<1>3. received = 1 .. index /\ index + num = crcb_get_command_count
  BY <1>1 DEF IInv, DiscoveryConserves
<1>4. /\ Fetched(index) \in 0 .. num
      /\ remaining = num - Fetched(index)
      /\ entries = index + 1 .. index + Fetched(index)
      /\ entries \subseteq 1 .. NumCommands
  BY <1>1, <1>2, <1>3, OneMessage
<1>5. remaining \in 0 .. NumCommands /\ index + Fetched(index) \in 0 .. NumCommands
  BY <1>2, <1>3, <1>4
<1>6. received \cup entries = 1 .. index + Fetched(index)
  BY <1>2, <1>3, <1>4
<1>7. /\ sCr_requested_command_index' = index + Fetched(index)
      /\ received' = received \cup entries
      /\ executed' = {}
      /\ num_remaining_objects' = remaining
      /\ IF remaining = 0 THEN EndContinued ELSE KeepContinued
      /\ Encode("DISCOVER_COMMANDS", hdr, classic, remaining, entries, <<>>)
      /\ UNCHANGED <<link, prompt, classic, hdr, phase>>
  BY DEF continue_discover_commands, Continue
<1>8. /\ owner.tid = hdr /\ owner.classic = classic
      /\ classic \in BOOLEAN /\ hdr \in Tid
  BY <1>1 DEF IInv, ContinuedBelongsToItsPrompt, TypeOK, INVALID
<1>9. BuffersOK'
  BY <1>1, <1>4, <1>5, <1>7, <1>8, DiscoveryMessage
<1>10. /\ num_remaining_objects' \in Nat /\ executed' \subseteq 1 .. NumCommands
       /\ sCr_requested_command_index' \in 0 .. NumCommands
       /\ received' \subseteq 1 .. NumCommands
  BY <1>2, <1>5, <1>6, <1>7
<1>11. LinkOK
  BY <1>1, <1>7, SameLink
<1>12. CASE remaining = 0
  <2>1. continued_message_type' = INVALID /\ owner' = NoOwner
    BY <1>7, <1>12 DEF EndContinued
  <2>2. owner' \in [tid: Tid \cup {0}, classic: BOOLEAN]
    BY <2>1 DEF NoOwner
  <2>3. TypeOK'
    BY <1>1, <1>7, <1>9, <1>10, <1>11, <2>1, <2>2, Zenon DEF TypeOK, BuffersOK, LinkOK
  <2>4. QED BY <2>1, <2>3, NothingContinued
<1>13. CASE remaining # 0
  <2>1. KeepContinued
    BY <1>7, <1>13
  <2>2. TypeOK'
    BY <1>1, <1>7, <1>9, <1>10, <1>11, <2>1, Zenon DEF TypeOK, BuffersOK, LinkOK, KeepContinued
  <2>3. owner'.tid = hdr' /\ owner'.classic = classic' /\ hdr' \in Tid
    BY <1>7, <1>8, <2>1 DEF KeepContinued
  <2>4. crcb_get_command_count' = crcb_get_command_count
    BY <1>7 DEF crcb_get_command_count, link
  <2>5. /\ received' = 1 .. sCr_requested_command_index'
        /\ sCr_requested_command_index' + num_remaining_objects' = crcb_get_command_count'
    <3>1. received' = 1 .. sCr_requested_command_index'
      BY <1>6, <1>7
    <3>2. (index + Fetched(index)) + remaining = index + num
      BY <1>2, <1>4
    <3>3. QED BY <1>3, <1>7, <2>4, <3>1, <3>2
  <2>6. num_remaining_objects' > 0
    BY <1>5, <1>7, <1>13
  <2>7. QED
    BY <2>2, <2>3, <2>5, <2>6
       DEF IInv, ContinuedBelongsToItsPrompt, ContinuedHasRemaining, DiscoveryConserves
<1>14. QED BY <1>12, <1>13

-----------------------------------------------------------------------------
(* The application's calls.                                                *)

LEMMA StorePrompt ==
  ASSUME IInv, cr_store_coded_prompt(CommandPrompts), Elsewhere PROVE IInv'
<1>1. /\ TypeOK /\ Silent /\ prompt' \in CommandPrompts
      /\ UNCHANGED <<link, classic, hdr, continued, phase>>
  BY DEF IInv, cr_store_coded_prompt
<1>2. BuffersOK'
  BY <1>1, SilentBuffers
<1>3. TypeOK'
  BY <1>1, <1>2, Zenon DEF TypeOK, BuffersOK, link, continued, Elsewhere
<1>4. QED
  BY <1>1, <1>3 DEF IInv, ContinuedBelongsToItsPrompt, ContinuedHasRemaining,
     DiscoveryConserves, crcb_get_command_count, link, continued, Elsewhere

LEMMA Connect == ASSUME IInv, set_connected, Elsewhere PROVE IInv'
<1>1. /\ TypeOK /\ Silent
      /\ connected' = TRUE /\ key_valid' = FALSE /\ num_remaining_objects' = 0
      /\ continued_message_type' = INVALID /\ owner' = NoOwner
      /\ UNCHANGED <<prompt, classic, hdr, phase, key_presented>>
  BY DEF IInv, set_connected, EndContinued
<1>2. BuffersOK'
  BY <1>1, SilentBuffers
<1>3. owner' \in [tid: Tid \cup {0}, classic: BOOLEAN] /\ num_remaining_objects' \in Nat
  BY <1>1 DEF NoOwner
<1>4. TypeOK'
  BY <1>1, <1>2, <1>3, Zenon DEF TypeOK, BuffersOK, Elsewhere
<1>5. QED BY <1>1, <1>4, NothingContinued

LEMMA Disconnect == ASSUME IInv, set_disconnected, Elsewhere PROVE IInv'
<1>1. /\ TypeOK /\ Silent
      /\ connected' = FALSE /\ key_presented' = FALSE
      /\ UNCHANGED <<key_valid, prompt, classic, hdr, continued, phase>>
  BY DEF IInv, set_disconnected
<1>2. BuffersOK'
  BY <1>1, SilentBuffers
<1>3. TypeOK'
  BY <1>1, <1>2, Zenon DEF TypeOK, BuffersOK, continued, Elsewhere
<1>4. QED
  BY <1>1, <1>3 DEF IInv, ContinuedBelongsToItsPrompt, ContinuedHasRemaining,
     DiscoveryConserves, crcb_get_command_count, continued, Elsewhere

LEMMA TakeResponse == ASSUME IInv, cr_get_coded_response_buffer, Elsewhere PROVE IInv'
<1>1. /\ TypeOK /\ response_buffer' = NoMessage /\ sent' = <<>>
      /\ UNCHANGED <<link, prompt, classic, hdr, continued, notification_buffer, phase>>
  BY DEF IInv, cr_get_coded_response_buffer
<1>2. sent' \in Seq(Sendable)
  BY <1>1, EmptySeq
<1>3. TypeOK'
  BY <1>1, <1>2, Zenon DEF TypeOK, link, continued, Elsewhere
<1>4. QED
  BY <1>1, <1>3 DEF IInv, ContinuedBelongsToItsPrompt, ContinuedHasRemaining,
     DiscoveryConserves, crcb_get_command_count, link, continued, Elsewhere

LEMMA Stutter == ASSUME IInv, UNCHANGED vars PROVE IInv'
  BY DEF IInv, TypeOK, ContinuedBelongsToItsPrompt, ContinuedHasRemaining, DiscoveryConserves,
     crcb_get_command_count, vars, coreVars, commandVars, link, buffers, continued

-----------------------------------------------------------------------------
(* The theorems.                                                           *)

LEMMA ProcessIInv == ASSUME IInv, cr_process PROVE IInv'
<1>1. CASE CoreProcess /\ Elsewhere
  <2>1. CASE handle_ping
    BY <1>1, <2>1, Ping
  <2>2. CASE handle_get_device_info
    BY <1>1, <2>2, DeviceInfo
  <2>3. CASE handle_undecodable_header
    BY <1>1, <2>3, UndecodableHeader
  <2>4. CASE handle_undecodable_payload
    BY <1>1, <2>4, UndecodablePayload
  <2>5. CASE handle_unhandled_type
    BY <1>1, <2>5, UnhandledType
  <2>6. CASE process_no_prompt
    BY <1>1, <2>6, NoPromptStep
  <2>7. QED BY <1>1, <2>1, <2>2, <2>3, <2>4, <2>5, <2>6 DEF CoreProcess, CoreHandlers
<1>2. CASE handle_discover_commands
  BY <1>2, Discover
<1>3. CASE continue_discover_commands
  BY <1>3, ContinueDiscovery
<1>4. CASE handle_send_command
  BY <1>4, SendCommand
<1>5. QED BY <1>1, <1>2, <1>3, <1>4 DEF cr_process, Elsewhere

LEMMA ApplicationIInv == ASSUME IInv, Application PROVE IInv'
<1>1. CoreApplication(CommandPrompts) /\ Elsewhere
  BY DEF Application, Elsewhere
<1>2. CASE cr_store_coded_prompt(CommandPrompts)
  BY <1>1, <1>2, StorePrompt
<1>3. CASE set_connected
  BY <1>1, <1>3, Connect
<1>4. CASE set_disconnected
  BY <1>1, <1>4, Disconnect
<1>5. CASE cr_get_coded_response_buffer
  BY <1>1, <1>5, TakeResponse
<1>6. QED BY <1>1, <1>2, <1>3, <1>4, <1>5 DEF CoreApplication

LEMMA StepIInv == IInv /\ [Next]_vars => IInv'
  BY ProcessIInv, ApplicationIInv, Stutter DEF Next

(* The inductive invariant holds in every reachable state, for every table, *)
(* chunk and set of transaction ids.                                       *)
THEOREM Invariance == Spec => []IInv
  BY InitIInv, StepIInv, PTL DEF Spec

(* Every variable keeps its type; in particular no message of a discovery   *)
(* describes a blank entry.                                                *)
THEOREM TypeCorrect == Spec => []TypeOK
<1>1. IInv => TypeOK
  BY DEF IInv
<1>2. QED BY <1>1, Invariance, PTL

(* handle_discover_commands loses and repeats no entry of the table: what   *)
(* was sent and what is announced as remaining always make it up.          *)
THEOREM DiscoveryIsConserved == Spec => []DiscoveryConserves
<1>1. IInv => DiscoveryConserves
  BY DEF IInv
<1>2. QED BY <1>1, Invariance, PTL

(* handle_continued_transactions answers under the transaction id and the   *)
(* header format of the prompt that began the transaction.                 *)
THEOREM ContinuedIsOwned == Spec => []ContinuedBelongsToItsPrompt
<1>1. IInv => ContinuedBelongsToItsPrompt
  BY DEF IInv
<1>2. QED BY <1>1, Invariance, PTL

(* cr_process never calls a continued handler with nothing left to send.    *)
THEOREM ContinuedIsNeverEmpty == Spec => []ContinuedHasRemaining
<1>1. IInv => ContinuedHasRemaining
  BY DEF IInv
<1>2. QED BY <1>1, Invariance, PTL

(* Each further message of a discovery has entries that none before it had. *)
LEMMA ContinueIsFresh ==
  ASSUME IInv, continue_discover_commands
  PROVE  response_buffer'.body \cap received = {}
<1> DEFINE index == sCr_requested_command_index
           num   == num_remaining_objects
<1>1. TypeOK /\ continued_message_type = "DISCOVER_COMMANDS"
  BY DEF IInv, continue_discover_commands, AtContinued
<1>2. index \in Nat /\ num \in Nat
  BY <1>1, CommandAssumption DEF TypeOK
<1>3. received = 1 .. index /\ index + num = crcb_get_command_count
  BY <1>1 DEF IInv, DiscoveryConserves
<1>4. Fetched(index) \in 0 .. num /\ Described(index, num) = index + 1 .. index + Fetched(index)
  BY <1>1, <1>2, <1>3, OneMessage
<1>5. response_buffer'.body = Described(index, num)
  BY DEF continue_discover_commands, Continue, Encode, Message
<1>6. QED BY <1>2, <1>3, <1>4, <1>5

(* No message of a discovery repeats an entry that an earlier one had.      *)
NoEntryTwice ==
  [][ continue_discover_commands => response_buffer'.body \cap received = {} ]_vars

(* The client gets each command of a discovery in one message only.         *)
THEOREM NothingTwice == Spec => NoEntryTwice
<1>1. IInv /\ [Next]_vars =>
        [continue_discover_commands => response_buffer'.body \cap received = {}]_vars
  BY ContinueIsFresh
<1>2. QED BY <1>1, Invariance, PTL DEF Spec, NoEntryTwice

-----------------------------------------------------------------------------
(* The end of a discovery.                                                 *)

(* An error goes out as two reports and the response buffer.               *)
LEMMA FailSendsThree ==
  ASSUME NEW code, Fail(<<code>>, code) PROVE Len(sent') = 3
<1> DEFINE codes   == Append(<<code>>, code)
           reports == Reports(prompt.classic, codes)
           S       == { reports[i] : i \in 1 .. 2 } \cup {response_buffer}
<1>1. Len(codes) = 2 /\ DOMAIN codes = 1 .. 2
  OBVIOUS
<1>2. reports \in [1 .. 2 -> S]
  BY <1>1 DEF Reports
<1>3. reports \in Seq(S)
  BY <1>2, SeqDef
<1>4. Len(reports) = 2
  BY <1>2, <1>3, LenProperties
<1>5. <<response_buffer>> \in Seq(S) /\ Len(<<response_buffer>>) = 1
  OBVIOUS
<1>6. sent' = reports \o <<response_buffer>>
  BY DEF Fail, Report
<1>7. Len(reports \o <<response_buffer>>) = Len(reports) + 1
  BY <1>3, <1>5, ConcatProperties
<1>8. QED BY <1>4, <1>6, <1>7

(* A step that sends nothing, an error, or a message of another type.       *)
LEMMA NoLastMessage ==
  ASSUME \/ sent' = <<>>
         \/ Len(sent') = 3
         \/ response_buffer'.type # "DISCOVER_COMMANDS"
  PROVE  DiscoveryComplete'
  BY DEF DiscoveryComplete

LEMMA DiscoverComplete == ASSUME IInv, handle_discover_commands PROVE DiscoveryComplete'
<1> DEFINE num       == crcb_get_command_count
           remaining == RemainingAfter(0, num)
           entries   == Described(0, num)
<1>1. TypeOK
  BY DEF IInv
<1>2. num \in Nat /\ 0 + num = crcb_get_command_count
  BY <1>1, CountType, CommandAssumption
<1>3. /\ Fetched(0) \in 0 .. num
      /\ remaining = num - Fetched(0)
      /\ entries = 0 + 1 .. 0 + Fetched(0)
  BY <1>1, <1>2, OneMessage
<1>4. /\ response_buffer'.remaining = remaining
      /\ received' = entries
      /\ UNCHANGED link
  BY DEF handle_discover_commands, Respond, Encode, Message
<1>5. crcb_get_command_count' = num
  BY <1>4 DEF crcb_get_command_count, link
<1>6. remaining = 0 => received' = 1 .. crcb_get_command_count'
  BY <1>2, <1>3, <1>4, <1>5
<1>7. QED BY <1>4, <1>6 DEF DiscoveryComplete

LEMMA ContinueComplete == ASSUME IInv, continue_discover_commands PROVE DiscoveryComplete'
<1> DEFINE index     == sCr_requested_command_index
           num       == num_remaining_objects
           remaining == RemainingAfter(index, num)
           entries   == Described(index, num)
<1>1. TypeOK /\ continued_message_type = "DISCOVER_COMMANDS"
  BY DEF IInv, continue_discover_commands, AtContinued
<1>2. index \in Nat /\ num \in Nat
  BY <1>1, CommandAssumption DEF TypeOK
<1>3. received = 1 .. index /\ index + num = crcb_get_command_count
  BY <1>1 DEF IInv, DiscoveryConserves
<1>4. /\ Fetched(index) \in 0 .. num
      /\ remaining = num - Fetched(index)
      /\ entries = index + 1 .. index + Fetched(index)
  BY <1>1, <1>2, <1>3, OneMessage
<1>5. /\ response_buffer'.remaining = remaining
      /\ received' = received \cup entries
      /\ UNCHANGED link
  BY DEF continue_discover_commands, Continue, Encode, Message
<1>6. crcb_get_command_count' = index + num
  BY <1>3, <1>5 DEF crcb_get_command_count, link
<1>7. received' = 1 .. index + Fetched(index)
  BY <1>2, <1>3, <1>4, <1>5
<1>8. remaining = 0 => received' = 1 .. crcb_get_command_count'
  BY <1>2, <1>4, <1>6, <1>7
<1>9. QED BY <1>5, <1>8 DEF DiscoveryComplete

LEMMA StepComplete == IInv /\ DiscoveryComplete /\ [Next]_vars => DiscoveryComplete'
<1> SUFFICES ASSUME IInv, DiscoveryComplete, [Next]_vars PROVE DiscoveryComplete'
  OBVIOUS
<1>1. CASE handle_discover_commands
  BY <1>1, DiscoverComplete
<1>2. CASE continue_discover_commands
  BY <1>2, ContinueComplete
<1>3. CASE handle_send_command
  BY <1>3, NoLastMessage DEF handle_send_command, Silent, Respond, Encode, Message
<1>4. CASE CoreProcess
  <2>1. CASE handle_undecodable_header \/ handle_undecodable_payload
    BY <2>1, FailSendsThree, NoLastMessage
       DEF handle_undecodable_header, handle_undecodable_payload
  <2>2. CASE handle_unhandled_type
    BY <2>2, FailSendsThree, NoLastMessage DEF handle_unhandled_type
  <2>3. CASE handle_ping
    BY <2>3, NoLastMessage DEF handle_ping, Silent, Respond, Encode, Message
  <2>4. CASE handle_get_device_info
    BY <2>4, NoLastMessage DEF handle_get_device_info, Respond, Encode, Message
  <2>5. CASE process_no_prompt
    BY <2>5, NoLastMessage DEF process_no_prompt, Silent
  <2>6. QED BY <1>4, <2>1, <2>2, <2>3, <2>4, <2>5 DEF CoreProcess, CoreHandlers
<1>5. CASE Application
  BY <1>5, NoLastMessage DEF Application, CoreApplication, cr_store_coded_prompt, set_connected,
     set_disconnected, cr_get_coded_response_buffer, Silent
<1>6. CASE UNCHANGED vars
  BY <1>6 DEF DiscoveryComplete, crcb_get_command_count, vars, coreVars, commandVars, buffers, link
<1>7. QED BY <1>1, <1>2, <1>3, <1>4, <1>5, <1>6 DEF Next, cr_process

(* The last message of handle_discover_commands leaves the client with the  *)
(* whole table that its access level shows, for every table and message.   *)
THEOREM DiscoveryEndsComplete == Spec => []DiscoveryComplete
<1>1. Init => DiscoveryComplete
  BY DEF Init, CoreInit, DiscoveryComplete
<1>2. QED BY <1>1, StepComplete, Invariance, PTL DEF Spec

-----------------------------------------------------------------------------
(* Access.                                                                 *)

(* While the link is up, a valid key was presented on this connection.      *)
KeyInv == connected /\ key_valid => key_presented

LEMMA KeyInvStep == KeyInv /\ [Next]_vars => KeyInv'
<1> SUFFICES ASSUME KeyInv, [Next]_vars PROVE KeyInv'
  OBVIOUS
<1>1. CASE UNCHANGED link
  BY <1>1 DEF KeyInv, link
<1>2. CASE handle_get_device_info
  BY <1>2 DEF KeyInv, handle_get_device_info
<1>3. CASE set_connected
  BY <1>3 DEF KeyInv, set_connected
<1>4. CASE set_disconnected
  BY <1>4 DEF KeyInv, set_disconnected
<1>5. CASE UNCHANGED vars
  BY <1>1, <1>5 DEF vars, coreVars
<1>6. CASE cr_process
  BY <1>1, <1>2, <1>6
     DEF cr_process, CoreProcess, CoreHandlers, handle_ping, handle_undecodable_header,
         handle_undecodable_payload, handle_unhandled_type, process_no_prompt,
         handle_discover_commands, continue_discover_commands, Continue, handle_send_command
<1>7. CASE Application
  BY <1>1, <1>3, <1>4, <1>7
     DEF Application, CoreApplication, cr_store_coded_prompt, cr_get_coded_response_buffer
<1>8. QED BY <1>5, <1>6, <1>7 DEF Next

LEMMA CommandsRun ==
  ASSUME TypeOK, KeyInv, Next
  PROVE  executed' \subseteq 1 .. NumOpen \/ (key_valid /\ key_presented)
<1>1. CASE executed' = {}
  BY <1>1
<1>2. CASE handle_send_command /\ executed' # {}
  <2>1. /\ prompt.type = "SEND_COMMAND" /\ prompt # NoPrompt /\ connected
        /\ crcb_access_granted(prompt.arg.command_id)
        /\ executed' = {prompt.arg.command_id}
    BY <1>2 DEF handle_send_command, Dispatch, AtPrompt, NoPrompt
  <2>2. prompt.arg.command_id \in 1 .. NumCommands
    BY <2>1, PromptFields
  <2>3. CASE key_valid
    BY <2>1, <2>3 DEF KeyInv
  <2>4. CASE ~key_valid
    <3>1. prompt.arg.command_id <= NumOpen
      BY <2>1, <2>4 DEF crcb_access_granted, crcb_get_command_count
    <3>2. prompt.arg.command_id \in 1 .. NumOpen
      BY <2>2, <3>1, CommandAssumption
    <3>3. QED BY <2>1, <3>2
  <2>5. QED BY <2>3, <2>4
<1>3. QED
  BY <1>1, <1>2 DEF Next, cr_process, Application, handle_discover_commands,
                    continue_discover_commands

(* A command outside the open ones runs only for a client whose key was     *)
(* accepted on the connection that is up (cr_set_comm_link_connected).      *)
THEOREM RestrictedCommands == Spec => RestrictedNeedsKey
<1>1. Init => KeyInv
  BY DEF Init, CoreInit, KeyInv
<1>2. TypeOK /\ KeyInv /\ [Next]_vars =>
        [executed' \subseteq 1 .. NumOpen \/ (key_valid /\ key_presented)]_vars
  BY CommandsRun
<1>3. QED BY <1>1, <1>2, KeyInvStep, TypeCorrect, PTL DEF Spec, RestrictedNeedsKey

-----------------------------------------------------------------------------
(* The discovery of commands implements ChunkedDiscovery.                   *)

AbstractVars == <<received, EntriesLeft>>

LEMMA BeginMaps ==
  ASSUME IInv, handle_discover_commands
  PROVE  Discovery!Begin
<1> DEFINE num       == crcb_get_command_count
           remaining == RemainingAfter(0, num)
<1>1. TypeOK /\ Dispatched
  BY DEF IInv, handle_discover_commands, Dispatch, Dispatched, NoPrompt
<1>2. continued_message_type = INVALID
  BY <1>1, PromptMeansNothingContinued DEF Dispatched
<1>3. EntriesLeft = 0
  BY <1>2 DEF EntriesLeft
<1>4. num \in 0 .. NumCommands /\ NumCommands \in Nat
  BY <1>1, CountType, CommandAssumption
<1>5. 0 \in Nat /\ num \in Nat /\ 0 + num = crcb_get_command_count
  BY <1>4
<1>6. /\ Fetched(0) = Discovery!InChunk(num)
      /\ Fetched(0) \in 0 .. num
      /\ remaining = num - Fetched(0)
      /\ Described(0, num) = 0 + 1 .. 0 + Fetched(0)
  BY <1>1, <1>5, OneMessage DEF Discovery!InChunk
<1>7. received' = 1 .. 0 + Discovery!InChunk(num)
  BY <1>6 DEF handle_discover_commands
<1>8. EntriesLeft' = num - Discovery!InChunk(num)
  <2>1. num_remaining_objects' = remaining
    BY DEF handle_discover_commands, Respond
  <2>2. CASE remaining > 0
    <3>1. continued_message_type' # INVALID
      BY <2>2 DEF handle_discover_commands, BeginContinued, INVALID
    <3>2. QED BY <1>6, <2>1, <3>1 DEF EntriesLeft
  <2>3. CASE ~(remaining > 0)
    <3>1. continued_message_type' = INVALID
      BY <1>2, <2>3 DEF handle_discover_commands, KeepContinued
    <3>2. remaining = 0
      BY <1>4, <1>6, <2>3
    <3>3. QED BY <1>6, <3>1, <3>2 DEF EntriesLeft
  <2>4. QED BY <2>2, <2>3
<1>9. Discovery!Deliver(0, num)
  BY <1>7, <1>8 DEF Discovery!Deliver
<1>10. QED BY <1>3, <1>4, <1>9 DEF Discovery!Begin

LEMMA ProceedMaps ==
  ASSUME IInv, continue_discover_commands
  PROVE  Discovery!Proceed
<1> DEFINE index     == sCr_requested_command_index
           num       == num_remaining_objects
           remaining == RemainingAfter(index, num)
<1>1. TypeOK /\ continued_message_type = "DISCOVER_COMMANDS"
  BY DEF IInv, continue_discover_commands, AtContinued
<1>2. index \in 0 .. NumCommands /\ index \in Nat /\ num \in Nat
  BY <1>1, CommandAssumption DEF TypeOK
<1>3. received = 1 .. index /\ index + num = crcb_get_command_count
  BY <1>1 DEF IInv, DiscoveryConserves
<1>4. EntriesLeft = num /\ num > 0
  BY <1>1 DEF EntriesLeft, IInv, ContinuedHasRemaining, INVALID
<1>5. /\ Fetched(index) = Discovery!InChunk(num)
      /\ Fetched(index) \in 0 .. num
      /\ remaining = num - Fetched(index)
      /\ Described(index, num) = index + 1 .. index + Fetched(index)
  BY <1>1, <1>2, <1>3, OneMessage DEF Discovery!InChunk
<1>6. received' = 1 .. index + Discovery!InChunk(num)
  <2>1. received' = received \cup Described(index, num)
    BY DEF continue_discover_commands
  <2>2. received \cup Described(index, num) = 1 .. index + Fetched(index)
    BY <1>2, <1>3, <1>5
  <2>3. QED BY <1>5, <2>1, <2>2
<1>7. EntriesLeft' = num - Discovery!InChunk(num)
  <2>1. num_remaining_objects' = remaining
    BY DEF continue_discover_commands, Continue
  <2>2. CASE remaining = 0
    <3>1. continued_message_type' = INVALID
      BY <2>2 DEF continue_discover_commands, Continue, EndContinued
    <3>2. QED BY <1>5, <2>2, <3>1 DEF EntriesLeft
  <2>3. CASE remaining # 0
    <3>1. continued_message_type' # INVALID
      BY <1>1, <2>3 DEF continue_discover_commands, Continue, KeepContinued, INVALID
    <3>2. QED BY <1>5, <2>1, <3>1 DEF EntriesLeft
  <2>4. QED BY <2>2, <2>3
<1>8. Discovery!Deliver(index, num)
  BY <1>6, <1>7 DEF Discovery!Deliver
<1>9. QED BY <1>2, <1>3, <1>4, <1>8 DEF Discovery!Proceed

(* A prompt that is no discovery finds nothing left and leaves it so.       *)
LEMMA OtherPromptMaps ==
  ASSUME TypeOK, AtPrompt, KeepContinued, received' = received
  PROVE  UNCHANGED AbstractVars
<1>1. continued_message_type = INVALID /\ continued_message_type' = INVALID
  BY PromptMeansNothingContinued DEF KeepContinued
<1>2. QED BY <1>1 DEF AbstractVars, EntriesLeft

LEMMA ConnectMaps ==
  ASSUME TypeOK, set_connected, received' = received
  PROVE  Discovery!Abandon \/ UNCHANGED AbstractVars
<1>1. EntriesLeft' = 0
  BY DEF set_connected, EndContinued, EntriesLeft
<1>2. EntriesLeft \in Nat
  BY DEF TypeOK, EntriesLeft
<1>3. EntriesLeft > 0 => Discovery!Abandon
  BY <1>1 DEF Discovery!Abandon
<1>4. ~(EntriesLeft > 0) => UNCHANGED AbstractVars
  BY <1>1, <1>2 DEF AbstractVars
<1>5. QED BY <1>3, <1>4

LEMMA StepMaps ==
  IInv /\ [Next]_vars => [Discovery!DiscoveryNext]_AbstractVars
<1> SUFFICES ASSUME IInv, [Next]_vars PROVE Discovery!DiscoveryNext \/ UNCHANGED AbstractVars
  OBVIOUS
<1> USE DEF Discovery!DiscoveryNext
<1>0. TypeOK
  BY DEF IInv
<1>1. CASE handle_discover_commands
  BY <1>1, BeginMaps
<1>2. CASE continue_discover_commands
  BY <1>2, ProceedMaps
<1>3. CASE handle_send_command
  BY <1>0, <1>3, OtherPromptMaps DEF handle_send_command, Dispatch
<1>4. CASE CoreProcess /\ Elsewhere
  <2>1. AtPrompt /\ KeepContinued /\ received' = received
    BY <1>4 DEF CoreProcess, CoreHandlers, Elsewhere, handle_ping, handle_get_device_info,
       handle_undecodable_header, handle_undecodable_payload, handle_unhandled_type,
       process_no_prompt, Dispatch, KeepContinued, continued
  <2>2. QED BY <1>0, <2>1, OtherPromptMaps
<1>5. CASE Application
  <2>1. received' = received
    BY <1>5 DEF Application
  <2>2. CASE set_connected
    BY <1>0, <2>1, <2>2, ConnectMaps
  <2>3. CASE ~set_connected
    <3>1. UNCHANGED continued
      BY <1>5, <2>3 DEF Application, CoreApplication, cr_store_coded_prompt,
         set_disconnected, cr_get_coded_response_buffer
    <3>2. QED BY <2>1, <3>1 DEF AbstractVars, EntriesLeft, continued
  <2>4. QED BY <2>2, <2>3
<1>6. CASE UNCHANGED vars
  BY <1>6 DEF vars, coreVars, commandVars, continued, AbstractVars, EntriesLeft
<1>7. QED BY <1>1, <1>2, <1>3, <1>4, <1>5, <1>6 DEF Next, cr_process, Elsewhere

(* The discovery of commands, with every prompt, failure and reconnection   *)
(* around it, is a chunked discovery: the whole table, in order, once.      *)
THEOREM Refinement == Spec => ImplementsDiscovery
<1>1. Init => Discovery!DiscoveryInit
  BY DEF Init, CoreInit, EntriesLeft, Discovery!DiscoveryInit
<1>2. AbstractVars = Discovery!discoveryVars
  BY DEF AbstractVars, Discovery!discoveryVars
<1>3. IInv /\ [Next]_vars => [Discovery!DiscoveryNext]_(Discovery!discoveryVars)
  BY StepMaps, <1>2 DEF AbstractVars, Discovery!discoveryVars
<1>4. QED
  BY <1>1, <1>3, Invariance, PTL DEF Spec, ImplementsDiscovery, Discovery!DiscoverySpec
=============================================================================
