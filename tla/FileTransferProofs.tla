-------------------------- MODULE FileTransferProofs --------------------------
(***************************************************************************)
(* Theorems of the file service, for every file, size of packets, set of    *)
(* requests and packets: the types and the invariants of writes with any    *)
(* client, those of reads with a client that sends data in writes only and  *)
(* notifications in reads only.                                            *)
(***************************************************************************)
EXTENDS FileTransfer, SequenceTheorems, TLAPS

States == {"FILE_TRANSFER_INVALID", "IDLE", "INIT", "DATA", "COMPLETE"}

Transfer ==
  [state: States, read_write: BOOLEAN, request_offset: Nat, transfer_length: Nat,
   message_number: Nat, messages_per_ack: Nat, messages_until_ack: Nat,
   bytes_transfered: Nat, use_checksum: BOOLEAN]

History ==
  [start: Nat, window: Nat, unanswered: Nat, completed: BOOLEAN, erred: BOOLEAN,
   current: BOOLEAN]

Reported ==
  {"DECODING_FAILED", "NOT_IMPLEMENTED", "BAD_FILE", "INVALID_ID", "PERMISSION_DENIED",
   "WRITE_FAILED", "READ_FAILED", "INVALID_STATE", "INCOMPLETE"}

Continuable == {INVALID, "TRANSFER_DATA", "DISCOVER_FILES"}

(* The types of the core's variables; and a call goes on to the prompt only *)
(* when it has nothing left to continue.                                   *)
CoreType ==
  /\ connected \in BOOLEAN /\ key_valid \in BOOLEAN
  /\ prompt \in FilePrompts \cup {NoPrompt}
  /\ classic \in BOOLEAN
  /\ hdr \in Tid \cup {0}
  /\ continued_message_type \in Continuable
  /\ num_remaining_objects \in Nat
  /\ phase \in {"idle", "prompt"}
  /\ phase = "prompt" => continued_message_type = INVALID
  /\ Len(sent) <= 3

(* The types of the service's: a transfer that has begun acknowledges.      *)
FileType ==
  /\ xfer \in Transfer
  /\ xfer.messages_until_ack <= xfer.messages_per_ack
  /\ Moving => xfer.messages_per_ack > 0
  /\ watchdog \in BOOLEAN
  /\ DOMAIN file = 0 .. FileSize - 1
  /\ past \in History

-----------------------------------------------------------------------------
(* Lemmas about prompts and messages.                                      *)

(* What a stored prompt's fields may be.                                   *)
LEMMA PromptFields ==
  ASSUME CoreType, prompt # NoPrompt
  PROVE  /\ prompt.tid \in Tid
         /\ prompt.classic \in BOOLEAN
         /\ prompt.more \in Nat
         /\ prompt.type = "TRANSFER_INIT" => prompt.arg \in Requests
         /\ prompt.type = "TRANSFER_DATA" => prompt.arg \in Packets
         /\ prompt.type = "TRANSFER_DATA_NOTIFICATION" => prompt.arg \in [is_complete: BOOLEAN]
<1>1. prompt \in FilePrompts
  BY DEF CoreType
<1>2. QED
  BY <1>1, CoreAssumption DEF FilePrompts, CorePrompts, Wire, NoArgs

LEMMA SameInterval ==
  ASSUME NEW m \in Nat, NEW n \in Nat, 1 .. m = 1 .. n PROVE m = n
<1>1. CASE m < n
  <2>1. n \in 1 .. n /\ n \notin 1 .. m
    BY <1>1
  <2>2. QED BY <2>1
<1>2. CASE n < m
  <2>1. m \in 1 .. m /\ m \notin 1 .. n
    BY <1>2
  <2>2. QED BY <2>1
<1>3. QED BY <1>1, <1>2

(* Up to two reports and a message are three.                              *)
LEMMA ReportLength ==
  ASSUME NEW format, NEW codes \in Seq(Reported), Len(codes) <= 2, NEW m,
         Report(format, codes, <<m>>)
  PROVE  Len(sent') <= 3
<1> DEFINE reports == Reports(format, codes)
           S == { reports[i] : i \in 1 .. Len(codes) } \cup {m}
<1>1. Len(codes) \in Nat /\ DOMAIN codes = 1 .. Len(codes)
  OBVIOUS
<1>2. reports \in [1 .. Len(codes) -> S]
  BY <1>1 DEF Reports
<1>3. reports \in Seq(S) /\ Len(reports) = Len(codes)
  <2>1. reports \in Seq(S)
    BY <1>1, <1>2, SeqDef
  <2>2. DOMAIN reports = 1 .. Len(reports) /\ DOMAIN reports = 1 .. Len(codes)
    BY <1>2, <2>1
  <2>3. Len(reports) \in Nat
    BY <2>1
  <2>4. QED BY <1>1, <2>1, <2>2, <2>3, SameInterval
<1>4. <<m>> \in Seq(S) /\ Len(<<m>>) = 1
  OBVIOUS
<1>5. Len(reports \o <<m>>) = Len(reports) + 1
  BY <1>3, <1>4, ConcatProperties
<1>6. QED BY <1>1, <1>3, <1>5 DEF Report

LEMMA Codes ==
  /\ <<>> \in Seq(Reported) /\ Len(<<>>) = 0
  /\ \A c \in Reported : <<c>> \in Seq(Reported) /\ Len(<<c>>) = 1
<1>1. <<>> \in Seq(Reported) /\ Len(<<>>) = 0
  BY EmptySeq
<1>2. QED BY <1>1

LEMMA EncodeLength ==
  ASSUME NEW type, NEW tid, NEW format, NEW remaining, NEW body,
         NEW codes \in Seq(Reported), Len(codes) <= 2,
         Encode(type, tid, format, remaining, body, codes)
  PROVE  Len(sent') <= 3
BY ReportLength DEF Encode

LEMMA FailLength ==
  ASSUME NEW codes \in Seq(Reported), Len(codes) <= 1, NEW rval \in Reported, Fail(codes, rval)
  PROVE  Len(sent') <= 3
<1>1. Append(codes, rval) \in Seq(Reported) /\ Len(Append(codes, rval)) = Len(codes) + 1
  BY AppendProperties
<1>2. Len(Append(codes, rval)) <= 2
  BY <1>1
<1>3. Report(prompt.classic, Append(codes, rval), <<response_buffer>>)
  BY DEF Fail
<1>4. QED BY <1>1, <1>2, <1>3, ReportLength

(* The ways a step ends.                                                   *)
LEMMA RespondLength ==
  ASSUME NEW type, NEW remaining, NEW body, NEW codes \in Seq(Reported), Len(codes) <= 2,
         Respond(type, remaining, body, codes)
  PROVE  Len(sent') <= 3
<1>1. Encode(type, prompt.tid, prompt.classic, remaining, body, codes)
  BY DEF Respond
<1>2. QED BY <1>1, EncodeLength

LEMMA PlainLength ==
  ASSUME NEW type, NEW remaining, NEW body, Respond(type, remaining, body, <<>>)
  PROVE  Len(sent') <= 3
<1>1. <<>> \in Seq(Reported) /\ Len(<<>>) <= 2
  BY Codes
<1>2. QED BY <1>1, RespondLength

LEMMA FailOnceLength ==
  ASSUME NEW code \in Reported, NEW rval \in Reported, Fail(<<code>>, rval)
  PROVE  Len(sent') <= 3
<1>1. <<code>> \in Seq(Reported) /\ Len(<<code>>) <= 1
  BY Codes
<1>2. QED BY <1>1, FailLength

LEMMA SilentLength == ASSUME Silent PROVE Len(sent') <= 3
BY DEF Silent

(* A prompt is looked at only when nothing is continued.                    *)
LEMMA PromptMeansNothingContinued ==
  ASSUME CoreType, AtPrompt PROVE continued_message_type = INVALID
  BY DEF CoreType, AtPrompt

(* What a prompt that is handled leaves to be shown of the core.            *)
LEMMA PromptCore ==
  ASSUME CoreType, NEW type, type # "NONE", Dispatch(type),
         connected' \in BOOLEAN, key_valid' \in BOOLEAN,
         continued_message_type' \in Continuable,
         num_remaining_objects' \in Nat, Len(sent') <= 3
  PROVE  CoreType'
<1>1. prompt # NoPrompt
  BY DEF Dispatch, NoPrompt
<1>2. prompt.tid \in Tid /\ prompt.classic \in BOOLEAN
  BY <1>1, PromptFields
<1>3. QED BY <1>2 DEF Dispatch, CoreType

LEMMA SameLink ==
  ASSUME CoreType, UNCHANGED link
  PROVE  connected' \in BOOLEAN /\ key_valid' \in BOOLEAN
  BY DEF CoreType, link

-----------------------------------------------------------------------------
(* The core's own steps, which leave the transfer alone.                    *)

LEMMA CoreProcessType == ASSUME CoreType, CoreProcess PROVE CoreType'
<1>1. CASE handle_ping
  <2>1. Dispatch("PING") /\ KeepContinued /\ UNCHANGED link /\ num_remaining_objects' = 0
    BY <1>1 DEF handle_ping, Respond
  <2>2. Len(sent') <= 3
    <3>1. CASE key_valid
      BY <1>1, <3>1, PlainLength DEF handle_ping
    <3>2. CASE ~key_valid
      BY <1>1, <3>2, SilentLength DEF handle_ping
    <3>3. QED BY <3>1, <3>2
  <2>3. continued_message_type' \in Continuable
    BY <2>1 DEF CoreType, KeepContinued
  <2>4. QED BY <2>1, <2>2, <2>3, SameLink, PromptCore
<1>2. CASE handle_get_device_info
  <2>1. Dispatch("GET_DEVICE_INFO") /\ KeepContinued /\ num_remaining_objects' = 0
        /\ connected' \in BOOLEAN /\ key_valid' \in BOOLEAN
    BY <1>2 DEF handle_get_device_info, Respond, CoreType
  <2>2. Len(sent') <= 3
    BY <1>2, PlainLength DEF handle_get_device_info
  <2>3. continued_message_type' \in Continuable
    BY <2>1 DEF CoreType, KeepContinued
  <2>4. QED BY <2>1, <2>2, <2>3, PromptCore
<1>3. CASE handle_undecodable_header
  <2>1. AtPrompt /\ prompt # NoPrompt
    BY <1>3 DEF handle_undecodable_header, NoPrompt
  <2>2. prompt.classic \in BOOLEAN
    BY <2>1, PromptFields
  <2>3. Len(sent') <= 3
    BY <1>3, FailOnceLength DEF Reported, handle_undecodable_header
  <2>4. QED
    BY <1>3, <2>1, <2>2, <2>3 DEF handle_undecodable_header, link, continued, CoreType
<1>4. CASE handle_undecodable_payload
  <2>1. Dispatch("BAD_PAYLOAD") /\ KeepContinued /\ UNCHANGED link /\ prompt # NoPrompt
    BY <1>4 DEF handle_undecodable_payload, Dispatch, NoPrompt
  <2>2. num_remaining_objects' \in Nat
    BY <1>4, <2>1, PromptFields DEF handle_undecodable_payload, CoreType
  <2>3. Len(sent') <= 3
    BY <1>4, FailOnceLength DEF Reported, handle_undecodable_payload
  <2>4. continued_message_type' \in Continuable
    BY <2>1 DEF CoreType, KeepContinued
  <2>5. QED BY <2>1, <2>2, <2>3, <2>4, SameLink, PromptCore
<1>5. CASE handle_unhandled_type
  <2>1. Dispatch("UNHANDLED") /\ KeepContinued /\ UNCHANGED link /\ num_remaining_objects' = 0
    BY <1>5 DEF handle_unhandled_type
  <2>2. Len(sent') <= 3
    BY <1>5, FailOnceLength DEF Reported, handle_unhandled_type
  <2>3. continued_message_type' \in Continuable
    BY <2>1 DEF CoreType, KeepContinued
  <2>4. QED BY <2>1, <2>2, <2>3, SameLink, PromptCore
<1>6. CASE process_no_prompt
  <2>1. Len(sent') <= 3
    BY <1>6, SilentLength DEF process_no_prompt
  <2>2. QED BY <1>6, <2>1 DEF process_no_prompt, link, continued, CoreType
<1>7. QED
  BY <1>1, <1>2, <1>3, <1>4, <1>5, <1>6 DEF CoreProcess, CoreHandlers

LEMMA ApplicationType ==
  ASSUME CoreType, NEW prompts \in SUBSET FilePrompts, CoreApplication(prompts)
  PROVE  CoreType'
<1>1. CASE cr_store_coded_prompt(prompts)
  <2>1. Len(sent') <= 3
    BY <1>1, SilentLength DEF cr_store_coded_prompt
  <2>2. QED BY <1>1, <2>1 DEF cr_store_coded_prompt, link, continued, CoreType
<1>2. CASE set_connected
  <2>1. Len(sent') <= 3
    BY <1>2, SilentLength DEF set_connected
  <2>2. QED BY <1>2, <2>1 DEF set_connected, EndContinued, CoreType, Continuable
<1>3. CASE set_disconnected
  <2>1. Len(sent') <= 3
    BY <1>3, SilentLength DEF set_disconnected
  <2>2. QED BY <1>3, <2>1 DEF set_disconnected, continued, CoreType
<1>4. CASE cr_get_coded_response_buffer
  <2>1. Len(sent') <= 3
    BY <1>4 DEF cr_get_coded_response_buffer
  <2>2. QED BY <1>4, <2>1 DEF cr_get_coded_response_buffer, link, continued, CoreType
<1>5. QED BY <1>1, <1>2, <1>3, <1>4 DEF CoreApplication

-----------------------------------------------------------------------------
(* What the service's own steps leave of the core.                          *)

LEMMA InitCoreType == ASSUME CoreType, transfer_init PROVE CoreType'
<1>1. CASE transfer_init_denied
  <2>1. Dispatch("TRANSFER_INIT") /\ UNCHANGED link /\ num_remaining_objects' = 0
        /\ continued_message_type' = INVALID
    BY <1>1 DEF transfer_init_denied, EndContinued
  <2>2. Len(sent') <= 3
    BY <1>1, SilentLength DEF transfer_init_denied
  <2>3. QED BY <2>1, <2>2, SameLink, PromptCore DEF Continuable
<1>2. CASE transfer_init_refused
  <2>1. Dispatch("TRANSFER_INIT") /\ UNCHANGED link /\ num_remaining_objects' = 0
        /\ KeepContinued
    BY <1>2 DEF transfer_init_refused
  <2>2. Len(sent') <= 3
    <3>1. CASE Fail(<<"BAD_FILE">>, "INVALID_ID")
      BY <3>1, FailOnceLength DEF Reported
    <3>2. CASE Respond("TRANSFER_INIT", 0, [result |-> "PERMISSION_DENIED", ack_rate |-> 0],
                       <<"PERMISSION_DENIED">>)
      <4>1. <<"PERMISSION_DENIED">> \in Seq(Reported) /\ Len(<<"PERMISSION_DENIED">>) <= 2
        BY Codes DEF Reported
      <4>2. QED BY <3>2, <4>1, RespondLength
    <3>3. QED BY <1>2, <3>1, <3>2 DEF transfer_init_refused
  <2>3. continued_message_type' \in Continuable
    BY <2>1 DEF CoreType, KeepContinued
  <2>4. QED BY <2>1, <2>2, <2>3, SameLink, PromptCore
<1>3. CASE transfer_init_started
  <2>1. Dispatch("TRANSFER_INIT") /\ UNCHANGED link /\ KeepContinued
    BY <1>3 DEF transfer_init_started
  <2> DEFINE denied == IF FileAccess = "WRITE" /\ ~prompt.arg.write
                         THEN <<"PERMISSION_DENIED">> ELSE <<>>
  <2>2. PICK preferred \in PreferredRates, failed \in {<<>>, <<"WRITE_FAILED">>} :
          Respond("TRANSFER_INIT", 0,
                  [result |-> "NO_ERROR",
                   ack_rate |-> AckRate(prompt.arg.ack_rate, preferred)], denied \o failed)
    BY <1>3 DEF transfer_init_started
  <2>3. /\ denied \in Seq(Reported) /\ Len(denied) <= 1
        /\ failed \in Seq(Reported) /\ Len(failed) <= 1
    <3>1. "PERMISSION_DENIED" \in Reported /\ "WRITE_FAILED" \in Reported
      BY DEF Reported
    <3>2. /\ <<>> \in Seq(Reported) /\ Len(<<>>) <= 1
          /\ <<"PERMISSION_DENIED">> \in Seq(Reported) /\ Len(<<"PERMISSION_DENIED">>) <= 1
          /\ <<"WRITE_FAILED">> \in Seq(Reported) /\ Len(<<"WRITE_FAILED">>) <= 1
      BY <3>1, Codes
    <3>3. denied = <<>> \/ denied = <<"PERMISSION_DENIED">>
      OBVIOUS
    <3>4. QED BY <3>2, <3>3
  <2>4. denied \o failed \in Seq(Reported) /\ Len(denied \o failed) = Len(denied) + Len(failed)
    BY <2>3, ConcatProperties
  <2>5. Len(denied) \in Nat /\ Len(failed) \in Nat
    BY <2>3, LenProperties
  <2>6. Len(denied \o failed) <= 2
    BY <2>3, <2>4, <2>5
  <2> HIDE DEF denied
  <2>7. Len(sent') <= 3
    BY <2>2, <2>4, <2>6, RespondLength
  <2>8. num_remaining_objects' = 0
    BY <2>2 DEF Respond
  <2>9. continued_message_type' \in Continuable
    BY <2>1 DEF CoreType, KeepContinued
  <2>10. QED BY <2>1, <2>7, <2>8, <2>9, SameLink, PromptCore
<1>4. QED BY <1>1, <1>2, <1>3 DEF transfer_init

LEMMA DataCoreType == ASSUME CoreType, transfer_data PROVE CoreType'
<1>1. ASSUME NEW packet \in Packets, TakePacket(packet), Len(sent') <= 3
      PROVE  CoreType'
  <2>1. Dispatch("TRANSFER_DATA") /\ KeepContinued /\ UNCHANGED link
        /\ num_remaining_objects' = 0
    BY <1>1 DEF TakePacket
  <2>2. continued_message_type' \in Continuable
    BY <2>1 DEF CoreType, KeepContinued
  <2>3. QED BY <1>1, <2>1, <2>2, SameLink, PromptCore
<1>2. ASSUME NEW result, NEW complete, NEW retry, Answer(result, complete, retry)
      PROVE  Len(sent') <= 3
  BY <1>2, PlainLength DEF Answer
<1>3. CASE transfer_data_out_of_sequence
  BY <1>1, <1>2, <1>3 DEF transfer_data_out_of_sequence, RetryFrom
<1>4. CASE transfer_data_bad_checksum
  BY <1>1, <1>2, <1>4 DEF transfer_data_bad_checksum, RetryFrom
<1>5. CASE transfer_data_complete
  BY <1>1, <1>2, <1>5 DEF transfer_data_complete
<1>6. CASE transfer_data_unanswered
  BY <1>1, <1>6, SilentLength DEF transfer_data_unanswered
<1>7. CASE transfer_data_acknowledged
  BY <1>1, <1>2, <1>7 DEF transfer_data_acknowledged
<1>8. CASE transfer_data_write_failed \/ transfer_data_invalid_state
  <2>1. Dispatch("TRANSFER_DATA") /\ KeepContinued /\ UNCHANGED link
        /\ num_remaining_objects' = 0
    BY <1>8 DEF transfer_data_write_failed, transfer_data_invalid_state
  <2>2. Len(sent') <= 3
    BY <1>8, FailOnceLength
       DEF transfer_data_write_failed, transfer_data_invalid_state, Reported
  <2>3. continued_message_type' \in Continuable
    BY <2>1 DEF CoreType, KeepContinued
  <2>4. QED BY <2>1, <2>2, <2>3, SameLink, PromptCore
<1>9. QED
  BY <1>3, <1>4, <1>5, <1>6, <1>7, <1>8 DEF transfer_data

(* What is announced of a transfer that has its types is a number.          *)
LEMMA AnnouncedNumber == ASSUME NEW x \in Transfer PROVE Announced(x) \in Nat
BY DEF Announced, Transfer

LEMMA ReadableNumber ==
  ASSUME FileType
  PROVE  /\ Readable \in Nat
         /\ BytesRequested \in Nat
         /\ Readable <= BytesRequested
BY FileAssumption DEF FileType, Transfer, Readable, BytesRequested, Smaller

(* A data message keeps the types of the transfer it is of.                 *)
LEMMA AfterReadTransfer ==
  ASSUME NEW x \in Transfer, NEW n \in Nat, x.messages_until_ack <= x.messages_per_ack
  PROVE  LET y == AfterRead(x, n)
         IN  /\ y \in Transfer
             /\ y.state = IF x.bytes_transfered + n = x.transfer_length
                            THEN "COMPLETE" ELSE "DATA"
             /\ y.request_offset = x.request_offset + n
             /\ y.bytes_transfered = x.bytes_transfered + n
             /\ y.transfer_length = x.transfer_length
             /\ y.read_write = x.read_write
             /\ y.messages_per_ack = x.messages_per_ack
             /\ y.messages_until_ack <= y.messages_per_ack
             /\ x.messages_until_ack > 0 => y.messages_until_ack = x.messages_until_ack - 1
<1> DEFINE bytes == x.bytes_transfered + n
           left  == IF x.messages_until_ack = 0 THEN 0 ELSE x.messages_until_ack - 1
           st    == IF bytes = x.transfer_length THEN "COMPLETE" ELSE "DATA"
<1>1. /\ bytes \in Nat /\ left \in Nat /\ st \in States
      /\ x.request_offset + n \in Nat /\ x.message_number + 1 \in Nat
      /\ left <= x.messages_per_ack
  BY DEF Transfer, States
<1>2. AfterRead(x, n) =
        [x EXCEPT !.bytes_transfered = bytes, !.request_offset = @ + n,
                  !.messages_until_ack = left, !.message_number = @ + 1, !.state = st]
  BY DEF AfterRead
<1> HIDE DEF bytes, left, st
<1>3. AfterRead(x, n) \in Transfer
  BY <1>1, <1>2 DEF Transfer
<1>4. QED BY <1>1, <1>2, <1>3 DEF Transfer, bytes, left, st

LEMMA ReopenedTransfer ==
  ASSUME FileType
  PROVE  /\ Reopened \in Transfer
         /\ Reopened.messages_until_ack = xfer.messages_per_ack
         /\ Reopened.messages_per_ack = xfer.messages_per_ack
         /\ Reopened.bytes_transfered = xfer.bytes_transfered
         /\ Reopened.request_offset = xfer.request_offset
         /\ Reopened.transfer_length = xfer.transfer_length
         /\ Reopened.read_write = xfer.read_write
         /\ Reopened.state = xfer.state
BY DEF FileType, Reopened, Transfer

LEMMA NotificationCoreType ==
  ASSUME CoreType, FileType, transfer_data_notification PROVE CoreType'
<1>1. ASSUME Dispatch("TRANSFER_DATA_NOTIFICATION"), UNCHANGED link, Len(sent') <= 3,
             num_remaining_objects' \in Nat, continued_message_type' \in Continuable
      PROVE  CoreType'
  BY <1>1, SameLink, PromptCore
<1>2. CASE read_first
  <2>1. AfterRead(Reopened, Readable) \in Transfer
    BY ReadableNumber, ReopenedTransfer, AfterReadTransfer DEF FileType, Transfer
  <2>2. Len(sent') <= 3
    BY <1>2, PlainLength DEF read_first
  <2>3. num_remaining_objects' \in Nat
    BY <1>2, <2>1, AnnouncedNumber DEF read_first, Respond
  <2>4. continued_message_type' \in Continuable
    BY <1>2 DEF read_first, BeginContinued, EndContinued, Continuable
  <2>5. QED BY <1>1, <1>2, <2>2, <2>3, <2>4 DEF read_first, CanRead
<1>3. CASE read_first_failed
  <2>1. Len(sent') <= 3
    BY <1>3, FailOnceLength DEF read_first_failed, Reported
  <2>2. QED
    BY <1>1, <1>3, <2>1 DEF read_first_failed, CanRead, EndContinued, Continuable
<1>4. CASE read_next
  <2>1. AfterRead(xfer, Readable) \in Transfer
    BY ReadableNumber, AfterReadTransfer DEF FileType
  <2>2. Continue("TRANSFER_DATA", Announced(AfterRead(xfer, Readable)),
                 FileData(AfterRead(xfer, Readable), Readable))
    BY <1>4 DEF read_next
  <2>3. Len(sent') <= 3
    <3>1. <<>> \in Seq(Reported) /\ Len(<<>>) <= 2
      BY Codes
    <3>2. QED BY <2>2, <3>1, EncodeLength DEF Continue
  <2>4. num_remaining_objects' \in Nat
    BY <2>1, <2>2, AnnouncedNumber DEF Continue
  <2>5. AtContinued("TRANSFER_DATA")
    BY <1>4 DEF read_next
  <2>6. QED
    BY <2>2, <2>3, <2>4, <2>5
       DEF AtContinued, Continue, CoreType, EndContinued, KeepContinued, Continuable, link
<1>5. CASE read_next_failed
  <2>1. <<"READ_FAILED">> \in Seq(Reported) /\ Len(<<"READ_FAILED">>) <= 2
    BY Codes DEF Reported
  <2>2. Report(classic, <<"READ_FAILED">>, <<response_buffer>>)
    BY <1>5 DEF read_next_failed, FailContinued
  <2>3. Len(sent') <= 3
    BY <2>1, <2>2, ReportLength
  <2>4. QED
    BY <1>5, <2>3 DEF read_next_failed, AtContinued, FailContinued, CoreType, EndContinued,
                      Continuable, link
<1>6. CASE read_stopped_by_client \/ read_confirmed
  <2>1. Len(sent') <= 3
    BY <1>6, PlainLength DEF read_stopped_by_client, read_confirmed
  <2>2. Dispatch("TRANSFER_DATA_NOTIFICATION") /\ UNCHANGED link
        /\ num_remaining_objects' = 0 /\ continued_message_type' = INVALID
    BY <1>6 DEF read_stopped_by_client, read_confirmed, CanRead, EndContinued, Respond
  <2>3. QED BY <1>1, <2>1, <2>2 DEF Continuable
<1>7. CASE notification_invalid_state
  <2>1. Len(sent') <= 3
    BY <1>7, FailOnceLength DEF notification_invalid_state, Reported
  <2>2. QED
    BY <1>1, <1>7, <2>1 DEF notification_invalid_state, KeepContinued, CoreType
<1>8. QED
  BY <1>2, <1>3, <1>4, <1>5, <1>6, <1>7 DEF transfer_data_notification

LEMMA OtherCoreType ==
  ASSUME CoreType, erase_file \/ discover_files \/ continue_discover_files \/ watchdog_expires
  PROVE  CoreType'
<1>1. CASE erase_file
  <2>1. Dispatch("ERASE_FILE") /\ UNCHANGED link /\ KeepContinued /\ num_remaining_objects' = 0
    BY <1>1 DEF erase_file
  <2>2. Len(sent') <= 3
    <3>1. ASSUME Fail(<<>>, "INCOMPLETE") PROVE Len(sent') <= 3
      <4>1. <<>> \in Seq(Reported) /\ Len(<<>>) <= 1
        BY Codes
      <4>2. "INCOMPLETE" \in Reported
        BY DEF Reported
      <4>3. QED BY <3>1, <4>1, <4>2, FailLength
    <3>2. QED BY <1>1, <3>1, PlainLength DEF erase_file
  <2>3. continued_message_type' \in Continuable
    BY <2>1 DEF CoreType, KeepContinued
  <2>4. QED BY <2>1, <2>2, <2>3, SameLink, PromptCore
<1>2. CASE discover_files
  <2>1. Dispatch("DISCOVER_FILES") /\ UNCHANGED link
    BY <1>2 DEF discover_files
  <2>2. Len(sent') <= 3
    BY <1>2, PlainLength, SilentLength DEF discover_files
  <2>3. num_remaining_objects' \in Nat
    BY <1>2, FileAssumption DEF discover_files, Respond
  <2>4. continued_message_type' \in Continuable
    BY <1>2 DEF discover_files, BeginContinued, KeepContinued, CoreType, Continuable
  <2>5. QED BY <2>1, <2>2, <2>3, <2>4, SameLink, PromptCore
<1>3. CASE continue_discover_files
  <2>1. Len(sent') <= 3
    BY <1>3, SilentLength DEF continue_discover_files, NoMoreData
  <2>2. QED
    BY <1>3, <2>1 DEF continue_discover_files, AtContinued, NoMoreData, EndContinued,
                      CoreType, Continuable, link
<1>4. CASE watchdog_expires
  <2>1. Len(sent') <= 3
    BY <1>4, SilentLength DEF watchdog_expires
  <2>2. QED BY <1>4, <2>1 DEF watchdog_expires, CoreType, link, continued
<1>5. QED BY <1>1, <1>2, <1>3, <1>4

-----------------------------------------------------------------------------
(* What the service's own steps leave of the transfer.                      *)

LEMMA AckRatePositive ==
  ASSUME NEW requested \in Nat, NEW preferred \in Nat
  PROVE  AckRate(requested, preferred) \in Nat \ {0}
BY DEF AckRate

LEMMA StartedTransfer ==
  ASSUME NEW req \in Requests, NEW rate \in Nat
  PROVE  LET y == Started(req, rate)
         IN  /\ y \in Transfer
             /\ y.state = "INIT" /\ y.read_write = req.write
             /\ y.request_offset = req.offset /\ y.bytes_transfered = 0
             /\ y.transfer_length = req.length
             /\ y.messages_per_ack = rate /\ y.messages_until_ack = rate
<1>1. /\ req.write \in BOOLEAN /\ req.checksum \in BOOLEAN
      /\ req.offset \in Nat /\ req.length \in Nat
  BY FileAssumption
<1>2. ZeroTransfer \in Transfer /\ ZeroTransfer.bytes_transfered = 0
  BY DEF ZeroTransfer, Transfer, States
<1>3. "INIT" \in States
  BY DEF States
<1> DEFINE zero == ZeroTransfer
<1>4. Started(req, rate) =
        [zero EXCEPT !.state = "INIT", !.read_write = req.write,
           !.request_offset = req.offset, !.transfer_length = req.length,
           !.messages_per_ack = rate, !.messages_until_ack = rate,
           !.use_checksum = req.checksum]
  BY DEF Started
<1> HIDE DEF zero
<1>5. zero \in Transfer /\ zero.bytes_transfered = 0
  BY <1>2 DEF zero
<1>6. QED BY <1>1, <1>3, <1>4, <1>5 DEF Transfer

LEMMA CountedTransfer ==
  ASSUME FileType, NEW packet \in Packets
  PROVE  LET y == Counted(packet)
         IN  /\ y \in Transfer
             /\ packet.size \in Nat /\ packet.size > 0 /\ packet.number \in Nat
             /\ y.state = xfer.state /\ y.read_write = xfer.read_write
             /\ y.request_offset = xfer.request_offset + packet.size
             /\ y.bytes_transfered = xfer.bytes_transfered + packet.size
             /\ y.transfer_length = xfer.transfer_length
             /\ y.messages_per_ack = xfer.messages_per_ack
             /\ y.messages_until_ack = IF xfer.messages_until_ack = 0 THEN 0
                                       ELSE xfer.messages_until_ack - 1
<1> DEFINE bytes  == xfer.bytes_transfered + packet.size
           left   == IF xfer.messages_until_ack = 0 THEN 0 ELSE xfer.messages_until_ack - 1
           offset == xfer.request_offset + packet.size
           number == xfer.message_number + 1
<1>1. packet.size \in Nat /\ packet.size > 0 /\ packet.number \in Nat
  BY FileAssumption
<1>2. bytes \in Nat /\ left \in Nat /\ offset \in Nat /\ number \in Nat
  BY <1>1 DEF FileType, Transfer
<1>3. Counted(packet) =
        [xfer EXCEPT !.bytes_transfered = bytes, !.messages_until_ack = left,
                     !.message_number = number, !.request_offset = offset]
  BY DEF Counted
<1> HIDE DEF bytes, left, offset, number
<1>4. Counted(packet) \in Transfer
  BY <1>2, <1>3 DEF FileType, Transfer
<1>5. QED BY <1>1, <1>3, <1>4 DEF FileType, Transfer, bytes, left, offset, number

LEMMA InitFileType == ASSUME CoreType, FileType, transfer_init PROVE FileType'
<1>1. CASE transfer_init_denied
  <2>1. xfer' = [xfer EXCEPT !.state = "IDLE"] /\ UNCHANGED <<watchdog, file, past>>
    BY <1>1 DEF transfer_init_denied
  <2>2. /\ xfer' \in Transfer /\ xfer'.state = "IDLE"
        /\ xfer'.messages_until_ack = xfer.messages_until_ack
        /\ xfer'.messages_per_ack = xfer.messages_per_ack
    BY <2>1 DEF FileType, Transfer, States
  <2>3. QED BY <2>1, <2>2 DEF FileType, Moving
<1>2. CASE transfer_init_refused
  <2>1. xfer' = [ZeroTransfer EXCEPT !.state = "IDLE"] /\ UNCHANGED <<watchdog, file>>
        /\ past' = NoPast
    BY <1>2 DEF transfer_init_refused
  <2>2. /\ xfer' \in Transfer /\ xfer'.state = "IDLE"
        /\ xfer'.messages_until_ack = 0 /\ xfer'.messages_per_ack = 0
    BY <2>1 DEF ZeroTransfer, Transfer, States
  <2>3. QED BY <2>1, <2>2 DEF FileType, Moving, NoPast, History
<1>3. CASE transfer_init_started
  <2>1. PICK preferred \in PreferredRates :
          xfer' = Started(prompt.arg, AckRate(prompt.arg.ack_rate, preferred))
    BY <1>3 DEF transfer_init_started
  <2>2. prompt.arg \in Requests
    BY <1>3, PromptFields DEF transfer_init_started, Dispatch, NoPrompt
  <2>3. /\ prompt.arg.ack_rate \in Nat /\ prompt.arg.timeout \in BOOLEAN
        /\ prompt.arg.offset \in Nat /\ preferred \in Nat
    BY <2>2, FileAssumption
  <2>4. AckRate(prompt.arg.ack_rate, preferred) \in Nat \ {0}
    BY <2>3, AckRatePositive
  <2>5. /\ xfer' \in Transfer /\ xfer'.messages_per_ack > 0
        /\ xfer'.messages_until_ack = xfer'.messages_per_ack
    BY <2>1, <2>2, <2>4, StartedTransfer
  <2>6. past' \in History
    <3>1. past' = [NoPast EXCEPT !.start = prompt.arg.offset, !.current = TRUE]
      BY <1>3 DEF transfer_init_started
    <3>2. QED BY <2>3, <3>1 DEF NoPast, History
  <2>7. watchdog' \in BOOLEAN /\ UNCHANGED file
    BY <1>3, <2>3 DEF transfer_init_started
  <2>8. xfer'.messages_per_ack \in Nat
    BY <2>5 DEF Transfer
  <2>9. QED BY <2>5, <2>6, <2>7, <2>8 DEF FileType
<1>4. QED BY <1>1, <1>2, <1>3 DEF transfer_init

(* What the branches that take a packet do to the transfer: the offset      *)
(* goes on by the packet, or stays where it was and the packet is an error. *)
Advanced(packet) ==
  /\ xfer'.request_offset = xfer.request_offset + packet.size
  /\ past'.erred = past.erred

Retried == xfer'.request_offset = xfer.request_offset /\ past'.erred

Countdown(packet) ==
  \/ /\ past'.unanswered = 0
     /\ xfer'.messages_until_ack \in {Counted(packet).messages_until_ack,
                                      xfer.messages_per_ack}
  \/ /\ past'.unanswered = past.unanswered + 1
     /\ xfer'.messages_until_ack = Counted(packet).messages_until_ack
     /\ Counted(packet).messages_until_ack # 0

TakesPacket(packet) ==
  /\ xfer' \in Transfer /\ past' \in History /\ watchdog' \in BOOLEAN
  /\ xfer'.state = xfer.state /\ xfer'.read_write = xfer.read_write
  /\ xfer'.transfer_length = xfer.transfer_length
  /\ xfer'.bytes_transfered = xfer.bytes_transfered + packet.size
  /\ xfer'.messages_per_ack = xfer.messages_per_ack
  /\ past'.start = past.start
  /\ past'.completed =>
       past.completed \/ xfer'.bytes_transfered >= xfer.transfer_length
  /\ Advanced(packet) \/ Retried
  /\ Countdown(packet)
  /\ DOMAIN file' = DOMAIN file
  /\ \A b \in DOMAIN file : b < xfer.request_offset => file'[b] = file[b]
  /\ continued_message_type' = continued_message_type
  /\ Moving
  /\ AtPrompt /\ prompt.type = "TRANSFER_DATA"
  /\ prompt' = NoPrompt

Takes ==
  \/ transfer_data_out_of_sequence \/ transfer_data_bad_checksum
  \/ transfer_data_complete \/ transfer_data_unanswered \/ transfer_data_acknowledged

LEMMA TakenPacket ==
  ASSUME CoreType, FileType, Takes
  PROVE  \E packet \in Packets : packet.size \in Nat /\ packet.size > 0 /\ TakesPacket(packet)
<1>1. ASSUME NEW packet \in Packets, TakePacket(packet)
      PROVE  /\ DOMAIN file' = DOMAIN file
             /\ \A b \in DOMAIN file : b < xfer.request_offset => file'[b] = file[b]
             /\ continued_message_type' = continued_message_type
             /\ Moving /\ AtPrompt /\ prompt.type = "TRANSFER_DATA" /\ prompt' = NoPrompt
  <2>1. file' = [b \in DOMAIN file |->
                  IF b >= xfer.request_offset /\ b < xfer.request_offset + packet.size
                    THEN packet.from + b - xfer.request_offset ELSE file[b]]
    BY <1>1 DEF TakePacket
  <2>2. DOMAIN file' = DOMAIN file
    BY <2>1
  <2>3. ASSUME NEW b \in DOMAIN file, b < xfer.request_offset PROVE file'[b] = file[b]
    <3>1. b \in Nat /\ xfer.request_offset \in Nat
      BY <2>3 DEF FileType, Transfer
    <3>2. ~(b >= xfer.request_offset)
      BY <2>3, <3>1
    <3>3. QED BY <2>1, <2>3, <3>2
  <2>4. QED BY <1>1, <2>2, <2>3 DEF TakePacket, Dispatch, KeepContinued
<1>2. ASSUME NEW packet \in Packets, TakePacket(packet), NEW result,
             RetryFrom(packet, result, packet.number)
      PROVE  packet.size \in Nat /\ packet.size > 0 /\ TakesPacket(packet)
  <2>1. /\ xfer' = [Counted(packet) EXCEPT !.request_offset = xfer.request_offset,
                                           !.message_number = packet.number]
        /\ past' = [past EXCEPT !.erred = TRUE, !.unanswered = 0]
        /\ UNCHANGED watchdog
    BY <1>2 DEF RetryFrom
  <2>2. /\ past' \in History /\ past'.erred /\ past'.unanswered = 0
        /\ past'.start = past.start /\ past'.completed = past.completed
    BY <2>1 DEF FileType, History
  <2>3. xfer.request_offset \in Nat
    BY DEF FileType, Transfer
  <2>4. /\ packet.size \in Nat /\ packet.size > 0 /\ packet.number \in Nat
        /\ Counted(packet) \in Transfer
    BY CountedTransfer
  <2>5. /\ xfer' \in Transfer
        /\ xfer'.request_offset = xfer.request_offset
        /\ xfer'.state = Counted(packet).state
        /\ xfer'.read_write = Counted(packet).read_write
        /\ xfer'.transfer_length = Counted(packet).transfer_length
        /\ xfer'.bytes_transfered = Counted(packet).bytes_transfered
        /\ xfer'.messages_per_ack = Counted(packet).messages_per_ack
        /\ xfer'.messages_until_ack = Counted(packet).messages_until_ack
    BY <2>1, <2>3, <2>4 DEF Transfer
  <2>6. /\ Counted(packet).state = xfer.state
        /\ Counted(packet).read_write = xfer.read_write
        /\ Counted(packet).transfer_length = xfer.transfer_length
        /\ Counted(packet).bytes_transfered = xfer.bytes_transfered + packet.size
        /\ Counted(packet).messages_per_ack = xfer.messages_per_ack
    BY CountedTransfer
  <2>7. Retried /\ Countdown(packet)
    BY <2>2, <2>5 DEF Retried, Countdown
  <2>8. watchdog' \in BOOLEAN
    BY <2>1 DEF FileType
  <2>9. QED BY <1>1, <1>2, <2>2, <2>4, <2>5, <2>6, <2>7, <2>8 DEF TakesPacket
<1>3. ASSUME NEW packet \in Packets, TakePacket(packet), xfer' = Counted(packet),
             past' \in History, past'.start = past.start, past'.erred = past.erred,
             watchdog' \in BOOLEAN,
             past'.completed => past.completed \/ Filled(Counted(packet)),
             \/ past'.unanswered = 0
             \/ /\ past'.unanswered = past.unanswered + 1
                /\ Counted(packet).messages_until_ack # 0
      PROVE  packet.size \in Nat /\ packet.size > 0 /\ TakesPacket(packet)
  <2>1. /\ Counted(packet) \in Transfer /\ packet.size \in Nat /\ packet.size > 0
        /\ Counted(packet).state = xfer.state
        /\ Counted(packet).read_write = xfer.read_write
        /\ Counted(packet).request_offset = xfer.request_offset + packet.size
        /\ Counted(packet).transfer_length = xfer.transfer_length
        /\ Counted(packet).bytes_transfered = xfer.bytes_transfered + packet.size
        /\ Counted(packet).messages_per_ack = xfer.messages_per_ack
    BY CountedTransfer
  <2>2. Advanced(packet) /\ Countdown(packet)
    BY <1>3, <2>1 DEF Advanced, Countdown
  <2>3. past'.completed => past.completed \/ xfer'.bytes_transfered >= xfer.transfer_length
    BY <1>3, <2>1 DEF Filled
  <2>4. QED BY <1>1, <1>3, <2>1, <2>2, <2>3 DEF TakesPacket
<1>4. CASE transfer_data_out_of_sequence
  BY <1>2, <1>4 DEF transfer_data_out_of_sequence
<1>5. CASE transfer_data_bad_checksum
  BY <1>2, <1>5 DEF transfer_data_bad_checksum
<1>6. CASE transfer_data_complete
  <2>1. PICK packet \in Packets :
          /\ TakePacket(packet) /\ Filled(Counted(packet)) /\ xfer' = Counted(packet)
          /\ watchdog' = FALSE
          /\ past' = [past EXCEPT !.completed = TRUE, !.unanswered = 0]
    BY <1>6 DEF transfer_data_complete
  <2>2. past' \in History /\ past'.start = past.start /\ past'.erred = past.erred
        /\ past'.unanswered = 0
    BY <2>1 DEF FileType, History
  <2>3. QED BY <1>3, <2>1, <2>2
<1>7. CASE transfer_data_unanswered
  <2>1. PICK packet \in Packets :
          /\ TakePacket(packet) /\ xfer' = Counted(packet)
          /\ Counted(packet).messages_until_ack # 0
          /\ UNCHANGED watchdog
          /\ past' = [past EXCEPT !.unanswered = @ + 1]
    BY <1>7 DEF transfer_data_unanswered
  <2>2. past' \in History /\ past'.start = past.start /\ past'.erred = past.erred
        /\ past'.unanswered = past.unanswered + 1 /\ past'.completed = past.completed
    BY <2>1 DEF FileType, History
  <2>3. watchdog' \in BOOLEAN
    BY <2>1 DEF FileType
  <2>4. QED BY <1>3, <2>1, <2>2, <2>3
<1>8. CASE transfer_data_acknowledged
  <2>1. PICK packet \in Packets :
          /\ TakePacket(packet)
          /\ xfer' = [Counted(packet) EXCEPT !.messages_until_ack = xfer.messages_per_ack,
                                             !.message_number = 0]
          /\ UNCHANGED watchdog
          /\ past' = [past EXCEPT !.unanswered = 0]
    BY <1>8 DEF transfer_data_acknowledged
  <2>2. past' \in History /\ past'.start = past.start /\ past'.erred = past.erred
        /\ past'.unanswered = 0 /\ past'.completed = past.completed
    BY <2>1 DEF FileType, History
  <2>3. /\ Counted(packet) \in Transfer /\ packet.size \in Nat /\ packet.size > 0
        /\ Counted(packet).state = xfer.state
        /\ Counted(packet).read_write = xfer.read_write
        /\ Counted(packet).request_offset = xfer.request_offset + packet.size
        /\ Counted(packet).transfer_length = xfer.transfer_length
        /\ Counted(packet).bytes_transfered = xfer.bytes_transfered + packet.size
        /\ Counted(packet).messages_per_ack = xfer.messages_per_ack
    BY CountedTransfer
  <2>4. xfer.messages_per_ack \in Nat
    BY DEF FileType, Transfer
  <2>5. /\ xfer' \in Transfer
        /\ xfer'.state = xfer.state
        /\ xfer'.read_write = xfer.read_write
        /\ xfer'.request_offset = xfer.request_offset + packet.size
        /\ xfer'.transfer_length = xfer.transfer_length
        /\ xfer'.bytes_transfered = xfer.bytes_transfered + packet.size
        /\ xfer'.messages_per_ack = xfer.messages_per_ack
        /\ xfer'.messages_until_ack = xfer.messages_per_ack
    BY <2>1, <2>3, <2>4 DEF Transfer
  <2>6. Advanced(packet) /\ Countdown(packet)
    BY <2>2, <2>5 DEF Advanced, Countdown
  <2>7. watchdog' \in BOOLEAN
    BY <2>1 DEF FileType
  <2>8. QED BY <1>1, <2>1, <2>2, <2>3, <2>5, <2>6, <2>7 DEF TakesPacket
<1>9. QED BY <1>4, <1>5, <1>6, <1>7, <1>8 DEF Takes

(* The steps that leave the transfer and its history as they are.           *)
Quiet ==
  /\ xfer' = xfer
  /\ past' \in History
  /\ past'.start = past.start /\ past'.window = past.window
  /\ past'.unanswered = past.unanswered
  /\ past'.completed = past.completed /\ past'.erred = past.erred
  /\ watchdog' \in BOOLEAN
  /\ DOMAIN file' = DOMAIN file
  /\ continued_message_type' = "TRANSFER_DATA" =>
       /\ continued_message_type = "TRANSFER_DATA"
       /\ num_remaining_objects' = num_remaining_objects

(* A read is continued only while it is under way.                          *)
ContinuedRead ==
  continued_message_type = "TRANSFER_DATA" =>
    xfer.state = "DATA" /\ xfer.read_write = FALSE

LEMMA CoreQuiet ==
  ASSUME CoreType, FileType, CoreProcess /\ UNCHANGED fileVars
  PROVE  Quiet /\ prompt' \in {prompt, NoPrompt}
<1>1. CASE CoreHandlers
  <2>1. /\ AtPrompt /\ prompt' = NoPrompt /\ continued_message_type' = continued_message_type
    BY <1>1 DEF CoreHandlers, handle_ping, handle_get_device_info, handle_undecodable_header,
                handle_undecodable_payload, handle_unhandled_type, Dispatch, KeepContinued,
                continued
  <2>2. QED
    BY <1>1, <2>1, PromptMeansNothingContinued DEF Quiet, fileVars, FileType, INVALID
<1>2. CASE process_no_prompt
  BY <1>2 DEF process_no_prompt, continued, Quiet, fileVars, FileType
<1>3. QED BY <1>1, <1>2 DEF CoreProcess

LEMMA ApplicationQuiet ==
  ASSUME CoreType, FileType, NEW prompts, Application(prompts)
  PROVE  Quiet /\ prompt' \in {prompt} \cup prompts
<1>1. past' = [past EXCEPT !.current = @ /\ connected'] /\ UNCHANGED <<xfer, watchdog, file>>
  BY DEF Application
<1>2. /\ past' \in History
      /\ past'.start = past.start /\ past'.window = past.window
      /\ past'.unanswered = past.unanswered
      /\ past'.completed = past.completed /\ past'.erred = past.erred
  <2> DEFINE now == past.current /\ connected'
  <2>1. now \in BOOLEAN
    OBVIOUS
  <2>2. past' = [past EXCEPT !.current = now]
    BY <1>1
  <2> HIDE DEF now
  <2>3. QED BY <2>1, <2>2 DEF FileType, History
<1>3. /\ prompt' \in {prompt} \cup prompts
      /\ continued_message_type' = "TRANSFER_DATA" =>
           /\ continued_message_type = "TRANSFER_DATA"
           /\ num_remaining_objects' = num_remaining_objects
  BY DEF Application, CoreApplication, cr_store_coded_prompt, set_connected, set_disconnected,
         cr_get_coded_response_buffer, continued, EndContinued, INVALID
<1>4. QED BY <1>1, <1>2, <1>3 DEF Quiet, FileType

LEMMA ServiceQuiet ==
  ASSUME CoreType, FileType,
         \/ transfer_data_invalid_state \/ read_next_failed \/ notification_invalid_state
         \/ erase_file \/ discover_files \/ continue_discover_files \/ watchdog_expires
  PROVE  Quiet /\ prompt' \in {prompt, NoPrompt}
<1>1. CASE transfer_data_invalid_state \/ notification_invalid_state
  <2>1. /\ AtPrompt /\ prompt' = NoPrompt /\ continued_message_type' = continued_message_type
        /\ watchdog' = FALSE /\ UNCHANGED <<xfer, file, past>>
    BY <1>1 DEF transfer_data_invalid_state, notification_invalid_state, Dispatch, KeepContinued
  <2>2. QED BY <2>1, PromptMeansNothingContinued DEF Quiet, FileType, INVALID
<1>2. CASE erase_file
  <2>1. /\ AtPrompt /\ prompt' = NoPrompt /\ continued_message_type' = continued_message_type
        /\ UNCHANGED <<xfer, watchdog, past>> /\ DOMAIN file' = DOMAIN file
    BY <1>2 DEF erase_file, Dispatch, KeepContinued
  <2>2. QED BY <2>1, PromptMeansNothingContinued DEF Quiet, FileType, INVALID
<1>3. CASE discover_files
  <2>1. /\ AtPrompt /\ prompt' = NoPrompt /\ UNCHANGED fileVars
        /\ continued_message_type' \in {continued_message_type, "DISCOVER_FILES"}
    BY <1>3 DEF discover_files, Dispatch, KeepContinued, BeginContinued
  <2>2. QED BY <2>1, PromptMeansNothingContinued DEF Quiet, FileType, INVALID, fileVars
<1>4. CASE continue_discover_files
  BY <1>4 DEF continue_discover_files, EndContinued, NoMoreData, fileVars, Quiet, FileType,
              INVALID
<1>5. CASE read_next_failed
  BY <1>5 DEF read_next_failed, FailContinued, EndContinued, Quiet, FileType, INVALID
<1>6. CASE watchdog_expires
  BY <1>6 DEF watchdog_expires, continued, Quiet, FileType
<1>7. QED BY <1>1, <1>2, <1>3, <1>4, <1>5, <1>6

LEMMA QuietFileType == ASSUME FileType, Quiet PROVE FileType'
BY DEF FileType, Quiet, Moving

(* What a data message does to the transfer it is sent from.                *)
SendsData ==
  /\ xfer' \in Transfer /\ past' \in History /\ watchdog' \in BOOLEAN /\ file' = file
  /\ xfer'.state = IF xfer'.bytes_transfered = xfer.transfer_length
                     THEN "COMPLETE" ELSE "DATA"
  /\ xfer.state \in {"INIT", "DATA"}
  /\ xfer.read_write = FALSE /\ xfer'.read_write = FALSE
  /\ xfer'.request_offset = xfer.request_offset + Readable
  /\ xfer'.bytes_transfered = xfer.bytes_transfered + Readable
  /\ xfer'.transfer_length = xfer.transfer_length
  /\ xfer'.messages_per_ack = xfer.messages_per_ack
  /\ xfer'.messages_until_ack <= xfer'.messages_per_ack
  /\ past'.start = past.start
  /\ num_remaining_objects' = Announced(xfer')
  /\ continued_message_type' =
       IF num_remaining_objects' > 0 THEN "TRANSFER_DATA" ELSE INVALID
  /\ \/ /\ past'.window = 1
        /\ xfer'.messages_until_ack = xfer.messages_per_ack - 1
        /\ prompt' = NoPrompt
     \/ /\ continued_message_type = "TRANSFER_DATA"
        /\ past'.window = past.window + 1
        /\ xfer.messages_until_ack > 0 =>
             xfer'.messages_until_ack = xfer.messages_until_ack - 1
        /\ prompt' = prompt

LEMMA DataMessage ==
  ASSUME CoreType, FileType, ContinuedRead, read_first \/ read_next
  PROVE  SendsData
<1> DEFINE n == Readable
<1>1. n \in Nat
  BY ReadableNumber
<1>2. CASE read_first
  <2>1. /\ xfer.state \in {"INIT", "DATA"} /\ xfer.read_write = FALSE
        /\ prompt' = NoPrompt /\ file' = file
        /\ xfer' = AfterRead(Reopened, n)
        /\ past' = [past EXCEPT !.window = 1]
        /\ watchdog' \in BOOLEAN
    BY <1>2 DEF read_first, CanRead, Moving, Dispatch, FileType, Transfer
  <2>2. num_remaining_objects' = Announced(xfer')
    BY <1>2 DEF read_first, Respond
  <2>3. continued_message_type' =
          IF num_remaining_objects' > 0 THEN "TRANSFER_DATA" ELSE INVALID
    BY <1>2, <2>2 DEF read_first, BeginContinued, EndContinued
  <2>4. past' \in History /\ past'.start = past.start /\ past'.window = 1
    BY <2>1 DEF FileType, History
  <2>5. /\ Reopened \in Transfer
        /\ Reopened.messages_until_ack = xfer.messages_per_ack
        /\ Reopened.messages_per_ack = xfer.messages_per_ack
        /\ Reopened.bytes_transfered = xfer.bytes_transfered
        /\ Reopened.request_offset = xfer.request_offset
        /\ Reopened.transfer_length = xfer.transfer_length
        /\ Reopened.read_write = xfer.read_write
    BY ReopenedTransfer
  <2>6. xfer.messages_per_ack \in Nat /\ xfer.messages_per_ack > 0
    BY <2>1 DEF FileType, Moving, Transfer
  <2>7. Reopened.messages_until_ack <= Reopened.messages_per_ack
    BY <2>5, <2>6
  <2> DEFINE x == Reopened
  <2>8. x \in Transfer /\ x.messages_until_ack <= x.messages_per_ack
    BY <2>5, <2>7
  <2> HIDE DEF n, x
  <2>9. /\ xfer' \in Transfer
        /\ xfer'.state = IF x.bytes_transfered + n = x.transfer_length THEN "COMPLETE" ELSE "DATA"
        /\ xfer'.request_offset = x.request_offset + n
        /\ xfer'.bytes_transfered = x.bytes_transfered + n
        /\ xfer'.transfer_length = x.transfer_length
        /\ xfer'.read_write = x.read_write
        /\ xfer'.messages_per_ack = x.messages_per_ack
        /\ xfer'.messages_until_ack <= xfer'.messages_per_ack
        /\ x.messages_until_ack > 0 => xfer'.messages_until_ack = x.messages_until_ack - 1
    BY <1>1, <2>1, <2>8, AfterReadTransfer DEF x
  <2>10. QED BY <2>1, <2>2, <2>3, <2>4, <2>5, <2>6, <2>9 DEF SendsData, n, x
<1>3. CASE read_next
  <2>1. /\ continued_message_type = "TRANSFER_DATA"
        /\ xfer' = AfterRead(xfer, n)
        /\ past' = [past EXCEPT !.window = @ + 1]
        /\ file' = file /\ prompt' = prompt /\ watchdog' \in BOOLEAN
    BY <1>3 DEF read_next, AtContinued, Continue, FileType
  <2>2. xfer.state = "DATA" /\ xfer.read_write = FALSE
    BY <2>1 DEF ContinuedRead
  <2>3. past' \in History /\ past'.start = past.start /\ past'.window = past.window + 1
    BY <2>1 DEF FileType, History
  <2>4. xfer \in Transfer /\ xfer.messages_until_ack <= xfer.messages_per_ack
    BY DEF FileType
  <2> HIDE DEF n
  <2>5. /\ xfer' \in Transfer
        /\ xfer'.state = IF xfer.bytes_transfered + n = xfer.transfer_length
                           THEN "COMPLETE" ELSE "DATA"
        /\ xfer'.request_offset = xfer.request_offset + n
        /\ xfer'.bytes_transfered = xfer.bytes_transfered + n
        /\ xfer'.transfer_length = xfer.transfer_length
        /\ xfer'.read_write = xfer.read_write
        /\ xfer'.messages_per_ack = xfer.messages_per_ack
        /\ xfer'.messages_until_ack <= xfer'.messages_per_ack
        /\ xfer.messages_until_ack > 0 =>
             xfer'.messages_until_ack = xfer.messages_until_ack - 1
    BY <1>1, <2>1, <2>4, AfterReadTransfer
  <2>6. /\ num_remaining_objects' = Announced(xfer')
        /\ IF num_remaining_objects' = 0 THEN EndContinued ELSE KeepContinued
    BY <1>3 DEF read_next, Continue
  <2>7. num_remaining_objects' \in Nat
    BY <2>5, <2>6, AnnouncedNumber
  <2>8. continued_message_type' =
          IF num_remaining_objects' > 0 THEN "TRANSFER_DATA" ELSE INVALID
    BY <2>1, <2>6, <2>7 DEF EndContinued, KeepContinued
  <2>9. QED BY <2>1, <2>2, <2>3, <2>5, <2>6, <2>8 DEF SendsData, n
<1>4. QED BY <1>2, <1>3

(* A read or a transfer ends, by the client's word or a refusal.            *)
Closes ==
  /\ xfer' \in Transfer /\ past' \in History /\ watchdog' \in BOOLEAN /\ file' = file
  /\ xfer'.messages_until_ack <= xfer'.messages_per_ack
  /\ \/ xfer'.state = "IDLE"
     \/ /\ xfer'.state = "COMPLETE"
        /\ xfer.state \in {"INIT", "DATA"} /\ xfer.read_write = FALSE
        /\ xfer'.request_offset = xfer.request_offset
        /\ xfer'.bytes_transfered = xfer.bytes_transfered
        /\ xfer'.transfer_length = xfer.transfer_length
        /\ xfer'.messages_per_ack = xfer.messages_per_ack
        /\ past' = past
  /\ continued_message_type' = INVALID
  /\ prompt' = NoPrompt

LEMMA Closing ==
  ASSUME CoreType, FileType,
         \/ transfer_init_denied \/ transfer_init_refused
         \/ read_stopped_by_client \/ read_confirmed
  PROVE  Closes
<1>1. FileType' /\ xfer' \in Transfer /\ past' \in History /\ watchdog' \in BOOLEAN
      /\ file' = file /\ xfer'.messages_until_ack <= xfer'.messages_per_ack
  <2>1. CASE transfer_init_denied \/ transfer_init_refused
    <3>1. FileType'
      BY <2>1, InitFileType DEF transfer_init
    <3>2. file' = file
      BY <2>1 DEF transfer_init_denied, transfer_init_refused
    <3>3. QED BY <3>1, <3>2 DEF FileType
  <2>2. CASE read_stopped_by_client \/ read_confirmed
    <3>1. PICK st \in {"COMPLETE", "IDLE"} : xfer' = [xfer EXCEPT !.state = st]
      BY <2>2 DEF read_stopped_by_client, read_confirmed
    <3>2. /\ xfer' \in Transfer /\ xfer'.state = st
          /\ xfer'.messages_until_ack = xfer.messages_until_ack
          /\ xfer'.messages_per_ack = xfer.messages_per_ack
      BY <3>1 DEF FileType, Transfer, States
    <3>3. past' = past /\ file' = file /\ watchdog' = FALSE
      BY <2>2 DEF read_stopped_by_client, read_confirmed, CanRead
    <3>4. QED BY <3>2, <3>3 DEF FileType, Moving
  <2>3. QED BY <2>1, <2>2
<1>2. continued_message_type' = INVALID /\ prompt' = NoPrompt
  BY PromptMeansNothingContinued
     DEF transfer_init_denied, transfer_init_refused, read_stopped_by_client, read_confirmed,
         CanRead, Dispatch, EndContinued, KeepContinued
<1>3. CASE transfer_init_denied \/ transfer_init_refused \/ read_confirmed
  <2>1. \/ xfer' = [xfer EXCEPT !.state = "IDLE"]
        \/ xfer' = [ZeroTransfer EXCEPT !.state = "IDLE"]
    BY <1>3 DEF transfer_init_denied, transfer_init_refused, read_confirmed
  <2>2. xfer'.state = "IDLE"
    BY <2>1 DEF FileType, Transfer, ZeroTransfer
  <2>3. QED BY <1>1, <1>2, <2>2 DEF Closes
<1>4. CASE read_stopped_by_client
  <2>1. /\ xfer.state \in {"INIT", "DATA"} /\ xfer.read_write = FALSE
        /\ xfer' = [xfer EXCEPT !.state = "COMPLETE"] /\ past' = past
    BY <1>4 DEF read_stopped_by_client, CanRead, Moving, FileType, Transfer
  <2>2. /\ xfer'.state = "COMPLETE"
        /\ xfer'.request_offset = xfer.request_offset
        /\ xfer'.bytes_transfered = xfer.bytes_transfered
        /\ xfer'.transfer_length = xfer.transfer_length
        /\ xfer'.messages_per_ack = xfer.messages_per_ack
    BY <2>1 DEF FileType, Transfer
  <2>3. QED BY <1>1, <1>2, <2>1, <2>2 DEF Closes
<1>5. QED BY <1>3, <1>4

(* A message that fails: a read opens its window for nothing, a write has   *)
(* counted the bytes.                                                      *)
FailsMessage ==
  /\ xfer' \in Transfer /\ past' \in History /\ watchdog' \in BOOLEAN /\ file' = file
  /\ xfer.state \in {"INIT", "DATA"} /\ xfer'.state = xfer.state
  /\ xfer'.read_write = xfer.read_write
  /\ xfer'.request_offset = xfer.request_offset
  /\ xfer'.transfer_length = xfer.transfer_length
  /\ xfer'.messages_per_ack = xfer.messages_per_ack
  /\ xfer'.messages_until_ack <= xfer'.messages_per_ack
  /\ past'.start = past.start
  /\ \/ /\ xfer.read_write = FALSE
        /\ xfer'.bytes_transfered = xfer.bytes_transfered
        /\ past'.window = 0
     \/ /\ prompt.type = "TRANSFER_DATA"
        /\ xfer'.bytes_transfered >= xfer.bytes_transfered
        /\ xfer'.messages_until_ack = xfer.messages_until_ack
        /\ past'.unanswered = past.unanswered
        /\ past'.erred
  /\ continued_message_type' = INVALID
  /\ prompt' = NoPrompt

LEMMA FailedMessage ==
  ASSUME CoreType, FileType, read_first_failed \/ transfer_data_write_failed
  PROVE  FailsMessage
<1>1. continued_message_type' = INVALID /\ prompt' = NoPrompt
  BY PromptMeansNothingContinued
     DEF read_first_failed, transfer_data_write_failed, CanRead, Dispatch, EndContinued,
         KeepContinued
<1>2. CASE read_first_failed
  <2>1. /\ xfer.state \in {"INIT", "DATA"} /\ xfer.read_write = FALSE
        /\ xfer' = Reopened /\ past' = [past EXCEPT !.window = 0] /\ file' = file
        /\ watchdog' = FALSE
    BY <1>2 DEF read_first_failed, CanRead, Moving, FileType, Transfer
  <2>2. past' \in History /\ past'.start = past.start /\ past'.window = 0
    BY <2>1 DEF FileType, History
  <2>3. xfer.messages_per_ack \in Nat
    BY DEF FileType, Transfer
  <2>4. /\ xfer' \in Transfer /\ xfer'.state = xfer.state
        /\ xfer'.read_write = xfer.read_write
        /\ xfer'.request_offset = xfer.request_offset
        /\ xfer'.bytes_transfered = xfer.bytes_transfered
        /\ xfer'.transfer_length = xfer.transfer_length
        /\ xfer'.messages_per_ack = xfer.messages_per_ack
        /\ xfer'.messages_until_ack = xfer.messages_per_ack
    BY <2>1, ReopenedTransfer
  <2>5. xfer'.messages_until_ack <= xfer'.messages_per_ack
    BY <2>3, <2>4
  <2>6. watchdog' \in BOOLEAN /\ file' = file
    BY <2>1
  <2>7. QED BY <1>1, <2>1, <2>2, <2>4, <2>5, <2>6 DEF FailsMessage
<1>3. CASE transfer_data_write_failed
  <2>1. /\ Dispatch("TRANSFER_DATA") /\ xfer.state \in {"INIT", "DATA"}
        /\ xfer' = [xfer EXCEPT !.bytes_transfered = @ + prompt.arg.size]
        /\ past' = [past EXCEPT !.erred = TRUE] /\ file' = file /\ watchdog' = FALSE
    BY <1>3 DEF transfer_data_write_failed, Moving
  <2>2. prompt.type = "TRANSFER_DATA" /\ prompt.arg \in Packets
    BY <2>1, PromptFields DEF Dispatch, NoPrompt
  <2>3. prompt.arg.size \in Nat
    BY <2>2, FileAssumption
  <2>4. /\ past' \in History /\ past'.start = past.start
        /\ past'.unanswered = past.unanswered /\ past'.erred
    BY <2>1 DEF FileType, History
  <2> DEFINE bytes == xfer.bytes_transfered + prompt.arg.size
  <2>5. bytes \in Nat /\ bytes >= xfer.bytes_transfered
    BY <2>3 DEF FileType, Transfer
  <2>6. xfer' = [xfer EXCEPT !.bytes_transfered = bytes]
    BY <2>1
  <2> HIDE DEF bytes
  <2>7. /\ xfer' \in Transfer /\ xfer'.state = xfer.state
        /\ xfer'.read_write = xfer.read_write
        /\ xfer'.request_offset = xfer.request_offset
        /\ xfer'.transfer_length = xfer.transfer_length
        /\ xfer'.messages_per_ack = xfer.messages_per_ack
        /\ xfer'.messages_until_ack = xfer.messages_until_ack
        /\ xfer'.bytes_transfered = bytes
    BY <2>5, <2>6 DEF FileType, Transfer
  <2>8. xfer'.messages_until_ack <= xfer'.messages_per_ack
    BY <2>7 DEF FileType
  <2>9. QED BY <1>1, <2>1, <2>2, <2>4, <2>5, <2>7, <2>8 DEF FailsMessage
<1>4. QED BY <1>2, <1>3

(* What the start of a transfer leaves.                                     *)
Starts ==
  /\ xfer'.state = "INIT"
  /\ xfer'.request_offset = past'.start
  /\ xfer'.bytes_transfered = 0
  /\ xfer'.messages_until_ack = xfer'.messages_per_ack
  /\ past'.window = 0 /\ past'.unanswered = 0
  /\ past'.completed = FALSE /\ past'.erred = FALSE
  /\ file' = file
  /\ continued_message_type' = INVALID
  /\ prompt' = NoPrompt

LEMMA Starting == ASSUME CoreType, FileType, transfer_init_started PROVE Starts
<1>1. PICK preferred \in PreferredRates :
        xfer' = Started(prompt.arg, AckRate(prompt.arg.ack_rate, preferred))
  BY DEF transfer_init_started
<1>2. prompt.arg \in Requests
  BY PromptFields DEF transfer_init_started, Dispatch, NoPrompt
<1>3. prompt.arg.ack_rate \in Nat /\ prompt.arg.offset \in Nat /\ preferred \in Nat
  BY <1>2, FileAssumption
<1>4. AckRate(prompt.arg.ack_rate, preferred) \in Nat
  BY <1>3, AckRatePositive
<1>5. /\ xfer'.state = "INIT" /\ xfer'.request_offset = prompt.arg.offset
      /\ xfer'.bytes_transfered = 0
      /\ xfer'.messages_until_ack = xfer'.messages_per_ack
  BY <1>1, <1>2, <1>4, StartedTransfer
<1>6. past' = [NoPast EXCEPT !.start = prompt.arg.offset, !.current = TRUE]
  BY DEF transfer_init_started
<1>7. /\ past'.start = prompt.arg.offset /\ past'.window = 0 /\ past'.unanswered = 0
      /\ past'.completed = FALSE /\ past'.erred = FALSE
  BY <1>6 DEF NoPast
<1>8. /\ continued_message_type' = INVALID /\ prompt' = NoPrompt /\ file' = file
  BY PromptMeansNothingContinued DEF transfer_init_started, Dispatch, KeepContinued
<1>9. QED BY <1>5, <1>7, <1>8 DEF Starts

-----------------------------------------------------------------------------
(* Every step is of one of these kinds.                                     *)

Kinds(prompts) ==
  \/ Quiet /\ prompt' \in {prompt, NoPrompt} \cup prompts
  \/ Starts
  \/ Closes
  \/ FailsMessage
  \/ SendsData
  \/ \E packet \in Packets : packet.size \in Nat /\ packet.size > 0 /\ TakesPacket(packet)

LEMMA EveryStep ==
  ASSUME CoreType, FileType, ContinuedRead, NEW prompts \in SUBSET FilePrompts,
         cr_process \/ watchdog_expires \/ Application(prompts)
  PROVE  CoreType' /\ FileType' /\ Kinds(prompts)
<1>1. CASE CoreProcess /\ UNCHANGED fileVars
  BY <1>1, CoreProcessType, CoreQuiet, QuietFileType DEF Kinds
<1>2. CASE Application(prompts)
  BY <1>2, ApplicationType, ApplicationQuiet, QuietFileType DEF Kinds, Application
<1>3. CASE transfer_init
  <2>1. transfer_init_denied \/ transfer_init_refused \/ transfer_init_started
    BY <1>3 DEF transfer_init
  <2>2. QED BY <1>3, <2>1, InitCoreType, InitFileType, Closing, Starting DEF Kinds
<1>4. CASE transfer_data
  <2>1. Takes \/ transfer_data_write_failed \/ transfer_data_invalid_state
    BY <1>4 DEF transfer_data, Takes
  <2>2. ASSUME Takes PROVE FileType' /\ Kinds(prompts)
    <3>1. PICK packet \in Packets :
            packet.size \in Nat /\ packet.size > 0 /\ TakesPacket(packet)
      BY <2>2, TakenPacket
    <3>2. Kinds(prompts)
      BY <3>1 DEF Kinds
    <3>3. /\ xfer' \in Transfer /\ past' \in History /\ watchdog' \in BOOLEAN
          /\ DOMAIN file' = DOMAIN file /\ Moving /\ xfer'.state = xfer.state
          /\ xfer'.messages_per_ack = xfer.messages_per_ack
          /\ Countdown(packet)
      BY <3>1 DEF TakesPacket
    <3>4. xfer'.messages_until_ack \in {Counted(packet).messages_until_ack,
                                        xfer.messages_per_ack}
      BY <3>3 DEF Countdown
    <3>5. Counted(packet).messages_until_ack = IF xfer.messages_until_ack = 0 THEN 0
                                               ELSE xfer.messages_until_ack - 1
      BY CountedTransfer
    <3>6. /\ xfer.messages_until_ack \in Nat /\ xfer.messages_per_ack \in Nat
          /\ xfer.messages_until_ack <= xfer.messages_per_ack
      BY DEF FileType, Transfer
    <3>7. xfer'.messages_until_ack <= xfer'.messages_per_ack
      BY <3>3, <3>4, <3>5, <3>6
    <3>8. QED BY <3>2, <3>3, <3>7 DEF FileType, Moving
  <2>3. ASSUME transfer_data_write_failed PROVE FileType' /\ Kinds(prompts)
    <3>1. FailsMessage
      BY <2>3, FailedMessage
    <3>2. QED BY <3>1 DEF Kinds, FailsMessage, FileType, Moving
  <2>4. ASSUME transfer_data_invalid_state PROVE FileType' /\ Kinds(prompts)
    BY <2>4, ServiceQuiet, QuietFileType DEF Kinds
  <2>5. QED BY <1>4, <2>1, <2>2, <2>3, <2>4, DataCoreType
<1>5. CASE transfer_data_notification
  <2>1. \/ read_first \/ read_next \/ read_first_failed
        \/ read_stopped_by_client \/ read_confirmed
        \/ read_next_failed \/ notification_invalid_state
    BY <1>5 DEF transfer_data_notification
  <2>2. ASSUME read_first \/ read_next PROVE FileType' /\ Kinds(prompts)
    <3>1. SendsData
      BY <2>2, DataMessage
    <3>2. QED BY <3>1 DEF Kinds, SendsData, FileType, Moving
  <2>3. ASSUME read_first_failed PROVE FileType' /\ Kinds(prompts)
    <3>1. FailsMessage
      BY <2>3, FailedMessage
    <3>2. QED BY <3>1 DEF Kinds, FailsMessage, FileType, Moving
  <2>4. ASSUME read_stopped_by_client \/ read_confirmed PROVE FileType' /\ Kinds(prompts)
    <3>1. Closes
      BY <2>4, Closing
    <3>2. QED BY <3>1 DEF Kinds, Closes, FileType, Moving
  <2>5. ASSUME read_next_failed \/ notification_invalid_state
        PROVE  FileType' /\ Kinds(prompts)
    BY <2>5, ServiceQuiet, QuietFileType DEF Kinds
  <2>6. QED BY <1>5, <2>1, <2>2, <2>3, <2>4, <2>5, NotificationCoreType
<1>6. CASE erase_file \/ discover_files \/ continue_discover_files \/ watchdog_expires
  BY <1>6, OtherCoreType, ServiceQuiet, QuietFileType DEF Kinds
<1>7. QED BY <1>1, <1>2, <1>3, <1>4, <1>5, <1>6 DEF cr_process

-----------------------------------------------------------------------------
(* Any client.                                                             *)

(* A write without errors goes on where it began plus what has been         *)
(* counted, and is complete when the length has been counted.              *)
WriteCounted ==
  Writing /\ ~past.erred =>
    /\ xfer.request_offset = past.start + xfer.bytes_transfered
    /\ past.completed => xfer.bytes_transfered >= xfer.transfer_length

AnyInv == CoreType /\ FileType /\ ContinuedRead /\ AckIsDue /\ WriteCounted

LEMMA AnyInitially == Init => AnyInv
<1> SUFFICES ASSUME Init PROVE AnyInv
  OBVIOUS
<1>1. CoreType
  <2>1. Len(sent) <= 3
    BY Codes DEF Init, CoreInit
  <2>2. QED BY <2>1 DEF Init, CoreInit, CoreType, Continuable
<1>2. xfer \in Transfer /\ past \in History
  BY DEF Init, ZeroTransfer, NoPast, Transfer, History, States
<1>3. /\ xfer.state = "FILE_TRANSFER_INVALID"
      /\ xfer.messages_until_ack = 0 /\ xfer.messages_per_ack = 0
  BY DEF Init, ZeroTransfer
<1>4. FileType
  <2>1. DOMAIN file = 0 .. FileSize - 1 /\ watchdog = FALSE
    BY DEF Init
  <2>2. xfer.messages_until_ack <= xfer.messages_per_ack
    BY <1>3
  <2>3. QED BY <1>2, <1>3, <2>1, <2>2 DEF FileType, Moving
<1>5. ContinuedRead
  BY DEF Init, CoreInit, ContinuedRead, INVALID
<1>6. AckIsDue /\ WriteCounted
  BY <1>3 DEF AckIsDue, WriteCounted, Writing, Moving
<1>7. QED BY <1>1, <1>4, <1>5, <1>6 DEF AnyInv

(* The numbers of a transfer and its history, for the steps that count.     *)
LEMMA Numbers ==
  ASSUME FileType
  PROVE  /\ xfer.request_offset \in Nat /\ xfer.bytes_transfered \in Nat
         /\ xfer.transfer_length \in Nat
         /\ xfer.messages_per_ack \in Nat /\ xfer.messages_until_ack \in Nat
         /\ xfer.messages_until_ack <= xfer.messages_per_ack
         /\ xfer.read_write \in BOOLEAN
         /\ Moving => xfer.messages_per_ack > 0
         /\ past.start \in Nat /\ past.window \in Nat /\ past.unanswered \in Nat
         /\ past.completed \in BOOLEAN /\ past.erred \in BOOLEAN
BY DEF FileType, Transfer, History

LEMMA ContinuedReadKept ==
  ASSUME AnyInv, NEW prompts, Kinds(prompts) PROVE ContinuedRead'
<1>1. CASE Quiet
  BY <1>1 DEF Quiet, ContinuedRead, AnyInv
<1>2. CASE Starts \/ Closes \/ FailsMessage
  BY <1>2 DEF Starts, Closes, FailsMessage, ContinuedRead, INVALID
<1>3. CASE SendsData
  BY <1>3 DEF SendsData, ContinuedRead, INVALID, Announced
<1>4. ASSUME NEW packet \in Packets, TakesPacket(packet) PROVE ContinuedRead'
  BY <1>4, PromptMeansNothingContinued DEF TakesPacket, ContinuedRead, AnyInv, INVALID
<1>5. QED BY <1>1, <1>2, <1>3, <1>4 DEF Kinds

LEMMA AckStaysDue ==
  ASSUME AnyInv, FileType', NEW prompts, Kinds(prompts) PROVE AckIsDue'
<1> USE Numbers
<1>1. CASE Quiet
  BY <1>1 DEF Quiet, AckIsDue, Writing, Moving, AnyInv
<1>2. CASE Starts
  <2>1. /\ xfer'.messages_per_ack \in Nat
        /\ Moving' => xfer'.messages_per_ack > 0
    BY DEF FileType, Transfer
  <2>2. QED BY <1>2, <2>1 DEF Starts, AckIsDue, Writing, Moving
<1>3. CASE Closes
  BY <1>3 DEF Closes, AckIsDue, Writing, Moving
<1>4. CASE SendsData
  BY <1>4 DEF SendsData, AckIsDue, Writing
<1>5. CASE FailsMessage
  BY <1>5 DEF FailsMessage, AckIsDue, Writing, Moving, AnyInv
<1>6. ASSUME NEW packet \in Packets, TakesPacket(packet), Writing' PROVE AckIsDue'
  <2>1. Writing /\ AckIsDue
    BY <1>6 DEF TakesPacket, Writing, Moving, AnyInv
  <2>2. /\ xfer'.messages_per_ack = xfer.messages_per_ack /\ Countdown(packet)
    BY <1>6 DEF TakesPacket
  <2>3. Counted(packet).messages_until_ack = IF xfer.messages_until_ack = 0 THEN 0
                                             ELSE xfer.messages_until_ack - 1
    BY CountedTransfer DEF AnyInv
  <2> DEFINE left == Counted(packet).messages_until_ack
  <2>4. \/ /\ past'.unanswered = 0
           /\ xfer'.messages_until_ack \in {left, xfer.messages_per_ack}
        \/ /\ past'.unanswered = past.unanswered + 1
           /\ xfer'.messages_until_ack = left /\ left # 0
    BY <2>2 DEF Countdown
  <2>5. /\ xfer.messages_per_ack \in Nat /\ xfer.messages_until_ack \in Nat
        /\ xfer.messages_until_ack <= xfer.messages_per_ack
        /\ xfer.messages_per_ack > 0 /\ past.unanswered \in Nat
    BY <2>1 DEF AnyInv, Writing
  <2>6. past.unanswered + xfer.messages_until_ack <= xfer.messages_per_ack
    BY <2>1 DEF AckIsDue
  <2> HIDE DEF left
  <2>7. left = IF xfer.messages_until_ack = 0 THEN 0 ELSE xfer.messages_until_ack - 1
    BY <2>3 DEF left
  <2>8. /\ past'.unanswered < xfer.messages_per_ack
        /\ past'.unanswered + xfer'.messages_until_ack <= xfer.messages_per_ack
    BY <2>4, <2>5, <2>6, <2>7
  <2>9. QED BY <2>2, <2>8 DEF AckIsDue
<1>7. QED BY <1>1, <1>2, <1>3, <1>4, <1>5, <1>6 DEF Kinds, AckIsDue

LEMMA WriteStaysCounted ==
  ASSUME AnyInv, FileType', NEW prompts, Kinds(prompts) PROVE WriteCounted'
<1>1. FileType /\ WriteCounted
  BY DEF AnyInv
<1>2. CASE Quiet
  BY <1>1, <1>2 DEF Quiet, WriteCounted, Writing, Moving
<1>3. CASE Starts
  <2>1. past'.start = past'.start + 0
    <3>1. past'.start \in Nat
      BY DEF FileType, History
    <3>2. QED BY <3>1
  <2>2. QED BY <1>3, <2>1 DEF Starts, WriteCounted
<1>4. CASE Closes
  BY <1>4 DEF Closes, WriteCounted, Writing, Moving
<1>5. CASE SendsData
  BY <1>5 DEF SendsData, WriteCounted, Writing
<1>6. CASE FailsMessage
  BY <1>6 DEF FailsMessage, WriteCounted, Writing
<1>7. ASSUME NEW packet \in Packets, packet.size \in Nat, TakesPacket(packet)
      PROVE  WriteCounted'
  <2> SUFFICES ASSUME Writing', ~past'.erred
               PROVE  /\ xfer'.request_offset = past'.start + xfer'.bytes_transfered
                      /\ past'.completed => xfer'.bytes_transfered >= xfer'.transfer_length
    BY DEF WriteCounted
  <2>1. Writing /\ Advanced(packet)
    BY <1>7 DEF TakesPacket, Retried, Writing, Moving
  <2>2. /\ xfer'.request_offset = xfer.request_offset + packet.size /\ ~past.erred
    BY <2>1 DEF Advanced
  <2>3. /\ xfer.request_offset = past.start + xfer.bytes_transfered
        /\ past.completed => xfer.bytes_transfered >= xfer.transfer_length
    BY <1>1, <2>1, <2>2 DEF WriteCounted
  <2>4. /\ xfer'.bytes_transfered = xfer.bytes_transfered + packet.size
        /\ xfer'.transfer_length = xfer.transfer_length /\ past'.start = past.start
        /\ past'.completed =>
             past.completed \/ xfer'.bytes_transfered >= xfer.transfer_length
    BY <1>7 DEF TakesPacket
  <2>5. QED BY <1>1, <1>7, <2>2, <2>3, <2>4, Numbers
<1>8. QED BY <1>2, <1>3, <1>4, <1>5, <1>6, <1>7 DEF Kinds

LEMMA AnyStep ==
  ASSUME AnyInv, NEW prompts \in SUBSET FilePrompts,
         cr_process \/ watchdog_expires \/ Application(prompts)
  PROVE  AnyInv' /\ Kinds(prompts)
<1>1. CoreType /\ FileType /\ ContinuedRead
  BY DEF AnyInv
<1>2. CoreType' /\ FileType' /\ Kinds(prompts)
  BY <1>1, EveryStep
<1>3. ContinuedRead'
  BY <1>2, ContinuedReadKept
<1>4. AckIsDue'
  BY <1>2, AckStaysDue
<1>5. WriteCounted'
  BY <1>2, WriteStaysCounted
<1>6. QED BY <1>2, <1>3, <1>4, <1>5 DEF AnyInv

LEMMA AnyStutter == ASSUME AnyInv, UNCHANGED vars PROVE AnyInv'
<1>1. /\ UNCHANGED <<connected, key_valid, prompt, classic, hdr, continued_message_type,
                     num_remaining_objects, phase, sent>>
      /\ UNCHANGED <<xfer, watchdog, file, past>>
  BY DEF vars, coreVars, fileVars, link, continued
<1>2. CoreType'
  BY <1>1 DEF AnyInv, CoreType
<1>3. FileType'
  BY <1>1 DEF AnyInv, FileType, Moving
<1>4. ContinuedRead' /\ AckIsDue' /\ WriteCounted'
  BY <1>1 DEF AnyInv, ContinuedRead, AckIsDue, WriteCounted, Writing, Moving
<1>5. QED BY <1>2, <1>3, <1>4 DEF AnyInv

LEMMA AnyInductive == AnyInv /\ [AnyNext]_vars => AnyInv'
<1> SUFFICES ASSUME AnyInv, [AnyNext]_vars PROVE AnyInv'
  OBVIOUS
<1>1. AnyPrompt \in SUBSET FilePrompts
  BY DEF AnyPrompt
<1>2. CASE AnyNext
  BY <1>1, <1>2, AnyStep DEF AnyNext
<1>3. CASE UNCHANGED vars
  BY <1>3, AnyStutter
<1>4. QED BY <1>2, <1>3

LEMMA AnyAlways == AnySpec => []AnyInv
<1>1. QED BY AnyInitially, AnyInductive, PTL DEF AnySpec

(* The variables keep their types, whatever a client sends.                 *)
THEOREM FileTypes == AnySpec => []TypeOK
<1>1. AnyInv => TypeOK
  <2> SUFFICES ASSUME AnyInv PROVE TypeOK
    OBVIOUS
  <2>1. CoreType /\ FileType /\ xfer \in Transfer /\ past \in History
    BY DEF AnyInv, FileType
  <2>2. /\ xfer.state \in States /\ past.completed \in BOOLEAN
        /\ xfer.messages_until_ack \in 0 .. xfer.messages_per_ack
        /\ xfer.request_offset \in Nat
    <3>1. xfer.state \in States
      BY <2>1 DEF Transfer
    <3>2. QED BY <2>1, <3>1, Numbers
  <2>3. QED BY <2>1, <2>2 DEF CoreType, FileType, TypeOK, States, Continuable
<1>2. QED BY <1>1, AnyAlways, PTL

(* Of the packets a client may send before it waits for an acknowledgement, *)
(* the last is answered: transfer_data's countdown never lets the client    *)
(* and the stack wait for each other.                                      *)
THEOREM AcksAreDue == AnySpec => []AckIsDue
<1>1. AnyInv => AckIsDue
  BY DEF AnyInv
<1>2. QED BY <1>1, AnyAlways, PTL

(* A write in which no packet failed leaves no gap, and is reported         *)
(* complete only when all of it is stored.                                 *)
THEOREM WritesAreContiguous == AnySpec => []WriteIsContiguous
<1>1. AnyInv => WriteIsContiguous
  <2> SUFFICES ASSUME AnyInv, Writing, ~past.erred
               PROVE  /\ xfer.request_offset = past.start + xfer.bytes_transfered
                      /\ past.completed =>
                           xfer.request_offset >= past.start + xfer.transfer_length
    BY DEF WriteIsContiguous
  <2>1. /\ xfer.request_offset = past.start + xfer.bytes_transfered
        /\ past.completed => xfer.bytes_transfered >= xfer.transfer_length
    BY DEF AnyInv, WriteCounted
  <2>2. QED BY <2>1, Numbers DEF AnyInv
<1>2. QED BY <1>1, AnyAlways, PTL

(* What a client has written below the offset of a write is not written     *)
(* again, whatever packets fail or come out of sequence.                    *)
THEOREM GoodDataStays == AnySpec => GoodDataKept
<1> DEFINE Kept ==
      Writing /\ xfer'.state = xfer.state /\ xfer'.bytes_transfered > xfer.bytes_transfered
      => /\ xfer'.request_offset >= xfer.request_offset
         /\ \A b \in DOMAIN file :
              past.start <= b /\ b < xfer.request_offset => file'[b] = file[b]
<1>1. AnyInv /\ [AnyNext]_vars => [Kept]_vars
  <2> SUFFICES ASSUME AnyInv, AnyNext, Writing, xfer'.state = xfer.state,
                      xfer'.bytes_transfered > xfer.bytes_transfered
               PROVE  /\ xfer'.request_offset >= xfer.request_offset
                      /\ \A b \in DOMAIN file : b < xfer.request_offset => file'[b] = file[b]
    OBVIOUS
  <2>1. AnyPrompt \in SUBSET FilePrompts
    BY DEF AnyPrompt
  <2>2. Kinds(AnyPrompt)
    BY <2>1, AnyStep DEF AnyNext
  <2>3. /\ xfer.request_offset \in Nat /\ xfer.bytes_transfered \in Nat
        /\ xfer.read_write /\ xfer.state \in {"INIT", "DATA"}
    BY Numbers DEF AnyInv, Writing, Moving
  <2>4. CASE Quiet \/ Starts \/ Closes
    BY <2>3, <2>4 DEF Quiet, Starts, Closes
  <2>5. CASE FailsMessage
    BY <2>3, <2>5 DEF FailsMessage
  <2>6. CASE SendsData
    BY <2>3, <2>6 DEF SendsData
  <2>7. ASSUME NEW packet \in Packets, packet.size \in Nat, TakesPacket(packet)
        PROVE  /\ xfer'.request_offset >= xfer.request_offset
               /\ \A b \in DOMAIN file : b < xfer.request_offset => file'[b] = file[b]
    <3>1. xfer'.request_offset = xfer.request_offset + packet.size
          \/ xfer'.request_offset = xfer.request_offset
      BY <2>7 DEF TakesPacket, Advanced, Retried
    <3>2. QED BY <2>3, <2>7, <3>1 DEF TakesPacket
  <2>8. QED BY <2>2, <2>4, <2>5, <2>6, <2>7 DEF Kinds
<1>2. QED BY <1>1, AnyAlways, PTL DEF AnySpec, GoodDataKept

-----------------------------------------------------------------------------
(* A client that sends data in writes and notifications in reads.           *)

(* A prompt that waits while a read is under way is not data.               *)
PromptFits == prompt.type = "TRANSFER_DATA" /\ Moving => xfer.read_write = TRUE

WindowKept == Reading => past.window <= xfer.messages_per_ack

(* A continued read has sent what its window no longer announces, and has   *)
(* data left.                                                              *)
OpenWindow ==
  continued_message_type = "TRANSFER_DATA" =>
    /\ num_remaining_objects > 0
    /\ num_remaining_objects = xfer.messages_until_ack
    /\ past.window + num_remaining_objects = xfer.messages_per_ack
    /\ xfer.bytes_transfered < xfer.transfer_length

ReadInv == AnyInv /\ PromptFits /\ ReadIsContiguous /\ WindowKept /\ OpenWindow

LEMMA ReadInitially == Init => ReadInv
<1> SUFFICES ASSUME Init PROVE ReadInv
  OBVIOUS
<1>1. xfer.state = "FILE_TRANSFER_INVALID" /\ continued_message_type = INVALID
  BY DEF Init, CoreInit, ZeroTransfer
<1>2. QED
  BY <1>1, AnyInitially
     DEF ReadInv, PromptFits, ReadIsContiguous, WindowKept, OpenWindow, Reading, Moving, INVALID

LEMMA PromptStillFits ==
  ASSUME ReadInv, Kinds(OrderlyPrompt) PROVE PromptFits'
<1>1. PromptFits /\ xfer.read_write \in BOOLEAN
  BY Numbers DEF ReadInv, AnyInv
<1>2. CASE Quiet /\ prompt' \in {prompt, NoPrompt} \cup OrderlyPrompt
  BY <1>1, <1>2 DEF Quiet, PromptFits, Moving, OrderlyPrompt, NoPrompt
<1>3. CASE Starts \/ Closes \/ FailsMessage
  BY <1>3 DEF Starts, Closes, FailsMessage, PromptFits, NoPrompt
<1>4. CASE SendsData
  BY <1>1, <1>4 DEF SendsData, PromptFits, Moving, NoPrompt
<1>5. ASSUME NEW packet \in Packets, TakesPacket(packet) PROVE PromptFits'
  BY <1>5 DEF TakesPacket, PromptFits, NoPrompt
<1>6. QED BY <1>2, <1>3, <1>4, <1>5 DEF Kinds

(* What is read at the place of a contiguous read does not exceed what is   *)
(* asked for.                                                              *)
LEMMA ReadableLeft ==
  ASSUME FileType, xfer.bytes_transfered <= xfer.transfer_length
  PROVE  /\ Readable \in Nat
         /\ xfer.bytes_transfered + Readable <= xfer.transfer_length
<1>1. /\ xfer.bytes_transfered \in Nat /\ xfer.transfer_length \in Nat
      /\ Readable \in Nat /\ BytesRequested \in Nat /\ Readable <= BytesRequested
  BY Numbers, ReadableNumber
<1>2. BytesRequested <= xfer.transfer_length - xfer.bytes_transfered
  BY <1>1, FileAssumption DEF BytesRequested, Smaller
<1>3. QED BY <1>1, <1>2

LEMMA ReadStaysContiguous ==
  ASSUME ReadInv, FileType', Kinds(OrderlyPrompt) PROVE ReadIsContiguous'
<1>1. FileType /\ PromptFits /\ ReadIsContiguous
  BY DEF ReadInv, AnyInv
<1>2. CASE Quiet
  BY <1>1, <1>2 DEF Quiet, ReadIsContiguous, Reading
<1>3. CASE Starts
  <2>1. past'.start \in Nat /\ xfer'.transfer_length \in Nat
    BY DEF FileType, History, Transfer
  <2>2. QED BY <1>3, <2>1 DEF Starts, ReadIsContiguous
<1>4. CASE Closes
  BY <1>1, <1>4 DEF Closes, ReadIsContiguous, Reading
<1>5. CASE FailsMessage
  <2>1. CASE xfer.read_write = FALSE
    BY <1>1, <1>5, <2>1 DEF FailsMessage, ReadIsContiguous, Reading, PromptFits, Moving
  <2>2. CASE xfer.read_write = TRUE
    BY <1>5, <2>2 DEF FailsMessage, ReadIsContiguous, Reading
  <2>3. QED BY <1>1, <2>1, <2>2, Numbers
<1>6. CASE SendsData
  <2>1. /\ xfer.request_offset = past.start + xfer.bytes_transfered
        /\ xfer.bytes_transfered <= xfer.transfer_length
    BY <1>1, <1>6 DEF SendsData, ReadIsContiguous, Reading
  <2>2. /\ xfer'.request_offset = xfer.request_offset + Readable
        /\ xfer'.bytes_transfered = xfer.bytes_transfered + Readable
        /\ xfer'.transfer_length = xfer.transfer_length /\ past'.start = past.start
    BY <1>6 DEF SendsData
  <2>3. Readable \in Nat /\ xfer.bytes_transfered + Readable <= xfer.transfer_length
    BY <1>1, <2>1, ReadableLeft
  <2>4. QED BY <1>1, <2>1, <2>2, <2>3, Numbers DEF ReadIsContiguous
<1>7. ASSUME NEW packet \in Packets, TakesPacket(packet) PROVE ReadIsContiguous'
  BY <1>1, <1>7 DEF TakesPacket, PromptFits, ReadIsContiguous, Reading
<1>8. QED BY <1>2, <1>3, <1>4, <1>5, <1>6, <1>7 DEF Kinds

LEMMA WindowStaysKept ==
  ASSUME ReadInv, FileType', Kinds(OrderlyPrompt) PROVE WindowKept'
<1>1. FileType /\ PromptFits /\ WindowKept /\ OpenWindow
  BY DEF ReadInv, AnyInv
<1>2. CASE Quiet
  BY <1>1, <1>2 DEF Quiet, WindowKept, Reading
<1>3. CASE Starts
  BY <1>3 DEF Starts, WindowKept, FileType, Transfer
<1>4. CASE Closes
  BY <1>1, <1>4 DEF Closes, WindowKept, Reading
<1>5. CASE FailsMessage
  <2>1. CASE xfer.read_write = FALSE
    <3>1. past'.window = 0 /\ xfer'.messages_per_ack \in Nat
      BY <1>1, <1>5, <2>1 DEF FailsMessage, PromptFits, Moving, FileType, Transfer
    <3>2. QED BY <3>1 DEF WindowKept
  <2>2. CASE xfer.read_write = TRUE
    BY <1>5, <2>2 DEF FailsMessage, WindowKept, Reading
  <2>3. QED BY <1>1, <2>1, <2>2, Numbers
<1>6. CASE SendsData
  <2>1. xfer.messages_per_ack \in Nat /\ xfer.messages_per_ack > 0 /\ past.window \in Nat
    BY <1>1, <1>6, Numbers DEF SendsData, Moving
  <2>2. \/ past'.window = 1
        \/ past'.window = past.window + 1 /\ continued_message_type = "TRANSFER_DATA"
    BY <1>6 DEF SendsData
  <2>3. num_remaining_objects \in Nat
    BY DEF ReadInv, AnyInv, CoreType
  <2>4. continued_message_type = "TRANSFER_DATA" => past.window + 1 <= xfer.messages_per_ack
    BY <1>1, <2>1, <2>3 DEF OpenWindow
  <2>5. past'.window <= xfer.messages_per_ack
    BY <2>1, <2>2, <2>4
  <2>6. QED BY <1>6, <2>5 DEF SendsData, WindowKept
<1>7. ASSUME NEW packet \in Packets, TakesPacket(packet) PROVE WindowKept'
  BY <1>1, <1>7 DEF TakesPacket, PromptFits, WindowKept, Reading
<1>8. QED BY <1>2, <1>3, <1>4, <1>5, <1>6, <1>7 DEF Kinds

LEMMA WindowStaysOpen ==
  ASSUME ReadInv, FileType', ReadIsContiguous', Kinds(OrderlyPrompt) PROVE OpenWindow'
<1>1. FileType /\ OpenWindow
  BY DEF ReadInv, AnyInv
<1>2. CASE Quiet
  BY <1>1, <1>2 DEF Quiet, OpenWindow
<1>3. CASE Starts \/ Closes \/ FailsMessage
  BY <1>3 DEF Starts, Closes, FailsMessage, OpenWindow, INVALID
<1>4. CASE SendsData
  <2> SUFFICES ASSUME continued_message_type' = "TRANSFER_DATA"
               PROVE  /\ num_remaining_objects' > 0
                      /\ num_remaining_objects' = xfer'.messages_until_ack
                      /\ past'.window + num_remaining_objects' = xfer'.messages_per_ack
                      /\ xfer'.bytes_transfered < xfer'.transfer_length
    BY DEF OpenWindow
  <2>1. num_remaining_objects' > 0 /\ num_remaining_objects' = Announced(xfer')
    BY <1>4 DEF SendsData, INVALID
  <2>2. xfer'.state # "COMPLETE" /\ num_remaining_objects' = xfer'.messages_until_ack
    BY <2>1 DEF Announced
  <2>3. xfer'.bytes_transfered < xfer'.transfer_length
    <3>1. xfer'.bytes_transfered <= xfer'.transfer_length
      BY <1>4 DEF SendsData, ReadIsContiguous, Reading
    <3>2. xfer'.bytes_transfered # xfer'.transfer_length
      BY <1>4, <2>2 DEF SendsData
    <3>3. xfer'.bytes_transfered \in Nat /\ xfer'.transfer_length \in Nat
      BY DEF FileType, Transfer
    <3>4. QED BY <3>1, <3>2, <3>3
  <2>4. /\ xfer.messages_per_ack \in Nat /\ past.window \in Nat
        /\ xfer.messages_until_ack \in Nat
    BY <1>1, Numbers
  <2>5. \/ past'.window = 1 /\ xfer'.messages_until_ack = xfer.messages_per_ack - 1
        \/ /\ continued_message_type = "TRANSFER_DATA"
           /\ past'.window = past.window + 1
           /\ xfer.messages_until_ack > 0 =>
                xfer'.messages_until_ack = xfer.messages_until_ack - 1
    BY <1>4 DEF SendsData
  <2>6. continued_message_type = "TRANSFER_DATA" =>
          /\ xfer.messages_until_ack > 0
          /\ past.window + xfer.messages_until_ack = xfer.messages_per_ack
    BY <1>1 DEF OpenWindow
  <2>7. past'.window + xfer'.messages_until_ack = xfer.messages_per_ack
    BY <2>4, <2>5, <2>6
  <2>8. QED BY <1>4, <2>1, <2>2, <2>3, <2>7 DEF SendsData
<1>5. ASSUME NEW packet \in Packets, TakesPacket(packet) PROVE OpenWindow'
  BY <1>5, PromptMeansNothingContinued DEF TakesPacket, OpenWindow, ReadInv, AnyInv, INVALID
<1>6. QED BY <1>2, <1>3, <1>4, <1>5 DEF Kinds

LEMMA ReadInductive == ReadInv /\ [OrderlyNext]_vars => ReadInv'
<1> SUFFICES ASSUME ReadInv, [OrderlyNext]_vars PROVE ReadInv'
  OBVIOUS
<1>1. AnyInv
  BY DEF ReadInv
<1>2. CASE OrderlyNext
  <2>1. OrderlyPrompt \in SUBSET FilePrompts
    BY DEF OrderlyPrompt, AnyPrompt
  <2>2. AnyInv' /\ Kinds(OrderlyPrompt)
    BY <1>1, <1>2, <2>1, AnyStep DEF OrderlyNext
  <2>3. FileType'
    BY <2>2 DEF AnyInv
  <2>4. PromptFits' /\ ReadIsContiguous' /\ WindowKept'
    BY <2>2, <2>3, PromptStillFits, ReadStaysContiguous, WindowStaysKept
  <2>5. OpenWindow'
    BY <2>2, <2>3, <2>4, WindowStaysOpen
  <2>6. QED BY <2>2, <2>4, <2>5 DEF ReadInv
<1>3. CASE UNCHANGED vars
  <2>1. UNCHANGED <<prompt, continued_message_type, num_remaining_objects, xfer, past>>
    BY <1>3 DEF vars, coreVars, fileVars, continued
  <2>2. PromptFits' /\ ReadIsContiguous' /\ WindowKept' /\ OpenWindow'
    BY <2>1 DEF ReadInv, PromptFits, ReadIsContiguous, WindowKept, OpenWindow, Reading, Moving
  <2>3. AnyInv'
    BY <1>1, <1>3, AnyStutter
  <2>4. QED BY <2>2, <2>3 DEF ReadInv
<1>4. QED BY <1>2, <1>3

LEMMA ReadAlways == Spec => []ReadInv
<1>1. QED BY ReadInitially, ReadInductive, PTL DEF Spec

(* A read goes through the file without a gap or a repetition and sends no  *)
(* more than was asked for, over any number of windows, failures and        *)
(* reconnections.                                                          *)
THEOREM ReadsAreContiguous == Spec => []ReadIsContiguous
<1>1. ReadInv => ReadIsContiguous
  BY DEF ReadInv
<1>2. QED BY <1>1, ReadAlways, PTL

(* No more messages are sent than the window allows; while one is open it   *)
(* belongs to a live read, and what is sent and announced makes it up.      *)
THEOREM WindowsAreKept == Spec => []ReadWindowKept
<1>1. ReadInv => ReadWindowKept
  <2> SUFFICES ASSUME ReadInv PROVE ReadWindowKept
    OBVIOUS
  <2>1. ContinuedReadIsLive
    BY DEF ReadInv, AnyInv, OpenWindow, ContinuedRead, ContinuedReadIsLive
  <2>2. QED BY <2>1 DEF ReadInv, WindowKept, OpenWindow, ReadWindowKept
<1>2. QED BY <1>1, ReadAlways, PTL

-----------------------------------------------------------------------------
(* What a read announces, to clients with the Ahsoka header.  (In classic   *)
(* format an error is not encoded as a report, and the response that is     *)
(* sent after it as it is may be an old one.)                              *)

AhsokaOnly == Formats \subseteq {FALSE}

(* The step sends no answer with data, or one that announces what follows.  *)
Announces ==
  /\ sent' # <<>>
  /\ sent'[Len(sent')].type = "TRANSFER_DATA"
  /\ \A i \in DOMAIN sent' : ~IsErrorReport(sent'[i])
  => (sent'[Len(sent')].remaining > 0 <=> continued_message_type' = "TRANSFER_DATA")

LEMMA SentInOrder ==
  ASSUME NEW format, NEW codes \in Seq(Reported), NEW m, Report(format, codes, <<m>>)
  PROVE  /\ sent' # <<>> /\ sent'[Len(sent')] = m
         /\ codes # <<>> /\ format = FALSE =>
              \E i \in DOMAIN sent' : IsErrorReport(sent'[i])
<1> DEFINE reports == Reports(format, codes)
           S == { reports[i] : i \in 1 .. Len(codes) } \cup {m}
<1>1. Len(codes) \in Nat /\ DOMAIN codes = 1 .. Len(codes)
  OBVIOUS
<1>2. reports \in [1 .. Len(codes) -> S]
  BY <1>1 DEF Reports
<1>3. reports \in Seq(S) /\ <<m>> \in Seq(S) /\ Len(<<m>>) = 1 /\ <<m>>[1] = m
  BY <1>1, <1>2, SeqDef
<1>4. DOMAIN reports = 1 .. Len(codes)
  BY <1>2
<1>5. format = FALSE => \A i \in 1 .. Len(codes) : reports[i] = ErrorReport(codes[i])
  BY <1>1 DEF Reports
<1> HIDE DEF S, reports
<1>6. Len(reports) \in Nat /\ DOMAIN reports = 1 .. Len(reports)
  BY <1>3, LenProperties
<1>7. Len(reports) = Len(codes)
  BY <1>1, <1>4, <1>6, SameInterval
<1> DEFINE all == reports \o <<m>>
<1>8. /\ all \in Seq(S) /\ Len(all) = Len(reports) + 1
      /\ \A i \in 1 .. Len(reports) + 1 :
           all[i] = IF i <= Len(reports) THEN reports[i] ELSE <<m>>[i - Len(reports)]
  BY <1>3, ConcatProperties
<1>9. sent' = all
  BY DEF Report, reports
<1> HIDE DEF all
<1>10. DOMAIN all = 1 .. Len(all) /\ Len(all) \in 1 .. Len(reports) + 1
  BY <1>6, <1>8, LenProperties
<1>11. all # <<>>
  BY <1>6, <1>8
<1>12. all[Len(all)] = m
  <2>1. all[Len(all)] = <<m>>[Len(all) - Len(reports)]
    BY <1>6, <1>8, <1>10
  <2>2. Len(all) - Len(reports) = 1
    BY <1>6, <1>8
  <2>3. QED BY <1>3, <2>1, <2>2
<1>13. ASSUME codes # <<>>, format = FALSE PROVE 1 \in DOMAIN all /\ IsErrorReport(all[1])
  <2>1. 1 \in 1 .. Len(codes)
    BY <1>1, <1>13, EmptySeq
  <2>2. all[1] = ErrorReport(codes[1]) /\ 1 \in DOMAIN all
    BY <1>1, <1>5, <1>6, <1>7, <1>8, <1>10, <1>13, <2>1
  <2>3. QED BY <2>2 DEF IsErrorReport, ErrorReport, Message
<1>14. QED BY <1>9, <1>11, <1>12, <1>13

LEMMA SilentAnnounces == ASSUME sent' = <<>> PROVE Announces
  BY DEF Announces

LEMMA FailAnnounces ==
  ASSUME prompt.classic = FALSE, NEW codes \in Seq(Reported), NEW rval \in Reported,
         Fail(codes, rval)
  PROVE  Announces
<1>1. Append(codes, rval) \in Seq(Reported) /\ Append(codes, rval) # <<>>
  BY AppendProperties
<1>2. PICK all \in Seq(Reported), m \in {response_buffer} : all = Append(codes, rval)
  BY <1>1
<1>3. Report(FALSE, all, <<m>>) /\ all # <<>>
  BY <1>1, <1>2 DEF Fail
<1>4. \E i \in DOMAIN sent' : IsErrorReport(sent'[i])
  BY <1>2, <1>3, SentInOrder
<1>5. QED BY <1>4 DEF Announces

LEMMA EncodeAnnounces ==
  ASSUME NEW type, NEW tid, NEW format, NEW remaining, NEW body, NEW codes \in Seq(Reported),
         Encode(type, tid, format, remaining, body, codes),
         type = "TRANSFER_DATA" =>
           (remaining > 0 <=> continued_message_type' = "TRANSFER_DATA")
  PROVE  Announces
<1> DEFINE m == Message(type, tid, format, remaining, body)
<1>1. Report(format, codes, <<m>>)
  BY DEF Encode
<1>2. m.type = type /\ m.remaining = remaining
  BY DEF Message
<1> HIDE DEF m
<1>3. sent'[Len(sent')] = m
  BY <1>1, SentInOrder
<1>4. QED BY <1>2, <1>3 DEF Announces

LEMMA RespondAnnounces ==
  ASSUME NEW type, NEW remaining, NEW body, NEW codes \in Seq(Reported),
         Respond(type, remaining, body, codes),
         type = "TRANSFER_DATA" =>
           (remaining > 0 <=> continued_message_type' = "TRANSFER_DATA")
  PROVE  Announces
<1>1. PICK tid \in {prompt.tid}, format \in {prompt.classic} : TRUE
  OBVIOUS
<1>2. Encode(type, tid, format, remaining, body, codes)
  BY <1>1 DEF Respond
<1>3. QED BY <1>2, EncodeAnnounces

(* A client's header stays the Ahsoka one.                                  *)
LEMMA AhsokaPrompt ==
  ASSUME AhsokaOnly, CoreType, prompt # NoPrompt PROVE prompt.classic = FALSE
<1>1. prompt \in FilePrompts
  BY DEF CoreType
<1>2. prompt.classic \in Formats
  BY <1>1 DEF FilePrompts, CorePrompts, Wire
<1>3. QED BY <1>2 DEF AhsokaOnly

LEMMA AhsokaDispatch ==
  ASSUME AhsokaOnly, CoreType, NEW type, type # "NONE", Dispatch(type)
  PROVE  prompt.classic = FALSE /\ classic' = FALSE
<1>1. prompt # NoPrompt
  BY DEF Dispatch, NoPrompt
<1>2. QED BY <1>1, AhsokaPrompt DEF Dispatch

(* A prompt is answered with an error, an answer without data, or not.      *)
LEMMA PromptAnnounces ==
  ASSUME AhsokaOnly, CoreType, NEW type, type # "NONE", Dispatch(type),
         \/ Silent
         \/ \E codes \in Seq(Reported), rval \in Reported : Fail(codes, rval)
         \/ \E answer, remaining, body : \E codes \in Seq(Reported) :
              answer # "TRANSFER_DATA" /\ Respond(answer, remaining, body, codes)
  PROVE  classic' = FALSE /\ Announces
<1>1. prompt.classic = FALSE /\ classic' = FALSE
  BY AhsokaDispatch
<1>2. CASE Silent
  BY <1>1, <1>2, SilentAnnounces DEF Silent
<1>3. CASE \E codes \in Seq(Reported), rval \in Reported : Fail(codes, rval)
  BY <1>1, <1>3, FailAnnounces
<1>4. ASSUME NEW answer, NEW remaining, NEW body, NEW codes \in Seq(Reported),
             answer # "TRANSFER_DATA", Respond(answer, remaining, body, codes)
      PROVE  Announces
  BY <1>4, RespondAnnounces
<1>5. QED BY <1>1, <1>2, <1>3, <1>4

LEMMA CodeLists ==
  /\ <<>> \in Seq(Reported) /\ \A c \in Reported : <<c>> \in Seq(Reported)
  /\ \A a, b \in Seq(Reported) : a \o b \in Seq(Reported)
  BY ConcatProperties

LEMMA CoreAnnounces ==
  ASSUME AhsokaOnly, CoreType, classic = FALSE, CoreProcess PROVE classic' = FALSE /\ Announces
<1>1. CASE handle_ping
  <2>1. /\ Dispatch("PING")
        /\ Silent \/ Respond("PING", 0, 0, <<>>)
    BY <1>1 DEF handle_ping
  <2>2. QED BY <2>1, CodeLists, PromptAnnounces
<1>2. CASE handle_get_device_info
  <2>1. Dispatch("GET_DEVICE_INFO") /\ Respond("GET_DEVICE_INFO", 0, 0, <<>>)
    BY <1>2 DEF handle_get_device_info
  <2>2. QED BY <2>1, CodeLists, PromptAnnounces
<1>3. CASE handle_undecodable_header
  <2>1. /\ prompt # NoPrompt /\ classic' = prompt.classic
        /\ Fail(<<"DECODING_FAILED">>, "DECODING_FAILED")
    BY <1>3 DEF handle_undecodable_header, NoPrompt
  <2>2. prompt.classic = FALSE /\ "DECODING_FAILED" \in Reported
    BY <2>1, AhsokaPrompt DEF Reported
  <2>3. QED BY <2>1, <2>2, CodeLists, FailAnnounces
<1>4. CASE handle_undecodable_payload
  <2>1. Dispatch("BAD_PAYLOAD") /\ Fail(<<"DECODING_FAILED">>, "DECODING_FAILED")
    BY <1>4 DEF handle_undecodable_payload
  <2>2. "DECODING_FAILED" \in Reported
    BY DEF Reported
  <2>3. QED BY <2>1, <2>2, CodeLists, PromptAnnounces
<1>5. CASE handle_unhandled_type
  <2>1. Dispatch("UNHANDLED") /\ Fail(<<"NOT_IMPLEMENTED">>, "NOT_IMPLEMENTED")
    BY <1>5 DEF handle_unhandled_type
  <2>2. "NOT_IMPLEMENTED" \in Reported
    BY DEF Reported
  <2>3. QED BY <2>1, <2>2, CodeLists, PromptAnnounces
<1>6. CASE process_no_prompt
  BY <1>6, SilentAnnounces DEF process_no_prompt, Silent
<1>7. QED BY <1>1, <1>2, <1>3, <1>4, <1>5, <1>6 DEF CoreProcess, CoreHandlers

LEMMA InitAnnounces ==
  ASSUME AhsokaOnly, CoreType, transfer_init PROVE classic' = FALSE /\ Announces
<1> DEFINE type == "TRANSFER_INIT"
<1>1. CASE transfer_init_denied
  <2>1. Dispatch(type) /\ Silent
    BY <1>1 DEF transfer_init_denied
  <2>2. QED BY <2>1, PromptAnnounces
<1>2. CASE transfer_init_refused
  <2> DEFINE body == [result |-> "PERMISSION_DENIED", ack_rate |-> 0]
  <2>1. /\ Dispatch(type)
        /\ \/ Fail(<<"BAD_FILE">>, "INVALID_ID")
           \/ Respond(type, 0, body, <<"PERMISSION_DENIED">>)
    BY <1>2 DEF transfer_init_refused
  <2>2. "BAD_FILE" \in Reported /\ "INVALID_ID" \in Reported /\ "PERMISSION_DENIED" \in Reported
    BY DEF Reported
  <2> HIDE DEF body
  <2>3. QED BY <2>1, <2>2, CodeLists, PromptAnnounces
<1>3. CASE transfer_init_started
  <2>1. PICK denied \in {<<>>, <<"PERMISSION_DENIED">>}, failed \in {<<>>, <<"WRITE_FAILED">>},
             preferred \in PreferredRates :
          /\ Dispatch(type)
          /\ Respond(type, 0,
               [result |-> "NO_ERROR", ack_rate |-> AckRate(prompt.arg.ack_rate, preferred)],
               denied \o failed)
    BY <1>3 DEF transfer_init_started
  <2>2. denied \in Seq(Reported) /\ failed \in Seq(Reported)
    BY CodeLists DEF Reported
  <2>3. PICK body \in {[result |-> "NO_ERROR",
                        ack_rate |-> AckRate(prompt.arg.ack_rate, preferred)]} :
          Respond(type, 0, body, denied \o failed)
    BY <2>1
  <2>4. PICK codes \in Seq(Reported) : codes = denied \o failed
    BY <2>2, CodeLists
  <2>5. Dispatch(type) /\ Respond(type, 0, body, codes)
    BY <2>1, <2>3, <2>4
  <2>6. QED BY <2>5, PromptAnnounces
<1>4. QED BY <1>1, <1>2, <1>3 DEF transfer_init

LEMMA DataAnnounces ==
  ASSUME AhsokaOnly, CoreType, transfer_data PROVE classic' = FALSE /\ Announces
<1> DEFINE type == "TRANSFER_DATA"
           answer == "TRANSFER_DATA_NOTIFICATION"
<1>1. CASE transfer_data_out_of_sequence \/ transfer_data_bad_checksum
           \/ transfer_data_complete \/ transfer_data_acknowledged
  <2>1. /\ Dispatch(type)
        /\ \E body : Respond(answer, 0, body, <<>>)
    BY <1>1 DEF transfer_data_out_of_sequence, transfer_data_bad_checksum,
        transfer_data_complete, transfer_data_acknowledged, TakePacket, RetryFrom, Answer
  <2>2. QED BY <2>1, CodeLists, PromptAnnounces
<1>2. CASE transfer_data_unanswered
  <2>1. Dispatch(type) /\ Silent
    BY <1>2 DEF transfer_data_unanswered, TakePacket
  <2>2. QED BY <2>1, PromptAnnounces
<1>3. CASE transfer_data_write_failed \/ transfer_data_invalid_state
  <2>1. PICK rval \in {"WRITE_FAILED", "INVALID_STATE"} : Dispatch(type) /\ Fail(<<rval>>, rval)
    BY <1>3 DEF transfer_data_write_failed, transfer_data_invalid_state
  <2>2. rval \in Reported
    BY DEF Reported
  <2>3. QED BY <2>1, <2>2, CodeLists, PromptAnnounces
<1>4. QED BY <1>1, <1>2, <1>3 DEF transfer_data

(* The transaction goes on exactly if the message announces more.           *)
LEMMA NotificationAnnounces ==
  ASSUME AhsokaOnly, CoreType, FileType, classic = FALSE, transfer_data_notification
  PROVE  classic' = FALSE /\ Announces
<1> DEFINE type == "TRANSFER_DATA_NOTIFICATION"
<1>1. CASE read_first
  <2> DEFINE x    == AfterRead(Reopened, Readable)
             body == FileData(x, Readable)
             left == Announced(x)
  <2>1. /\ Dispatch(type) /\ Respond("TRANSFER_DATA", left, body, <<>>)
        /\ IF left > 0 THEN BeginContinued("TRANSFER_DATA") ELSE EndContinued
    BY <1>1 DEF read_first, CanRead
  <2> HIDE DEF left, body
  <2>2. left > 0 <=> continued_message_type' = "TRANSFER_DATA"
    BY <2>1 DEF BeginContinued, EndContinued, INVALID
  <2>3. classic' = FALSE
    BY <2>1, AhsokaDispatch
  <2>4. Announces
    BY <2>1, <2>2, CodeLists, RespondAnnounces
  <2>5. QED BY <2>3, <2>4
<1>2. CASE read_next
  <2> DEFINE x    == AfterRead(xfer, Readable)
             body == FileData(x, Readable)
             left == Announced(x)
  <2>1. /\ continued_message_type = "TRANSFER_DATA"
        /\ Continue("TRANSFER_DATA", left, body)
    BY <1>2 DEF read_next, AtContinued
  <2>2. left \in Nat
    <3>1. CoreType'
      BY <1>2, NotificationCoreType DEF transfer_data_notification
    <3>2. QED BY <2>1, <3>1 DEF CoreType, Continue
  <2> HIDE DEF left, body
  <2>3. left > 0 <=> continued_message_type' = "TRANSFER_DATA"
    BY <2>1, <2>2 DEF Continue, KeepContinued, EndContinued, INVALID
  <2>4. PICK tid \in {hdr}, format \in {classic} : Encode("TRANSFER_DATA", tid, format, left, body, <<>>)
    BY <2>1 DEF Continue
  <2>5. Announces
    BY <2>3, <2>4, CodeLists, EncodeAnnounces
  <2>6. QED BY <2>1, <2>5 DEF Continue
<1>3. CASE read_first_failed \/ notification_invalid_state
  <2>1. PICK code \in {"READ_FAILED", "INVALID_STATE"}, rval \in Reported :
          Dispatch(type) /\ Fail(<<code>>, rval)
    BY <1>3 DEF read_first_failed, CanRead, notification_invalid_state, Reported
  <2>2. code \in Reported
    BY DEF Reported
  <2>3. QED BY <2>1, <2>2, CodeLists, PromptAnnounces
<1>4. CASE read_next_failed
  <2>1. /\ Report(classic, <<"READ_FAILED">>, <<response_buffer>>) /\ classic' = classic
    BY <1>4 DEF read_next_failed, FailContinued
  <2>2. PICK m \in {response_buffer}, codes \in Seq(Reported) :
          codes = <<"READ_FAILED">> /\ Report(classic, codes, <<m>>) /\ codes # <<>>
    BY <2>1, CodeLists DEF Reported
  <2>3. PICK format \in {FALSE} : Report(format, codes, <<m>>)
    BY <2>2
  <2>4. \E i \in DOMAIN sent' : IsErrorReport(sent'[i])
    BY <2>2, <2>3, SentInOrder
  <2>5. QED BY <2>1, <2>4 DEF Announces
<1>5. CASE read_stopped_by_client \/ read_confirmed
  <2>1. Dispatch(type) /\ \E body : Respond(type, 0, body, <<>>)
    BY <1>5 DEF read_stopped_by_client, read_confirmed, CanRead
  <2>2. QED BY <2>1, CodeLists, PromptAnnounces
<1>6. QED BY <1>1, <1>2, <1>3, <1>4, <1>5 DEF transfer_data_notification

LEMMA OtherAnnounces ==
  ASSUME AhsokaOnly, CoreType, classic = FALSE,
         \/ erase_file \/ discover_files \/ continue_discover_files \/ watchdog_expires
         \/ \E prompts \in SUBSET FilePrompts : Application(prompts)
  PROVE  classic' = FALSE /\ Announces
<1>1. CASE erase_file
  <2>1. /\ Dispatch("ERASE_FILE")
        /\ \/ \E body : Respond("ERASE_FILE", 0, body, <<>>)
           \/ Fail(<<>>, "INCOMPLETE")
    BY <1>1 DEF erase_file
  <2>2. "INCOMPLETE" \in Reported
    BY DEF Reported
  <2>3. QED BY <2>1, <2>2, CodeLists, PromptAnnounces
<1>2. CASE discover_files
  <2>1. /\ Dispatch("DISCOVER_FILES")
        /\ \/ Silent
           \/ \E remaining, body : Respond("DISCOVER_FILES", remaining, body, <<>>)
    BY <1>2 DEF discover_files
  <2>2. QED BY <2>1, CodeLists, PromptAnnounces
<1>3. CASE continue_discover_files \/ watchdog_expires
  BY <1>3, SilentAnnounces DEF continue_discover_files, watchdog_expires, NoMoreData, Silent
<1>4. CASE \E prompts \in SUBSET FilePrompts : Application(prompts)
  BY <1>4, SilentAnnounces DEF Application, CoreApplication, cr_store_coded_prompt, set_connected,
      set_disconnected, cr_get_coded_response_buffer, Silent
<1>5. QED BY <1>1, <1>2, <1>3, <1>4

(* To a client with the Ahsoka header, the message that is announced as the *)
(* last of its window leaves nothing continued, and one that announces more *)
(* is followed by it, whatever the client sends.                           *)
THEOREM AnnouncedReadsContinue ==
  ASSUME AhsokaOnly PROVE AnySpec => AnnouncedReadContinues
<1> DEFINE Inv == AnyInv /\ classic = FALSE
<1>1. Init => Inv
  BY AnyInitially DEF Init, CoreInit
<1>2. ASSUME Inv, AnyNext PROVE classic' = FALSE /\ Announces
  <2>1. CoreType /\ FileType /\ AnyPrompt \in SUBSET FilePrompts
    BY <1>2 DEF AnyInv, AnyPrompt
  <2>2. QED
    BY <1>2, <2>1, CoreAnnounces, InitAnnounces, DataAnnounces, NotificationAnnounces,
       OtherAnnounces DEF AnyNext, cr_process
<1>3. Inv /\ [AnyNext]_vars => Inv'
  <2>1. UNCHANGED vars => classic' = classic
    BY DEF vars, coreVars
  <2>2. QED BY <1>2, <2>1, AnyInductive
<1>4. Inv /\ [AnyNext]_vars => [Announces]_vars
  BY <1>2
<1>5. QED BY <1>1, <1>3, <1>4, PTL DEF AnySpec, AnnouncedReadContinues, Announces

=============================================================================
