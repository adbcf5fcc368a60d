----------------------------- MODULE FileTransfer -----------------------------
(***************************************************************************)
(* The file service (src/src/cr_files.c) on top of the core: the transfer  *)
(* state machine that serves reads and writes of one file, the erase and   *)
(* discover requests, and the watchdog as a flag that may expire at any     *)
(* call (its arithmetic is in Watchdog).  A build with this service alone. *)
(*                                                                         *)
(* Data is abstracted to where it comes from: the bytes of a read message  *)
(* are the range of the file they were read at, the bytes of a written one *)
(* the range of the client's own copy.                                     *)
(***************************************************************************)
EXTENDS ReachCore

CONSTANTS
  FileSize,        (* bytes the application's file can hold                *)
  FileAccess,      (* cr_AccessLevel in its description                    *)
  NumFiles,        (* crcb_file_get_file_count                             *)
  REACH_BYTES_IN_A_FILE_PACKET,
  REACH_DISCOVER_FILES_COUNT,
  PreferredRates,  (* what crcb_file_get_preferred_ack_rate may answer     *)
  Requests,        (* TRANSFER_INIT payloads a client may send             *)
  Packets,         (* TRANSFER_DATA payloads a client may send             *)
  MaxBytes         (* bound: packets stored while bytes_transfered is below *)

ASSUME FileAssumption ==
  /\ FileSize \in Nat /\ NumFiles \in Nat /\ MaxBytes \in Nat
  /\ FileAccess \in {"NO_ACCESS", "READ", "WRITE", "READ_WRITE"}
  /\ REACH_BYTES_IN_A_FILE_PACKET \in Nat \ {0}
  /\ REACH_DISCOVER_FILES_COUNT \in Nat \ {0}
  /\ PreferredRates \subseteq Nat
  /\ Requests \subseteq [known: BOOLEAN, write: BOOLEAN, offset: Nat, length: Nat,
                         ack_rate: Nat, checksum: BOOLEAN, timeout: BOOLEAN]
  /\ Packets \subseteq [number: Nat, from: Nat, size: 1 .. REACH_BYTES_IN_A_FILE_PACKET,
                        intact: BOOLEAN]

VARIABLES
  xfer,        (* sCr_file_xfer_state                                      *)
  watchdog,    (* sTimeoutWatchdog_is_active                               *)
  file,        (* the application's file: where each byte came from        *)
  past         (* history of the transfer begun last                       *)

fileVars == <<xfer, watchdog, file, past>>
vars == <<coreVars, fileVars>>

Old == -1      (* a byte no client has written                             *)

ZeroTransfer ==
  [state |-> "FILE_TRANSFER_INVALID", read_write |-> FALSE, request_offset |-> 0,
   transfer_length |-> 0, message_number |-> 0, messages_per_ack |-> 0,
   messages_until_ack |-> 0, bytes_transfered |-> 0, use_checksum |-> FALSE]

(* start: the offset the transfer was asked for; window: data messages sent *)
(* since the client's last notification; unanswered: packets taken since   *)
(* the last reply; completed: crcb_file_transfer_complete was called;       *)
(* erred: a packet has failed; current: the link has stayed up.             *)
NoPast == [start |-> 0, window |-> 0, unanswered |-> 0, completed |-> FALSE,
           erred |-> FALSE, current |-> FALSE]

FilePrompts ==
  CorePrompts
    \cup Wire({"DISCOVER_FILES", "ERASE_FILE"}, NoArgs)
    \cup Wire({"TRANSFER_INIT"}, Requests)
    \cup Wire({"TRANSFER_DATA"}, Packets)
    \cup Wire({"TRANSFER_DATA_NOTIFICATION"}, [is_complete: BOOLEAN])

Moving == xfer.state \in {"INIT", "DATA"}

Smaller(a, b) == IF a < b THEN a ELSE b

-----------------------------------------------------------------------------
(* TRANSFER_INIT.                                                          *)

(* The rate answered to a client that asked for requested (0: none).        *)
AckRate(requested, preferred) ==
  LET rate == IF preferred = requested \/ (preferred # 0 /\ requested # 0)
                THEN preferred
              ELSE IF preferred = 0 THEN requested ELSE 0
  IN  IF rate = 0 THEN 10 ELSE rate

(* Variant: the countdown starts at the rate asked for.                     *)
StartedAsAsked(req, rate) ==
  [ZeroTransfer EXCEPT !.state = "INIT", !.read_write = req.write,
     !.request_offset = req.offset, !.transfer_length = req.length,
     !.messages_per_ack = rate, !.messages_until_ack = req.ack_rate,
     !.use_checksum = req.checksum]

Started(req, rate) ==
  [ZeroTransfer EXCEPT !.state = "INIT", !.read_write = req.write,
     !.request_offset = req.offset, !.transfer_length = req.length,
     !.messages_per_ack = rate, !.messages_until_ack = rate,
     !.use_checksum = req.checksum]

crcb_access_granted == key_valid

(* Access is not granted: no reply, and the watchdog runs on.               *)
transfer_init_denied ==
  /\ Dispatch("TRANSFER_INIT")
  /\ ~crcb_access_granted
  /\ xfer' = [xfer EXCEPT !.state = "IDLE"]
  /\ num_remaining_objects' = 0
  /\ EndContinued
  /\ Silent
  /\ UNCHANGED <<link, watchdog, file, past>>

(* The file is unknown, or its description does not allow the request.      *)
transfer_init_refused ==
  /\ Dispatch("TRANSFER_INIT")
  /\ crcb_access_granted
  /\ xfer' = [ZeroTransfer EXCEPT !.state = "IDLE"]
  /\ num_remaining_objects' = 0
  /\ \/ /\ ~prompt.arg.known
        /\ Fail(<<"BAD_FILE">>, "INVALID_ID")
     \/ /\ prompt.arg.known
        /\ FileAccess = "NO_ACCESS" \/ (FileAccess = "READ" /\ prompt.arg.write)
        /\ Respond("TRANSFER_INIT", 0, [result |-> "PERMISSION_DENIED", ack_rate |-> 0],
                   <<"PERMISSION_DENIED">>)
  /\ past' = NoPast
  /\ KeepContinued
  /\ UNCHANGED <<link, watchdog, file>>

(* The transfer starts.  A read of a file that is WRITE only is reported as *)
(* denied and starts all the same; so does a write that the application     *)
(* fails to prepare for.                                                   *)
transfer_init_started ==
  LET req    == prompt.arg
      denied == IF FileAccess = "WRITE" /\ ~req.write THEN <<"PERMISSION_DENIED">> ELSE <<>>
  IN  /\ Dispatch("TRANSFER_INIT")
      /\ crcb_access_granted
      /\ req.known
      /\ FileAccess = "READ" => ~req.write
      /\ FileAccess # "NO_ACCESS"
      /\ \E preferred \in PreferredRates, failed \in {<<>>, <<"WRITE_FAILED">>} :
           LET rate == AckRate(req.ack_rate, preferred)
           IN  /\ failed # <<>> => req.write
               /\ Respond("TRANSFER_INIT", 0, [result |-> "NO_ERROR", ack_rate |-> rate],
                          denied \o failed)
               /\ xfer' = Started(req, rate)
      /\ watchdog' = req.timeout
      /\ past' = [NoPast EXCEPT !.start = req.offset, !.current = TRUE]
      /\ KeepContinued
      /\ UNCHANGED <<link, file>>

-----------------------------------------------------------------------------
(* TRANSFER_DATA: the client writes.                                       *)

Notification(result, complete, retry) ==
  [result |-> result, is_complete |-> complete, retry_offset |-> retry]

(* Variant: the packet does not count down to the acknowledgement.          *)
CountedWithoutAck(packet) ==
  [xfer EXCEPT !.bytes_transfered = @ + packet.size,
               !.message_number = @ + 1,
               !.request_offset = @ + packet.size]

(* Variant: the offset moves on by a whole packet, however short it was.    *)
CountedWhole(packet) ==
  [xfer EXCEPT !.bytes_transfered = @ + packet.size,
               !.messages_until_ack = IF @ = 0 THEN 0 ELSE @ - 1,
               !.message_number = @ + 1,
               !.request_offset = @ + REACH_BYTES_IN_A_FILE_PACKET]

(* The transfer state once the packet is written and counted.               *)
Counted(packet) ==
  [xfer EXCEPT !.bytes_transfered = @ + packet.size,
               !.messages_until_ack = IF @ = 0 THEN 0 ELSE @ - 1,
               !.message_number = @ + 1,
               !.request_offset = @ + packet.size]

(* Every branch that gets past the state check; crcb_write_file has stored  *)
(* the packet at request_offset.                                           *)
TakePacket(packet) ==
  /\ Dispatch("TRANSFER_DATA")
  /\ Moving
  /\ prompt.arg = packet
  /\ xfer.request_offset + packet.size <= FileSize
  /\ num_remaining_objects' = 0
  /\ file' = [b \in DOMAIN file |->
                IF b >= xfer.request_offset /\ b < xfer.request_offset + packet.size
                  THEN packet.from + b - xfer.request_offset ELSE file[b]]
  /\ KeepContinued
  /\ UNCHANGED link

InSequence(packet) == packet.number = xfer.message_number + 1
Broken(packet) == xfer.use_checksum /\ ~packet.intact

Filled(x) == x.bytes_transfered >= x.transfer_length

Answer(result, complete, retry) ==
  Respond("TRANSFER_DATA_NOTIFICATION", 0, Notification(result, complete, retry), <<>>)

(* Variant: the offset steps back twice.                                    *)
RetryTooFar(packet, result, number) ==
  /\ xfer' = [Counted(packet) EXCEPT !.request_offset = xfer.request_offset - packet.size,
                                     !.message_number = number]
  /\ Answer(result, FALSE, xfer.request_offset + Counted(packet).bytes_transfered)
  /\ past' = [past EXCEPT !.erred = TRUE, !.unanswered = 0]
  /\ UNCHANGED watchdog

(* The offset steps back; the byte count and the ack countdown do not.      *)
RetryFrom(packet, result, number) ==
  /\ xfer' = [Counted(packet) EXCEPT !.request_offset = xfer.request_offset,
                                     !.message_number = number]
  /\ Answer(result, FALSE, xfer.request_offset + Counted(packet).bytes_transfered)
  /\ past' = [past EXCEPT !.erred = TRUE, !.unanswered = 0]
  /\ UNCHANGED watchdog

transfer_data_out_of_sequence ==
  \E packet \in Packets :
    /\ TakePacket(packet)
    /\ ~InSequence(packet)
    /\ RetryFrom(packet, "PACKET_COUNT_ERR", packet.number)

transfer_data_bad_checksum ==
  \E packet \in Packets :
    /\ TakePacket(packet)
    /\ InSequence(packet)
    /\ Broken(packet)
    /\ RetryFrom(packet, "CHECKSUM_MISMATCH", packet.number)

(* The last bytes have come; the state stays INIT.                          *)
transfer_data_complete ==
  \E packet \in Packets :
    /\ TakePacket(packet)
    /\ InSequence(packet)
    /\ ~Broken(packet)
    /\ Filled(Counted(packet))
    /\ xfer' = Counted(packet)
    /\ Answer("NO_ERROR", TRUE, 0)
    /\ watchdog' = FALSE
    /\ past' = [past EXCEPT !.completed = TRUE, !.unanswered = 0]

(* NO_RESPONSE until the countdown reaches the acknowledgement.             *)
transfer_data_unanswered ==
  \E packet \in Packets :
    /\ TakePacket(packet)
    /\ InSequence(packet)
    /\ ~Broken(packet)
    /\ ~Filled(Counted(packet))
    /\ Counted(packet).messages_until_ack # 0
    /\ xfer' = Counted(packet)
    /\ Silent
    /\ past' = [past EXCEPT !.unanswered = @ + 1]
    /\ UNCHANGED watchdog

transfer_data_acknowledged ==
  \E packet \in Packets :
    /\ TakePacket(packet)
    /\ InSequence(packet)
    /\ ~Broken(packet)
    /\ ~Filled(Counted(packet))
    /\ Counted(packet).messages_until_ack = 0
    /\ xfer' = [Counted(packet) EXCEPT !.messages_until_ack = xfer.messages_per_ack,
                                       !.message_number = 0]
    /\ Answer("NO_ERROR", FALSE, 0)
    /\ past' = [past EXCEPT !.unanswered = 0]
    /\ UNCHANGED watchdog

(* crcb_write_file fails, as it must past the end of the file: the bytes    *)
(* have been counted, and the state stays as it was.                       *)
transfer_data_write_failed ==
  /\ Dispatch("TRANSFER_DATA")
  /\ Moving
  /\ xfer' = [xfer EXCEPT !.bytes_transfered = @ + prompt.arg.size]
  /\ num_remaining_objects' = 0
  /\ Fail(<<"WRITE_FAILED">>, "WRITE_FAILED")
  /\ watchdog' = FALSE
  /\ past' = [past EXCEPT !.erred = TRUE]
  /\ KeepContinued
  /\ UNCHANGED <<link, file>>

transfer_data_invalid_state ==
  /\ Dispatch("TRANSFER_DATA")
  /\ ~Moving
  /\ num_remaining_objects' = 0
  /\ Fail(<<"INVALID_STATE">>, "INVALID_STATE")
  /\ watchdog' = FALSE
  /\ KeepContinued
  /\ UNCHANGED <<link, xfer, file, past>>

-----------------------------------------------------------------------------
(* TRANSFER_DATA_NOTIFICATION: the client reads.                           *)

(* size_t arithmetic: a transfer that has counted more than its length      *)
(* wraps, and asks for whole packets.                                      *)
BytesRequested ==
  IF xfer.bytes_transfered <= xfer.transfer_length
    THEN Smaller(xfer.transfer_length - xfer.bytes_transfered, REACH_BYTES_IN_A_FILE_PACKET)
    ELSE REACH_BYTES_IN_A_FILE_PACKET

(* What crcb_read_file may return: what is there, of what was asked for.    *)
Readable ==
  LET there == IF xfer.request_offset < FileSize THEN FileSize - xfer.request_offset ELSE 0
  IN  Smaller(BytesRequested, there)

(* Variant: the offset moves on by what was asked of the application.       *)
AfterWholeRead(x, n) ==
  LET bytes == x.bytes_transfered + n
      left  == IF x.messages_until_ack = 0 THEN 0 ELSE x.messages_until_ack - 1
  IN  [x EXCEPT !.bytes_transfered = bytes,
                !.request_offset = @ + REACH_BYTES_IN_A_FILE_PACKET,
                !.messages_until_ack = left,
                !.message_number = @ + 1,
                !.state = IF bytes = x.transfer_length THEN "COMPLETE" ELSE "DATA"]

(* Variant: the message does not count down to the acknowledgement.         *)
AfterUncountedRead(x, n) ==
  LET bytes == x.bytes_transfered + n
  IN  [x EXCEPT !.bytes_transfered = bytes,
                !.request_offset = @ + n,
                !.message_number = @ + 1,
                !.state = IF bytes = x.transfer_length THEN "COMPLETE" ELSE "DATA"]

(* One data message of n bytes, from transfer state x.                     *)
AfterRead(x, n) ==
  LET bytes == x.bytes_transfered + n
      left  == IF x.messages_until_ack = 0 THEN 0 ELSE x.messages_until_ack - 1
  IN  [x EXCEPT !.bytes_transfered = bytes,
                !.request_offset = @ + n,
                !.messages_until_ack = left,
                !.message_number = @ + 1,
                !.state = IF bytes = x.transfer_length THEN "COMPLETE" ELSE "DATA"]

Announced(x) == IF x.state = "COMPLETE" THEN 0 ELSE x.messages_until_ack

FileData(x, n) == [number |-> x.message_number, at |-> x.request_offset - n, size |-> n]

(* The window that the client's notification opens.                        *)
Reopened == [xfer EXCEPT !.messages_until_ack = xfer.messages_per_ack, !.message_number = 0]

CanRead ==
  /\ Dispatch("TRANSFER_DATA_NOTIFICATION")
  /\ Moving
  /\ ~xfer.read_write
  /\ UNCHANGED <<link, file>>

(* Variant: the transaction stays continued when the window is one message. *)
read_first_continued ==
  LET x == AfterRead(Reopened, Readable)
  IN  /\ CanRead
      /\ ~prompt.arg.is_complete
      /\ xfer' = x
      /\ Respond("TRANSFER_DATA", Announced(x), FileData(x, Readable), <<>>)
      /\ BeginContinued("TRANSFER_DATA")
      /\ watchdog' = (watchdog /\ x.state # "COMPLETE")
      /\ past' = [past EXCEPT !.window = 1]

read_first ==
  LET x == AfterRead(Reopened, Readable)
  IN  /\ CanRead
      /\ ~prompt.arg.is_complete
      /\ xfer' = x
      /\ Respond("TRANSFER_DATA", Announced(x), FileData(x, Readable), <<>>)
      /\ IF Announced(x) > 0 THEN BeginContinued("TRANSFER_DATA") ELSE EndContinued
      /\ watchdog' = (watchdog /\ x.state # "COMPLETE")
      /\ past' = [past EXCEPT !.window = 1]

read_first_failed ==
  /\ CanRead
  /\ ~prompt.arg.is_complete
  /\ xfer' = Reopened
  /\ num_remaining_objects' = 0
  /\ Fail(<<"READ_FAILED">>, "READ_FAILED")
  /\ EndContinued
  /\ watchdog' = FALSE
  /\ past' = [past EXCEPT !.window = 0]

read_next ==
  LET x == AfterRead(xfer, Readable)
  IN  /\ AtContinued("TRANSFER_DATA")
      /\ xfer' = x
      /\ Continue("TRANSFER_DATA", Announced(x), FileData(x, Readable))
      /\ watchdog' = (watchdog /\ x.state # "COMPLETE")
      /\ past' = [past EXCEPT !.window = @ + 1]
      /\ UNCHANGED file

read_next_failed ==
  /\ AtContinued("TRANSFER_DATA")
  /\ FailContinued(<<"READ_FAILED">>)
  /\ num_remaining_objects' = 0
  /\ EndContinued
  /\ watchdog' = FALSE
  /\ UNCHANGED <<xfer, file, past>>

(* The client declares the read complete before the stack does.            *)
read_stopped_by_client ==
  /\ CanRead
  /\ prompt.arg.is_complete
  /\ xfer' = [xfer EXCEPT !.state = "COMPLETE"]
  /\ Respond("TRANSFER_DATA_NOTIFICATION", 0, Notification("NO_ERROR", FALSE, 0), <<>>)
  /\ EndContinued
  /\ watchdog' = FALSE
  /\ UNCHANGED past

(* The client confirms that it has everything: the notification is echoed.  *)
read_confirmed ==
  /\ Dispatch("TRANSFER_DATA_NOTIFICATION")
  /\ xfer.state = "COMPLETE"
  /\ prompt.arg.is_complete
  /\ xfer' = [xfer EXCEPT !.state = "IDLE"]
  /\ Respond("TRANSFER_DATA_NOTIFICATION", 0, Notification("NO_ERROR", TRUE, 0), <<>>)
  /\ EndContinued
  /\ watchdog' = FALSE
  /\ UNCHANGED <<link, file, past>>

notification_invalid_state ==
  /\ Dispatch("TRANSFER_DATA_NOTIFICATION")
  /\ num_remaining_objects' = 0
  /\ \/ /\ xfer.state \in {"FILE_TRANSFER_INVALID", "IDLE"}
        /\ Fail(<<"INVALID_STATE">>, "INVALID_STATE")
     \/ /\ xfer.state = "COMPLETE"
        /\ ~prompt.arg.is_complete
        /\ Fail(<<"INVALID_STATE">>, "INVALID_STATE")
     \/ /\ Moving
        /\ xfer.read_write
        /\ Fail(<<"INVALID_STATE">>, "WRITE_FAILED")
  /\ watchdog' = FALSE
  /\ KeepContinued
  /\ UNCHANGED <<link, xfer, file, past>>

-----------------------------------------------------------------------------
(* ERASE_FILE and DISCOVER_FILES.                                          *)

erase_file ==
  /\ Dispatch("ERASE_FILE")
  /\ num_remaining_objects' = 0
  /\ \/ /\ Respond("ERASE_FILE", 0, "NO_ERROR", <<>>)
        /\ file' = [b \in DOMAIN file |-> Old]
     \/ /\ Respond("ERASE_FILE", 0, "FAILED", <<>>)
        /\ UNCHANGED file
     \/ /\ Fail(<<>>, "INCOMPLETE")
        /\ UNCHANGED file
  /\ KeepContinued
  /\ UNCHANGED <<link, xfer, watchdog, past>>

(* The remaining count is cleared only where the iteration runs out.        *)
discover_files ==
  LET listed    == Smaller(NumFiles, REACH_DISCOVER_FILES_COUNT)
      remaining == IF listed < REACH_DISCOVER_FILES_COUNT THEN 0 ELSE NumFiles
  IN  /\ Dispatch("DISCOVER_FILES")
      /\ IF listed = 0
           THEN num_remaining_objects' = 0 /\ Silent
           ELSE Respond("DISCOVER_FILES", remaining, listed, <<>>)
      /\ IF NumFiles > REACH_DISCOVER_FILES_COUNT
           THEN BeginContinued("DISCOVER_FILES") ELSE KeepContinued
      /\ UNCHANGED <<link, fileVars>>

(* handle_continued_transactions has no case for DISCOVER_FILES.            *)
continue_discover_files ==
  /\ AtContinued("DISCOVER_FILES")
  /\ EndContinued
  /\ NoMoreData
  /\ UNCHANGED <<num_remaining_objects, fileVars>>

(* cr_process finds the watchdog expired: it is logged and switched off.    *)
watchdog_expires ==
  /\ connected
  /\ Idle
  /\ watchdog
  /\ watchdog' = FALSE
  /\ Silent
  /\ UNCHANGED <<link, prompt, classic, hdr, continued, phase, xfer, file, past>>

-----------------------------------------------------------------------------

transfer_init ==
  transfer_init_denied \/ transfer_init_refused \/ transfer_init_started

transfer_data ==
  \/ transfer_data_out_of_sequence
  \/ transfer_data_bad_checksum
  \/ transfer_data_complete
  \/ transfer_data_unanswered
  \/ transfer_data_acknowledged
  \/ transfer_data_write_failed
  \/ transfer_data_invalid_state

transfer_data_notification ==
  \/ read_first
  \/ read_first_failed
  \/ read_next
  \/ read_next_failed
  \/ read_stopped_by_client
  \/ read_confirmed
  \/ notification_invalid_state

cr_process ==
  \/ CoreProcess /\ UNCHANGED fileVars
  \/ transfer_init
  \/ transfer_data
  \/ transfer_data_notification
  \/ erase_file
  \/ discover_files
  \/ continue_discover_files

(* Prompts of any client, within the bound on packets.                     *)
AnyPrompt ==
  { p \in FilePrompts :
      p.type = "TRANSFER_DATA" => xfer.bytes_transfered < MaxBytes }

(* Prompts of a client that sends data in a write and notifications in a    *)
(* read.                                                                   *)
OrderlyPrompt ==
  { p \in AnyPrompt :
      /\ p.type = "TRANSFER_DATA" /\ Moving => xfer.read_write
      /\ p.type = "TRANSFER_DATA_NOTIFICATION" /\ Moving => ~xfer.read_write }

Init ==
  /\ CoreInit
  /\ xfer = ZeroTransfer
  /\ watchdog = FALSE
  /\ file = [b \in 0 .. FileSize - 1 |-> Old]
  /\ past = NoPast

Application(prompts) ==
  /\ CoreApplication(prompts)
  /\ past' = [past EXCEPT !.current = @ /\ connected']
  /\ UNCHANGED <<xfer, watchdog, file>>

AnyNext == cr_process \/ watchdog_expires \/ Application(AnyPrompt)
OrderlyNext == cr_process \/ watchdog_expires \/ Application(OrderlyPrompt)

AnySpec == Init /\ [][AnyNext]_vars
Spec == Init /\ [][OrderlyNext]_vars

(* The application must call cr_process() regularly.                       *)
FairSpec == Spec /\ WF_vars(cr_process)

-----------------------------------------------------------------------------
(* Properties.                                                             *)

(* The variables keep their types.                                          *)
TypeOK ==
  /\ connected \in BOOLEAN
  /\ key_valid \in BOOLEAN
  /\ prompt \in FilePrompts \cup {NoPrompt}
  /\ classic \in BOOLEAN
  /\ hdr \in Tid \cup {0}
  /\ continued_message_type \in {INVALID, "TRANSFER_DATA", "DISCOVER_FILES"}
  /\ num_remaining_objects \in Nat
  /\ phase \in {"idle", "prompt"}
  /\ Len(sent) <= 3
  /\ xfer.state \in {"FILE_TRANSFER_INVALID", "IDLE", "INIT", "DATA", "COMPLETE"}
  /\ xfer.messages_until_ack \in 0 .. xfer.messages_per_ack
  /\ xfer.request_offset \in Nat
  /\ watchdog \in BOOLEAN
  /\ DOMAIN file = 0 .. FileSize - 1
  /\ past.completed \in BOOLEAN

Reading == xfer.state \in {"INIT", "DATA", "COMPLETE"} /\ ~xfer.read_write
Writing == Moving /\ xfer.read_write

(* A read is contiguous: the next byte to read is the requested offset plus *)
(* what has been sent, whatever windows, lost acknowledgements, failures    *)
(* and reconnections lie between; and no more is sent than was asked for.   *)
ReadIsContiguous ==
  Reading =>
    /\ xfer.request_offset = past.start + xfer.bytes_transfered
    /\ xfer.bytes_transfered <= xfer.transfer_length

(* The continued transaction of a file is a read in progress with data left *)
(* to send, announced as the countdown to the acknowledgement: no request,  *)
(* failure or end of a transfer leaves it dangling.                        *)
ContinuedReadIsLive ==
  continued_message_type = "TRANSFER_DATA" =>
    /\ xfer.state = "DATA" /\ ~xfer.read_write
    /\ num_remaining_objects = xfer.messages_until_ack
    /\ xfer.bytes_transfered < xfer.transfer_length

(* "device sends N messages before waiting for an ACK": the window that a   *)
(* notification opens is never exceeded, and while it is open it belongs to *)
(* a live read, whose messages sent and announced make it up.              *)
ReadWindowKept ==
  /\ Reading => past.window <= xfer.messages_per_ack
  /\ continued_message_type = "TRANSFER_DATA" =>
       past.window + num_remaining_objects = xfer.messages_per_ack
  /\ ContinuedReadIsLive

(* The message that the client is told is the last of its window leaves     *)
(* nothing continued, and one that announces more is followed by it.        *)
AnnouncedReadContinues ==
  [][ /\ sent' # <<>>
      /\ sent'[Len(sent')].type = "TRANSFER_DATA"
      /\ \A i \in DOMAIN sent' : ~IsErrorReport(sent'[i])
      => (sent'[Len(sent')].remaining > 0 <=> continued_message_type' = "TRANSFER_DATA")
    ]_vars

(* The client and the stack never wait for each other in a write: of the    *)
(* packets a client may send before it waits for an ACK, the last is        *)
(* answered.                                                               *)
AckIsDue ==
  Writing => /\ past.unanswered < xfer.messages_per_ack
             /\ past.unanswered + xfer.messages_until_ack <= xfer.messages_per_ack

(* A write in which no packet failed is contiguous: the next byte goes to   *)
(* the requested offset plus what has been counted; and it is reported      *)
(* complete only when the bytes requested have all been stored.            *)
WriteIsContiguous ==
  Writing /\ ~past.erred =>
    /\ xfer.request_offset = past.start + xfer.bytes_transfered
    /\ past.completed => xfer.request_offset >= past.start + xfer.transfer_length

(* The bytes below the offset of a write are settled: a packet that fails   *)
(* or comes out of sequence does not reach back over good data.            *)
GoodDataKept ==
  [][ Writing /\ xfer'.state = xfer.state /\ xfer'.bytes_transfered > xfer.bytes_transfered
      => /\ xfer'.request_offset >= xfer.request_offset
         /\ \A b \in DOMAIN file :
              past.start <= b /\ b < xfer.request_offset => file'[b] = file[b] ]_vars

(* An open window closes: by its last message, an error or with the link.   *)
ReadWindowCloses ==
  (continued_message_type = "TRANSFER_DATA")
    ~> (continued_message_type = INVALID \/ ~connected)

-----------------------------------------------------------------------------
(* What the comments and the guide say of the same code.                   *)

(* is_complete is "set to true when all data has been transferred", also    *)
(* after a packet had to be sent again.                                    *)
CompleteMeansAll ==
  Writing /\ past.completed =>
    xfer.request_offset >= past.start + xfer.transfer_length

(* "we are newly connected, so clear any stale data": a transfer in         *)
(* progress was begun on the connection that is up.                        *)
TransferIsOfThisConnection == connected /\ Moving => past.current

=============================================================================
