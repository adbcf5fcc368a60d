---------------------------- MODULE CommandService ----------------------------
(***************************************************************************)
(* The command service of cr_stack.c on top of the core: discovery of the  *)
(* command table, REACH_NUM_COMMANDS_IN_RESPONSE descriptions a message,   *)
(* and SEND_COMMAND.  A build with this service alone.                     *)
(*                                                                         *)
(* The command table is the application's.  A client whose challenge key   *)
(* was accepted sees NumCommands commands, any other the first NumOpen.    *)
(***************************************************************************)
EXTENDS ReachCore, FiniteSets

CONSTANTS
  NumCommands,                     (* commands with full access            *)
  NumOpen,                         (* commands without a challenge key     *)
  REACH_NUM_COMMANDS_IN_RESPONSE   (* descriptions in one response         *)

ASSUME CommandAssumption ==
  /\ NumCommands \in Nat
  /\ NumOpen \in 0 .. NumCommands
  /\ REACH_NUM_COMMANDS_IN_RESPONSE \in Nat \ {0}

VARIABLES
  sCr_requested_command_index,  (* next entry of the table to describe      *)
  received,                     (* history: entries in the client's hands   *)
                                (*   in the discovery made last             *)
  executed                      (* history: commands run by this step       *)

commandVars == <<sCr_requested_command_index, received, executed>>
vars == <<coreVars, commandVars>>

Blank == 0     (* a zeroed entry of the response's array                   *)

CommandPrompts ==
  CorePrompts
    \cup Wire({"DISCOVER_COMMANDS"}, NoArgs)
    \cup Wire({"SEND_COMMAND"}, [command_id: 1 .. NumCommands])

-----------------------------------------------------------------------------

(* crcb_get_command_count, and where crcb_command_discover_next ends.      *)
crcb_get_command_count == IF key_valid THEN NumCommands ELSE NumOpen

crcb_access_granted(cid) == cid <= crcb_get_command_count

(* Variant: the loop does not stop where the table ends.                    *)
FetchedWhole(index) == REACH_NUM_COMMANDS_IN_RESPONSE

(* How many descriptions the loop fetches, from entry index on.            *)
Fetched(index) ==
  LET left == crcb_get_command_count - index
  IN  IF left < REACH_NUM_COMMANDS_IN_RESPONSE
        THEN left ELSE REACH_NUM_COMMANDS_IN_RESPONSE

(* Variant: every response announces a full array.                          *)
AnnouncedFull(index, num_commands) == REACH_NUM_COMMANDS_IN_RESPONSE

(* available_commands_count with num_commands to go, from entry index on.  *)
Announced(index, num_commands) ==
  IF Fetched(index) = 0 THEN 0
  ELSE IF num_commands < REACH_NUM_COMMANDS_IN_RESPONSE
         THEN num_commands ELSE REACH_NUM_COMMANDS_IN_RESPONSE

(* Variant: the count goes down by one a message.                           *)
RemainingByOne(index, num_commands) ==
  IF Fetched(index) = 0 \/ num_commands <= REACH_NUM_COMMANDS_IN_RESPONSE
    THEN 0 ELSE num_commands - 1

RemainingAfter(index, num_commands) ==
  IF Fetched(index) = 0 \/ num_commands <= REACH_NUM_COMMANDS_IN_RESPONSE
    THEN 0 ELSE num_commands - REACH_NUM_COMMANDS_IN_RESPONSE

(* The entries described in the response.                                  *)
Described(index, num_commands) ==
  { IF i <= crcb_get_command_count THEN i ELSE Blank :
      i \in index + 1 .. index + Announced(index, num_commands) }

(* Variant: the iterator over the table is not reset.                       *)
discover_without_reset ==
  LET num_commands == crcb_get_command_count
      remaining    == RemainingAfter(0, num_commands)
      entries      == Described(0, num_commands)
  IN  /\ Dispatch("DISCOVER_COMMANDS")
      /\ Respond("DISCOVER_COMMANDS", remaining, entries, <<>>)
      /\ IF remaining > 0 THEN BeginContinued("DISCOVER_COMMANDS") ELSE KeepContinued
      /\ received' = entries
      /\ executed' = {}
      /\ UNCHANGED <<link, sCr_requested_command_index>>

(* handle_discover_commands with a request.                                *)
handle_discover_commands ==
  LET num_commands == crcb_get_command_count
      remaining    == RemainingAfter(0, num_commands)
      entries      == Described(0, num_commands)
  IN  /\ Dispatch("DISCOVER_COMMANDS")
      /\ Respond("DISCOVER_COMMANDS", remaining, entries, <<>>)
      /\ IF remaining > 0 THEN BeginContinued("DISCOVER_COMMANDS") ELSE KeepContinued
      /\ sCr_requested_command_index' = Fetched(0)
      /\ received' = entries
      /\ executed' = {}
      /\ UNCHANGED link

(* handle_discover_commands with a null request.                           *)
continue_discover_commands ==
  LET index     == sCr_requested_command_index
      remaining == RemainingAfter(index, num_remaining_objects)
      entries   == Described(index, num_remaining_objects)
  IN  /\ AtContinued("DISCOVER_COMMANDS")
      /\ Continue("DISCOVER_COMMANDS", remaining, entries)
      /\ sCr_requested_command_index' = index + Fetched(index)
      /\ received' = received \cup entries
      /\ executed' = {}

(* The result of the command is the application's.                         *)
handle_send_command ==
  /\ Dispatch("SEND_COMMAND")
  /\ IF crcb_access_granted(prompt.arg.command_id)
       THEN /\ \E result \in {"NO_ERROR", "FAILED"} :
                 Respond("SEND_COMMAND", 0, result, <<>>)
            /\ executed' = {prompt.arg.command_id}
       ELSE /\ num_remaining_objects' = 0
            /\ Silent
            /\ executed' = {}
  /\ KeepContinued
  /\ UNCHANGED <<link, sCr_requested_command_index, received>>

-----------------------------------------------------------------------------

cr_process ==
  \/ /\ CoreProcess
     /\ executed' = {}
     /\ UNCHANGED <<sCr_requested_command_index, received>>
  \/ handle_discover_commands
  \/ continue_discover_commands
  \/ handle_send_command

Application ==
  /\ CoreApplication(CommandPrompts)
  /\ executed' = {}
  /\ UNCHANGED <<sCr_requested_command_index, received>>

Init ==
  /\ CoreInit
  /\ sCr_requested_command_index = 0
  /\ received = {}
  /\ executed = {}

Next == cr_process \/ Application

(* The application must call cr_process() regularly; nothing else is owed.  *)
Fairness == WF_vars(cr_process)

Spec == Init /\ [][Next]_vars
FairSpec == Spec /\ Fairness

-----------------------------------------------------------------------------
(* Properties.                                                             *)

CommandResponses ==
  [type: {"PING", "GET_DEVICE_INFO"}, tid: Tid, classic: BOOLEAN,
   remaining: {0}, body: {0}]
  \cup [type: {"SEND_COMMAND"}, tid: Tid, classic: BOOLEAN,
        remaining: {0}, body: {"NO_ERROR", "FAILED"}]
  \cup [type: {"DISCOVER_COMMANDS"}, tid: Tid, classic: BOOLEAN,
        remaining: 0 .. NumCommands, body: SUBSET (1 .. NumCommands)]

Codes == {"DECODING_FAILED", "NOT_IMPLEMENTED"}

ErrorReports == { ErrorReport(code) : code \in Codes }

Sendable == CommandResponses \cup ErrorReports \cup {NoMessage}

(* The variables keep their types.                                          *)
TypeOK ==
  /\ connected \in BOOLEAN
  /\ key_valid \in BOOLEAN
  /\ prompt \in CommandPrompts \cup {NoPrompt}
  /\ classic \in BOOLEAN
  /\ hdr \in Tid \cup {0}
  /\ continued_message_type \in {INVALID, "DISCOVER_COMMANDS"}
  /\ num_remaining_objects \in Nat
  /\ response_buffer \in CommandResponses \cup {NoMessage}
  /\ notification_buffer \in ErrorReports \cup {NoMessage}
  /\ phase = "idle"
  /\ sent \in Seq(Sendable)
  /\ owner \in [tid: Tid \cup {0}, classic: BOOLEAN]
  /\ key_presented \in BOOLEAN
  /\ sCr_requested_command_index \in 0 .. NumCommands
  /\ received \subseteq 1 .. NumCommands
  /\ executed \subseteq 1 .. NumCommands

(* While a discovery goes on, the entries in the client's hands and those   *)
(* the last message announced as remaining are together the whole table:   *)
(* none is skipped or repeated, whatever prompts arrive meanwhile.         *)
DiscoveryConserves ==
  continued_message_type = "DISCOVER_COMMANDS" =>
    /\ received = 1 .. sCr_requested_command_index
    /\ sCr_requested_command_index + num_remaining_objects = crcb_get_command_count

(* The message of a discovery that announces nothing remaining leaves the   *)
(* client with every command its access level shows, and no blank entry.   *)
DiscoveryComplete ==
  \A i \in DOMAIN sent :
    sent[i].type = "DISCOVER_COMMANDS" /\ sent[i] = response_buffer
      /\ Len(sent) = 1 /\ sent[i].remaining = 0
    => received = 1 .. crcb_get_command_count

(* A command outside the open ones runs only for a client that presented    *)
(* its key on this connection: no access survives from an earlier one, not  *)
(* even for a prompt that an earlier one left behind.                      *)
RestrictedNeedsKey ==
  [][ executed' \subseteq 1 .. NumOpen \/ (key_valid /\ key_presented) ]_vars

-----------------------------------------------------------------------------
(* The discovery of commands is a chunked discovery.                       *)

EntriesLeft == IF continued_message_type = INVALID THEN 0 ELSE num_remaining_objects

Discovery ==
  INSTANCE ChunkedDiscovery WITH
    Size      <- NumCommands,
    Chunk     <- REACH_NUM_COMMANDS_IN_RESPONSE,
    delivered <- received,
    left      <- EntriesLeft

(* Every step of the service is a step of the abstract discovery or leaves  *)
(* it alone: no entry is lost, repeated or sent out of order between        *)
(* prompts, failures and reconnections.                                    *)
ImplementsDiscovery == Discovery!DiscoverySpec

=============================================================================
