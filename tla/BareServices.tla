----------------------------- MODULE BareServices -----------------------------
(***************************************************************************)
(* The parameter, file, command and command line services of a device whose *)
(* application overrides none of their callbacks, as when a port is brought *)
(* up: what the handlers come to with the weak callbacks of                 *)
(* src/src/crcb_weak.c.  Every table is empty, every other callback says    *)
(* that it is not implemented, and access is granted to all.  These         *)
(* services with an application are in the modules of their own.           *)
(*                                                                         *)
(* A list in a prompt has one entry at most, fewer than a message takes.    *)
(* No transfer is ever begun, so the state of the file service stays IDLE.  *)
(***************************************************************************)
EXTENDS ReachCore, MessageTypes

(* What the weak callbacks say.                                             *)
WeakParameters == [entries |-> 0, read |-> "NOT_IMPLEMENTED", write |-> "NOT_IMPLEMENTED"]

WeakExtensions == [entries |-> 0]

WeakPreset == <<>>

WeakCommands == [entries |-> 0, execute |-> "NOT_IMPLEMENTED"]

WeakFiles ==
  [entries |-> 0, description |-> "NOT_IMPLEMENTED", erase |-> "NOT_IMPLEMENTED"]

(* Prompts of these services; arg is the length of the list in them.        *)
BareParameters ==
  Wire({"DISCOVER_PARAMETERS", "DISCOVER_PARAM_EX", "READ_PARAMETERS", "WRITE_PARAMETERS",
        "PARAM_ENABLE_NOTIFY"}, 0 .. 1)
    \cup Wire({"PARAM_DISABLE_NOTIFY", "DISCOVER_NOTIFICATIONS"}, {0})

BareFiles ==
  Wire({"DISCOVER_FILES", "TRANSFER_INIT", "TRANSFER_DATA", "TRANSFER_DATA_NOTIFICATION",
        "ERASE_FILE"}, {0})

BareCommands == Wire({"DISCOVER_COMMANDS", "SEND_COMMAND"}, {0})

BareCli == Wire({"CLI_NOTIFICATION"}, {0})

BarePrompts == BareParameters \cup BareFiles \cup BareCommands \cup BareCli

-----------------------------------------------------------------------------

Decided(type) == Dispatch(type) /\ UNCHANGED link

(* The discovery is set up as continued, and the first entry ends it; the   *)
(* count of a list stays.                                                  *)
weak_discover_parameters ==
  /\ Decided("DISCOVER_PARAMETERS")
  /\ num_remaining_objects' = IF prompt.arg = 0 THEN WeakParameters.entries ELSE prompt.arg
  /\ EndContinued
  /\ Silent

(* There are no extensions: that is an answer, with or without a list.      *)
weak_discover_parameters_ex ==
  /\ Decided("DISCOVER_PARAM_EX")
  /\ Respond("DISCOVER_PARAM_EX", WeakExtensions.entries, WeakExtensions.entries, <<>>)
  /\ IF prompt.arg = 0 THEN EndContinued ELSE KeepContinued

(* A parameter of a list is reported, and answered without a value.         *)
weak_read_param ==
  /\ Decided("READ_PARAMETERS")
  /\ IF prompt.arg = 0
       THEN num_remaining_objects' = WeakParameters.entries /\ Silent
       ELSE Respond("READ_PARAMETERS", 0, prompt.arg, <<WeakParameters.read>>)
  /\ EndContinued

weak_write_param ==
  /\ Decided("WRITE_PARAMETERS")
  /\ LET code == IF prompt.arg = 0 THEN "INVALID_PARAMETER" ELSE "WRITE_FAILED"
     IN  Fail(<<code>>, code)
  /\ num_remaining_objects' = 0
  /\ KeepContinued

(* The parameter of each configuration is looked for and reported; the      *)
(* answer's result is of a variable that its finding does not reach.        *)
weak_enable_notify ==
  /\ Decided("PARAM_ENABLE_NOTIFY")
  /\ Respond("PARAM_ENABLE_NOTIFY", 0, "NO_ERROR",
             [i \in 1 .. prompt.arg |-> "INVALID_PARAMETER"])
  /\ KeepContinued

weak_disable_notify ==
  /\ Decided("PARAM_DISABLE_NOTIFY")
  /\ Respond("PARAM_DISABLE_NOTIFY", 0, "NO_ERROR", <<>>)
  /\ KeepContinued

weak_discover_notifications ==
  /\ Decided("DISCOVER_NOTIFICATIONS")
  /\ Respond("DISCOVER_NOTIFICATIONS", 0, Len(WeakPreset), <<>>)
  /\ EndContinued

weak_discover_files ==
  /\ Decided("DISCOVER_FILES")
  /\ num_remaining_objects' = WeakFiles.entries
  /\ Silent
  /\ KeepContinued

(* The file has no description.                                            *)
weak_transfer_init ==
  /\ Decided("TRANSFER_INIT")
  /\ Fail(<<"BAD_FILE">>, WeakFiles.description)
  /\ num_remaining_objects' = 0
  /\ KeepContinued

(* Data and notifications find no transfer.                                *)
weak_transfer_data ==
  /\ \E type \in {"TRANSFER_DATA", "TRANSFER_DATA_NOTIFICATION"} : Decided(type)
  /\ Fail(<<"INVALID_STATE">>, "INVALID_STATE")
  /\ num_remaining_objects' = 0
  /\ KeepContinued

weak_erase_file ==
  /\ Decided("ERASE_FILE")
  /\ Respond("ERASE_FILE", 0, WeakFiles.erase, <<>>)
  /\ KeepContinued

(* Nothing is found, and that is answered.                                 *)
weak_discover_commands ==
  /\ Decided("DISCOVER_COMMANDS")
  /\ Respond("DISCOVER_COMMANDS", 0, WeakCommands.entries, <<>>)
  /\ KeepContinued

weak_send_command ==
  /\ Decided("SEND_COMMAND")
  /\ Respond("SEND_COMMAND", 0, WeakCommands.execute, <<>>)
  /\ KeepContinued

(* The command line is handed on, and there is no answer.                   *)
weak_cli_enter ==
  /\ Decided("CLI_NOTIFICATION")
  /\ num_remaining_objects' = 0
  /\ Silent
  /\ KeepContinued

BareHandlers ==
  \/ weak_discover_parameters
  \/ weak_discover_parameters_ex
  \/ weak_read_param
  \/ weak_write_param
  \/ weak_enable_notify
  \/ weak_disable_notify
  \/ weak_discover_notifications
  \/ weak_discover_files
  \/ weak_transfer_init
  \/ weak_transfer_data
  \/ weak_erase_file
  \/ weak_discover_commands
  \/ weak_send_command
  \/ weak_cli_enter

(* What these services answer and report.                                  *)
BareAnswer(m) ==
  \/ m.type \in {"DISCOVER_PARAM_EX", "READ_PARAMETERS", "DISCOVER_NOTIFICATIONS",
                 "DISCOVER_COMMANDS"} /\ m.body \in 0 .. 1
  \/ m.type \in {"PARAM_ENABLE_NOTIFY", "PARAM_DISABLE_NOTIFY", "ERASE_FILE", "SEND_COMMAND"}
       /\ m.body \in {"NO_ERROR", "NOT_IMPLEMENTED"}

=============================================================================
