------------------------------ MODULE MCRemoteLog ------------------------------
(* A small instance of the log.  The masks are those of a plain line, of a  *)
(* line for the client, of one that is for the client only, and of a trace. *)
EXTENDS RemoteLog

MCLineMasks == {{"ALWAYS"}, {"REMOTE"}, {"WIRE", "REMOTE"}, {"AHSOKA"}}

MCLogMasks == {{}, {"WIRE"}, {"AHSOKA"}, Masks}

MCBuilds == [cli: BOOLEAN, full_report: BOOLEAN]

(* A classic client has no access to the command line.                      *)
MCClients ==
  { [classic |-> FALSE, access |-> TRUE], [classic |-> FALSE, access |-> FALSE],
    [classic |-> TRUE, access |-> FALSE] }

AnyClients == [classic: BOOLEAN, access: BOOLEAN]

=============================================================================
