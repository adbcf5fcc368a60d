--------------------------- MODULE MCCommandService ---------------------------
(* Small instances of the command service.  Five commands take three        *)
(* messages to discover; a client without a key sees one, in one message.  *)
EXTENDS CommandService, TLC

(* Transaction ids are only compared.                                      *)
TidSymmetry == Permutations(Tid)

=============================================================================
