-------------------------- MODULE MCParameterService --------------------------
(* A small instance of the parameter service.  Three parameters take two    *)
(* messages to discover or to read, and so do lists of three; 4 is the id   *)
(* of none.  A count wraps at 16, far above any that is due.                *)
EXTENDS ParameterService

MCExOwner == <<2, 2>>

MCLists == {<<>>, <<2, 4, 3>>, <<3, 2, 1>>}

Value(id, value) == [id |-> id, value |-> value]

MCWrites == {<<Value(1, 2), Value(4, 2)>>}

=============================================================================
