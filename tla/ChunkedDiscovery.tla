--------------------------- MODULE ChunkedDiscovery ---------------------------
(***************************************************************************)
(* What a discovery promises its client, whatever the service: the entries *)
(* 1 .. n of a table, Chunk at a time, in order, each once, every message   *)
(* telling how many are left; it runs to the end unless the link is lost.  *)
(***************************************************************************)
EXTENDS Integers

CONSTANTS
  Size,    (* the largest table                                            *)
  Chunk    (* entries in one message                                       *)

VARIABLES
  delivered,   (* entries delivered in the discovery made last             *)
  left         (* entries still to deliver; 0 when no discovery goes on    *)

discoveryVars == <<delivered, left>>

InChunk(n) == IF n < Chunk THEN n ELSE Chunk

(* One message: the next k entries.                                        *)
Deliver(before, n) ==
  LET done == before + InChunk(n)
  IN  /\ delivered' = 1 .. done
      /\ left' = n - InChunk(n)

DiscoveryInit == delivered = {} /\ left = 0

Begin == left = 0 /\ \E n \in 0 .. Size : Deliver(0, n)

Proceed ==
  /\ left > 0
  /\ \E done \in 0 .. Size : delivered = 1 .. done /\ Deliver(done, left)

Abandon == left > 0 /\ left' = 0 /\ UNCHANGED delivered

DiscoveryNext == Begin \/ Proceed \/ Abandon

DiscoverySpec == DiscoveryInit /\ [][DiscoveryNext]_discoveryVars

=============================================================================
