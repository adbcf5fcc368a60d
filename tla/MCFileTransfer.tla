---------------------------- MODULE MCFileTransfer ----------------------------
(* Small instances of the file service: a file of four bytes, packets of    *)
(* two, windows of two messages.                                           *)
EXTENDS FileTransfer

Request(write, offset, length, rate, checksum) ==
  [known |-> TRUE, write |-> write, offset |-> offset, length |-> length,
   ack_rate |-> rate, checksum |-> checksum, timeout |-> TRUE]

(* Reads that end before and beyond the end of the file, and two refused.   *)
ReadRequests ==
  { Request(FALSE, 0, 3, 2, FALSE), Request(FALSE, 1, 4, 2, FALSE) }
  \cup { [Request(FALSE, 0, 4, 2, FALSE) EXCEPT !.known = FALSE], Request(TRUE, 0, 4, 2, FALSE) }

OneRead == { Request(FALSE, 1, 3, 2, FALSE) }

OneWrite == { Request(TRUE, 0, 4, 2, TRUE) }

(* A write of three bytes from offset 1, to the end of the file of four;    *)
(* packets of two bytes overrun it.                                        *)
AnyRequests == { [Request(TRUE, 1, 3, 2, TRUE) EXCEPT !.timeout = FALSE] }

(* Packets at the two places of a window, whole or damaged, and a long one. *)
WritePackets ==
  [number: {1, 2}, from: {0}, size: {1}, intact: BOOLEAN]
    \cup [number: {2}, from: {0}, size: {2}, intact: {TRUE}]

=============================================================================
