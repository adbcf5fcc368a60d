# Verification of the Reach stack

TLA+ models of the Cygnus Reach C stack (`src/src`), checked with TLC and proved
about with TLAPS. Paths below are relative to the repository (`src/` in front of them
in `PROJECT.json`).

The Reach stack is the server side of a request/response protocol for small devices.
A client (a phone) sends a *prompt*; the stack decodes it, calls a service, and sends
one *response*, or a series of them when one message cannot hold the answer. It is
single threaded: the application stores prompts, tells the stack whether the link is
up, and calls `cr_process(ticks)` regularly; everything the stack does happens in there.

## Inventory

| Part | State | Operations | What makes it correct |
|---|---|---|---|
| Core (`cr_stack.c` 85-742, 880-1079, 1778-2014) | link flag, one prompt buffer, header format, transaction/endpoint/client id, continued message type and remaining count, response and notification buffers | `cr_process`, `cr_store_coded_prompt`, `cr_get_coded_response_buffer`, `cr_set_comm_link_connected`, `handle_ping`, `handle_get_device_info`, `cr_report_error` | a continued transaction keeps the header it began with, has something left, ends, and is not carried over a reconnection; prompts are consumed; errors are reported once and instead of a response |
| Command service (`cr_stack.c` 1256-1323) | index of the next command | discover (first and continued), send command | discovery is complete, in order, without repetition; restricted commands need the key of this connection |
| File service (`cr_files.c` 112-711) | transfer state machine | discover, transfer init, data (write), data notification (read), erase | reads contiguous and within their window; writes acknowledged when due, contiguous, complete when reported complete; denials and failures stop the transfer |
| Watchdog (`cr_files.c` 713-768) | active flag, period, target | start, stroke, end, check | neither early nor late |
| Parameter service (`cr_params.c` 80-577) | requested ids and an index into them, the application's iterators, the values | discover, discover ex, read, write | an answer follows the request, also where ids are unknown or reads fail; what is announced is sent; a read is a snapshot; transactions end |
| Parameter notifications (`cr_params.c` 580-1092) | table of enabled notifications, last values, last times | enable, disable, discover, preset, clear, periodic check | one slot for each parameter, prompts change what they name, what was not enabled is remarked, a discovery is complete; at most one notification a minimum period, and none overdue after a check |
| WiFi (`cr_stack.c` 1386-1472) | index of the next access point | discover (first and continued), connect | the list is given out in order, under access that is still granted, however it changes in the middle |
| Streams (`cr_streams.c`) | none but the application's | discover, open, close, receive, send | results are passed on; a discovery that is made continued ends |
| Time (`cr_stack.c` 1340-1384), CLI (`cr_stack.c` 1325-1339, 1973-1996) | none | get, set; a line from the client, a line to it | access is asked; the command line's echo does not disturb what is being sent |
| Client protocol version (`cr_stack.c` 1147-1253) | three bytes | parse, compare | the comparison is an order |
| Message types (`cr_stack.c`, `reach_decode.c`) | none | four switches, compiled for each build | what is decoded is handled, what is answered can be encoded |
| Log (`i3_log.c`) | log mask, remote-CLI switch, the buffer of the line for the client | log, echo to the remote CLI | sending a line, which logs, does not come back to the buffers it is sending from, and returns |
| `crcb_weak.c` | the application's | callbacks with weak defaults | a device that overrides none answers every prompt and begins nothing |
| `message_util.c`, `reach.pb.c`, nanopb | none | printing, encoding | - |

**How they interact.** `cr_process` first gives the continued transaction, if any, one
more message (`handle_continued_transactions`, which calls the service's handler with a
null request). Only if there was none does it look at the prompt buffer, decode the
header (which overwrites the saved transaction id and format), decode the payload and
call the service's handler; and when there is no prompt either, it checks which
notifications are due. Services write the shared globals
`pvtCr_continued_message_type` and `pvtCr_num_remaining_objects`; the core encodes the
response with them. Errors are reported out of band by `cr_report_error`, which encodes
and sends a notification at once, and logs; the log sends lines to the client through
the same encoder. The application's callbacks supply tables, file contents, access
decisions and the transport.

**What is hard.** There are no threads, but plenty of interleaving: prompts arrive
while a transaction continues, the link drops and returns at any point of it, access is
taken away and lists change between two messages, handlers fail after half of their
work, the client retries packets whose first copy was counted, timeouts expire between
packets, ticks wrap, buffers keep what was in them, and sending logs and logging sends.
The hazards are listed, each at its line, in `PROJECT.json`.

## Modules

| Module | Models |
|---|---|
| `ReachCore` | the core: buffers, dispatch, continued transactions, errors, link |
| `MessageTypes` | the four switches over the message type, for each build |
| `ChunkedDiscovery` | what any discovery promises its client (abstract) |
| `CommandService` | the command service composed with the core; a complete specification |
| `FileTransfer` | the file service composed with the core |
| `ParameterService` | discovery, extended discovery, reading and writing of parameters, composed with the core |
| `NotificationTable` | enabling, disabling and discovering notifications, the preset and what clears them, composed with the core |
| `BareServices` | the handlers of those four services and of the command line on a device whose callbacks are all the weak ones |
| `DeviceServices` | WiFi, time, streams and the client's version, composed with the core, with `MessageTypes` and `BareServices`; any build |
| `Watchdog` | the timeout watchdog with its wrapping arithmetic |
| `NotificationCheck` | which notifications are due, with wrapping ticks, values and deltas; composed with `Watchdog`, at the same calls of `cr_process` |
| `RemoteLog` | the log and the sending of lines, reports and notifications, call by call |
| `CommandServiceProofs`, `FileTransferProofs`, `ParameterServiceProofs`, `NotificationTableProofs`, `DeviceServicesProofs`, `NotificationCheckProofs` (with those of `Watchdog`), `RemoteLogProofs` | theorems and proofs |
| `ReachCoreProofs` | lemmas that several of them need: induction over the turns of a loop, the members of a set of numbers in order, what a report sends |
| `MCCommandService`, `MCFileTransfer`, `MCParameterService`, `MCNotificationTable`, `MCDeviceServices`, `MCNotificationCheck`, `MCRemoteLog` | instances for TLC |

`ReachCore` is extended, not instantiated, by the services: each composition is a build
with that service alone, as the `INCLUDE_..._SERVICE` macros allow, and
`DeviceServices` is any build at all. A service's handler
is an action that begins with `Dispatch` (envelope and payload decoded, header saved) or
`AtContinued`, and ends in the operator for the way the handler returns:

| C | TLA+ |
|---|---|
| handler returns 0; `handle_message` encodes, `cr_process` sends | `Respond` |
| handler reports errors and returns a code; `cr_process` adds a report and sends the old response buffer | `Fail` |
| `NO_DATA` or `NO_RESPONSE` | `Silent` |
| continued handler returns 0 / an error / `NO_DATA` | `Continue` / `FailContinued` / `NoMoreData` |

One call of `cr_process` is one step, with one exception: when a continued handler
returns `NO_DATA` the same call goes on to the prompt. That is a second step, from
`phase = "prompt"`, in which nothing but `cr_process` can move.

Abstractions in all modules:

* Messages are records; `sent` is what the step handed to `crcb_send_coded_response`.
* A prompt either fails to decode in its header, or in its payload, or decodes.
  Encoding succeeds (buffers are sized for the largest message), but for stream data
  sent as a command line's (`DeviceServices`).
* `hdr` stands for transaction id, endpoint id and client id, which are always saved and
  used together.
* The application's key verdict is `key_valid`: device info decides it, and the stack
  invalidates it when a link comes up (`crcb_invalidate_challenge_key`). In
  `ParameterService`, `NotificationTable` and `DeviceServices` the application may also
  take it back at any time (`revoke_access`), for their handlers ask again on every call
  of a transaction. The weak defaults, which grant everything, are the `Bare` device of
  `DeviceServices`.
* `ReachCore` and the services send a message in one step. They are builds without the
  remote command line, or with its echo switched off; that the echo leaves the buffers
  of a message alone is what `RemoteLog` checks (and where it finds that it does not).
* History variables (`owner`, `key_presented`, `received`, `executed`, `past`,
  `rescanned`, `owed`, `told`, `forgotten`, `notified`, `noted`, and in `Watchdog`
  `clock`, `stroked` and `expired`) are read by properties, never by the guards of
  actions. The one exception is that `clock` bounds the run by `Horizon`.

`FileTransfer` abstracts data to provenance: `file[b]` is the offset, in the client's
copy, of the byte stored at `b`. A packet is `[number, from, size, intact]`. The
application reads all that is there of what it is asked for, may fail any read or write,
and must fail a write past `FileSize`. A packet larger than a message cannot be decoded,
so the check at `cr_files.c` 386-396 is dead and left out. The timeout is whether a
timeout was asked for; while on, the flag may expire at any call.

`ParameterService` has the application's table in the order of its ids. `requested` is
the list of ids with its count (an empty list asks for the whole table; the -1 the code
writes over a served id is what `requested_index` says anyway). Extensions are numbers in
the order of the application's table, `extensions` is what its iterator has yet to give.
The result of `crcb_parameter_discover_reset` is ignored by the code, so an unknown id may
be described by any parameter or end the loop (`Descriptions`). A parameter in `Faulty`
may fail at any read or write. The counts the code keeps for discovery and for reading
are both the length of the list. Ids are not bounded by `MAX_NUM_PARAM_ID`, and
`REACH_PARAM_BUFFER_COUNT`, which an affirmation names, is defined nowhere in the
repository. Access is looked at on every call, the first and the continued ones. A read
or a write that is denied ends. A discovery that is denied forgets its list and its count
and keeps the continued type; when access is given again it goes on, through the whole
table from where its index or its iterator is, announcing a count that may come from
another prompt's header and is decremented modulo `Counts` (2^32 in the code). From the
denial on `received` is `Withdrawn`, and the properties of answers claim nothing of it.

In `NotificationTable` a continued discovery that is denied likewise keeps its type; with
its count zeroed it ends, without another message, once access is given again. The module
keeps of a configuration its parameter and one number for its two
periods and its delta. It takes the indices of the discovery from the code; the iterator
over the table is `next_param`. `cr_init_param_notifications`, which nothing in the stack
calls, is called here by an application with no notification active and no transaction
continued; `cr_clear_param_notifications` may be called at any time. Which notifications
the check in `cr_process` finds due is a choice among the active ones. The preset is the
application's, and the code checks nothing of it: `PresetIsSound` says that it names
parameters of the table, each once. The loop that does
not end (below) leaves `phase = "hung"`, from which nothing moves.

`NotificationCheck` takes that choice apart. A configuration is whole; a number is a word
of `2 * Half` values, read as unsigned or signed, and a byte string a size and one byte.
Strings, floats and 64-bit kinds are compared like these and left out, the last two with
their loss of precision. A parameter that cannot be read compares with any outcome, for
the code does not look at the result and the value is uninitialised; what the slot keeps
of it is `Zero`. A slot that is taken over by a parameter of another kind compares with
the bits that are there: any verdict. `clock` is the true time, of which `ticks` is the
remainder. `told` is what the client of this connection was told of each parameter last,
when, and by which slot; `forgotten` are the slots whose timestamp a preset has
overwritten since they told something.

`DeviceServices` has a constant set of devices: a build, a number of streams, and the
services whose callbacks the application overrides. The list of access points may change
and access be taken back between any two calls. A version is the numbers that can be read
of what the client sent. A device that overrides nothing (`Bare`) gets the prompts of all
services; the handlers of the services that have modules of their own are in
`BareServices`, with what they come to when every table is empty. The index of the next
access point has 8 bits, and lists have at most 255 entries (`MostAccessPoints`). Stream
data is sent in both ways the source has: by `pvtCr_notify_stream`, and by
`pvtCr_stream_send_notification`, which asks for a `CLI_NOTIFICATION`. With the command
line in the build, the data is a text, or, without its end, an error that is reported
twice. Without it nothing encodes the data, and the size of the payload is whatever the
stack held: the message has an `UNDEFINED` payload, or the assertion on the size stops
the program (`phase = "stopped"`).

`RemoteLog` is the one module in which a step is less than a call: `calls` is what is left
to do, the innermost first. `owed` is what the application's calls should bring the
client, computed when the call is made from the settings in force. A line is a value; its
colours, its cutting to the buffer's size and memory dumps are left out.

Operators commented as *Variant* are used by no specification: each is a definition with
one plausible mistake, and `PROJECT.json` pairs it with the property that detects it.

## Runs

Passing:

| Run | Instance | Shows |
|---|---|---|
| `command_service` | 5 commands, 1 open, 2 a message; 2 transaction ids; both formats; fairness | types; ownership of the continued transaction; conservation and completeness of discovery; access; refinement of `ChunkedDiscovery`; prompts are consumed, whatever is under way |
| `file_read` | file of 4 bytes, packets of 2, reads of 3 bytes from 0 and of 4 from 1, two requests that are refused; preferred rate none or 1; fairness | contiguity, windows, what is announced is what follows, windows close |
| `file_write` | a write of 3 bytes from offset 1, packets of 1 or 2 bytes, damaged or out of sequence; any client | acknowledgement when due, contiguity, good data kept |
| `parameter_service` | 3 parameters of which one may fail, 2 extensions of one of them; lists `<<>>`, `<<2, 4, 3>>`, `<<3, 2, 1>>`; 2 a message; counts modulo 16; access taken back, and given again with a device info; fairness | answers follow the request, the announced count is what is owed, a read is a snapshot of what was written, transactions end unless a discovery has lost the access and waits for it |
| `notification_table` | 3 parameters, 2 slots, 1 configuration a message; 3 parameters enabled at once, an unknown one, one without rate, a zero; a preset | one slot each, only what is named changes, what found no slot is remarked, a discovery of all is complete, also with access that comes and goes |
| `timers` | ticks modulo 4, up to 2 between calls, `Horizon` 4; words of 2 bits; two slots for an int and a byte string, and one preset parameter that cannot be read; a watchdog of period 1 | no parameter told again before its minimum period unless it has moved to another slot or a preset has overwritten its own, none overdue after a check, the watchdog punctual until the wrap |
| `device_services` | 5 access points, 2 a message; three devices: all services but the command line with 5 streams, without WiFi and notifications with 1 stream, and one that overrides nothing; a version whose first number does not fit its byte and whose third cannot be read; lists that change and access that is taken back; fairness | the switches over the type agree in all builds, but for stream data sent as a command line's; access points as listed and under access; versions ordered; refinement of `ChunkedDiscovery`; transactions end |
| `remote_log` | two lines, four masks, four settings of the log, two payloads, builds with and without command line and full error reports, three clients; `CallDepth` 6; fairness | what is being sent is not overwritten; the client gets what it is owed, in order, and nothing else; calls return |

Why the bounds are enough: three messages are the shortest discovery that has a first, a
middle and a last one, and five entries, two a message, make the last one short; one open
command gives a second table size, smaller than a message. Two transaction ids tell the
owner of a transaction from another client. A read of 3 or 4 bytes in packets of 2 has a
short and a whole last packet, the end inside and at the end of a window, and (from offset
1, 4 bytes) the end of the file before the end of the request. Rate 2 is the least that
leaves a transaction continued, rate 1 the least at all. A write of 3 bytes in packets of
1 and 2 fills up exactly, early and past its length. Three parameters, two a message, make
two messages, of the table and of each list, one with the unknown id 4 in it; counts wrap
at 16, far above any that is due, so a count that has wrapped is not taken for one that is
owed. Three notifications for two slots are the least that leave one out, and one
configuration a message makes every discovery of two go on. The ticks of the timers wrap
at four, which the `Horizon` of 4 just reaches, with minimum and maximum periods of one
and two; two slots are the least between which a parameter can move; words of 2 bits have
a sign, a half range and a delta inside it. Lists of none and of five access points swap
in the middle of a discovery both ways. The six calls of `CallDepth` are more than a line,
a report and what their sending logs: no state of the passing run reaches the bound.
`MaxBytes` bounds writes, whose byte counter never stops: it lets a packet come after
completion.

`file_read` uses a client that sends data
packets in writes and notifications in reads (`OrderlyPrompt`), as the guide's sequences
have it; `file_write` drops this (`AnySpec`). The clients of `remote_log` have access to
the command line only in Ahsoka format; the run `log_recursion` shows what happens
otherwise.

**Fairness.** `FairSpec` assumes weak fairness of `cr_process` and of nothing else: "The
application must call cr_process() regularly" (`cr_stack.c` 404). Prompts, links,
timeouts and scans are owed by no one. In `RemoteLog` it is weak fairness of the calls in
progress, which run on their caller's stack. `TransactionEnds` excepts what no fairness
ends: a discovery of parameters or of their extensions that has lost the access
(`parameter_service`), and a program that an assertion has stopped (`device_services`).

`notification_table`, `notify_hang` and `log_recursion` do not check for deadlock: a hung
system has stopped, and calls without end stop at `CallDepth`. Nor does `timers`, which
stops at its `Horizon`, and `device_services`, where a device without overridden
callbacks has a link that is down and may stay so, and where the assertion on the size of
stream data stops the program.

**Violated.** Four runs check what a comment, the guide or the protocol header says and
the code does not do; each is a finding in `PROJECT.json` with its line and quotation:

| Run | The code |
|---|---|
| `complete_after_retry` | counts a failed packet, and reports a write complete too early |
| `stale_transfer` | carries a transfer on over a reconnection |
| `notify_hang` | does not return from `cr_process` when a client asks for the notification of a parameter that has none ahead of one that has |
| `log_recursion` | with a classic client that has access to the command line, logs an error about each line it cannot encode, which is a line for that client: the buffers are overwritten and the calls do not end |

Further divergences, which no run is about. Those of the file service:

* The retry offset of a failed packet adds the bytes counted to an offset that contains
  them (`cr_files.c` 438, 487; `reach.pb.h` 631: "the offset at which a new transfer should
  start with good data").
* A read of a write-only file is reported as denied and starts all the same: the case has
  no return (`cr_files.c` 216).
* A discovery of more files than fit in a message announces more and stops: the continued
  dispatch has no case for it (`cr_files.c` 123, `cr_stack.c` 279).
* A completed write stays in state INIT and takes packets (`cr_files.c` 499-510).
* A write goes on with NO_ERROR when `crcb_file_prepare_to_write` fails (`cr_files.c`
  316-321), though "the stack reacts to an error code" (`crcb_weak.c` 703).
* The preferred ack rate is ignored for the default of 10 when the client asks for none
  (`cr_files.c` 265-285; the guide, `Introduction.md` 562, says otherwise).
* When the watchdog's target wraps, the watchdog expires at once (`cr_files.c` 762). An
  expired watchdog is logged and does not abandon the transfer (`cr_stack.c` 425-429;
  `reach.pb.h` 597: "ms before abandonment").

Those of parameters and their notifications:

* A list in an extended discovery does not reset the application's iterator for its first
  id, and gets the extensions that an earlier request left over (`cr_params.c` 305).
* An unknown id in a list ends a discovery after more has been announced, or leaves it
  without any answer (`cr_params.c` 216-231).
* A list whose discovery finds nothing leaves the remaining count at its length.
* A continued discovery of parameters or extensions whose access is taken back does not
  end: `NO_DATA` is returned with the continued type kept, on every call (`cr_params.c`
  113-117, 245-249). Prompts are handled meanwhile, and their headers overwrite the saved
  transaction id and the remaining count. When access is given again, the discovery goes
  on with an empty list, that is through the whole table, under the id of that prompt,
  announcing a count that started from the prompt's and wraps below zero. A discovery of
  notifications keeps its type too, and ends once access is given again (634-638). Reading
  ends at once (369-374), as the discovery of access points does (`cr_stack.c` 1393).
* The second of several parameter writes fails with the first one done, and one answer
  for both (`cr_params.c` 572).
* `result` of an enable is always 0: the loop assigns failures to a variable of its own
  (`cr_params.c` 799, 854; `reach.pb.h` 511: "A result of zero indicates OK"). Only the
  message tells, and a configuration that is all zero ends the loop without one, with those
  behind it left out (810).
* A configuration with an id and no period or delta is enabled (`cr_params.c` 601-608);
  the guide has it "the same as disabling that notification" (`Introduction.md` 429).
* A discovery of notifications that names only parameters without one is not answered
  (`cr_params.c` 747-751).
* A notification for id 0 with a rate is accepted and counted, and no discovery of
  everything can find it: the discovery would go on for ever with empty messages
  (`cr_params.c` 584, 699). The instances leave it out.
* Enabling and disabling do not ask `crcb_access_granted`, as discovering does
  (`cr_params.c` 634, 760, 782).
* The preset notifications are cleared by the first connection (`cr_stack.c` 510 on).
* A slot that is taken over keeps the last value and time of the parameter before, so its
  first change may go unreported (`cr_params.c` 849).
* A client is told of a parameter again before its minimum period when the parameter has
  moved to another slot, whose timestamp is older, and after a preset, which sets the
  timestamp to 0 (`cr_params.c` 816-849, 901, 984).
* A byte string that becomes shorter, and an integer whose difference is the least one or
  more than half the range, are compared wrongly (`cr_params.c` 1012 on); the value of a
  failed `crcb_parameter_read` is used uninitialised (995). 64-bit and floating kinds lose
  precision in the comparison.

Those of the other services:

* An INCOMPLETE WiFi scan, which the weak callback's comment describes, is answered with
  result 0 (`cr_stack.c` 1376-1472, `crcb_weak.h` 557-570). The weak
  `crcb_get_wifi_count` returns the code NOT_IMPLEMENTED as a count of 4, and the weak
  `crcb_wifi_connection` leaves the result at NO_ERROR.
* A list of access points that becomes shorter in the middle of its discovery sends blank
  entries; the index is 8 bits wide and lists of 256 would wrap it (the model has lists of
  at most 255).
* A malformed client version is logged as replaced by 0.0.21, but what could be read is
  stored, the rest 0 (`cr_stack.c` 1163-1176).
* A discovery of streams announces a remaining count that does not go down; with one
  stream it reports INVALID_PARAMETER; with more than `REACH_COUNT_PARAM_READ_VALUES` it
  sets a continued type that has no handler (`cr_streams.c` 98).
* STREAM_DATA_NOTIFICATION is answered, though "there is no response" (`cr_streams.c` 146).
* `pvtCr_stream_send_notification`, which no file of the repository calls, sends stream
  data as a CLI notification (`cr_streams.c` 159). A build without the command line has no
  encoder for it: the default of the switch assigns the code NO_DATA to the status, which
  is not zero and so counts as success, and leaves the size of the payload uninitialised
  (`cr_stack.c` 1740-1750). It is sent, or the affirmation on it (1747) stops the program.
  With the command line, data that does not end in a zero is not encoded, and the error
  report is sent twice.
* The prompt of a service that is compiled out is answered with DECODING_FAILED.
* The error report's variants SHORT and LOG_ONLY do not compile.
* The echo to the remote command line is on by default, against `Introduction.md` 455; a
  line whose mask is REMOTE alone is suppressed (`i3_log.c` 246).

Those of the core:

* After an error `cr_process` also sends the response buffer, with an old response or
  nothing in it (`cr_stack.c` 481), where the comment at 466 has the error report as the
  reply. The old response may be one of an earlier connection.
* `sCr_error_reported` is never set to true, so the "backup" report at `cr_stack.c` 473-478
  doubles every error report.
* A prompt stored before the link went down is answered after the next connection
  (`cr_stack.c` 514: "clear any stale data"). Its handler still needs the new
  connection's key (`RestrictedNeedsKey`). A second prompt overwrites a stored one (374).
* In classic format a notification is not encoded, but whatever the notification buffer
  holds is sent (`cr_stack.c` 1854, 2005-2012).
* The client id is copied into a buffer that keeps the last bytes of a longer one before
  it (717); `cr_get_transaction_id` is not updated in Ahsoka format; the ping's signal
  strength is uninitialised with the weak callback (1096).

## Proofs

A theorem holds for every value of the constants that satisfies the named assumptions
in the module that declares them; those bound nothing the code leaves unbounded. Each
rests on an inductive invariant, checked with TLC before it was proved.

**`CommandServiceProofs`** (`CoreAssumption`, `CommandAssumption`), for every table size,
number of open commands, message size, set of transaction ids and formats:

* `TypeCorrect`, `DiscoveryIsConserved`, `ContinuedIsOwned`, `ContinuedIsNeverEmpty` follow
  from the inductive invariant `IInv`, the conjunction of `TypeOK`, `DiscoveryConserves`,
  `ContinuedBelongsToItsPrompt` and `ContinuedHasRemaining`. None is inductive alone:
  conservation needs the remaining count to be positive (or a message would be sent for
  nothing and end the count below zero), and `TypeOK` bounds the index only because the
  index and the count add up to the table. That the table is the same from message to
  message rests on the core: while a transaction continues no prompt is handled, so no
  key verdict changes.
* `DiscoveryEndsComplete`: the message that announces nothing more is sent when the count
  reaches zero, where conservation says that all is with the client.
* `NothingTwice`: a message's entries lie above the index, those received below it.
* `RestrictedCommands`: by `KeyInv`, a valid key on a live link was presented on it.
* `Refinement`: the initial state maps to the abstract one, and each action to `Begin`,
  `Proceed`, `Abandon` or a stutter; the reconnection is the `Abandon`.

**`FileTransferProofs`** (`CoreAssumption`, `FileAssumption`), for every file, packet size,
set of requests and packets. Each step of the service is shown once to be of one of six
kinds (`EveryStep`: it leaves the transfer alone, starts one, closes one, fails a
message, sends data, takes a packet), and each invariant is then preserved by kind.

* With any client (`AnySpec`): `FileTypes`, `AcksAreDue`, `WritesAreContiguous`,
  `GoodDataStays`. The invariant `AnyInv` adds to them that what is continued is a read,
  and that the offset of a write without errors is where it began plus what has been
  counted (`WriteCounted`): contiguity is about the bytes of the file, which only that
  ties to the counter that decides completion.
* With an orderly client (`Spec`): `ReadsAreContiguous`, `WindowsAreKept`, from `ReadInv`.
  It needs `PromptFits`, that a waiting prompt belongs to the transfer under way: the code
  does not look at the direction when data or a notification comes, and the two are false
  without it. `OpenWindow` relates the count that the core decrements to the window that
  the service keeps.
* `AnnouncedReadsContinue`, with any client and, as its hypothesis `AhsokaOnly` has it,
  the Ahsoka format. In classic format an error report is not encoded, and the old
  response that follows it may be one that announces more, of a read that has ended: what
  is announced is not true of it. (The runs of the file service have the Ahsoka format
  too.) The proof says of each way a handler returns what the step sends, in which order
  (`SentInOrder`), and so which message is the last.

**`ParameterServiceProofs`** (`CoreAssumption`, `ParameterAssumption`), for every table,
assignment of extensions, set of lists, of writes and of parameters that may fail, and
size of messages: `AnswersAlwaysFollow`, `ReadsAreSnapshots`, `AnnouncementsAreKept`.

* They rest on `ParamInv`: in a discovery or read in progress, the index into the list is
  the number of items the client has, and with the count it makes the length of the list
  (`ListIndex`); in a discovery of all extensions the application's iterator has left
  exactly those that the client does not have, as many as the count says
  (`ExtensionIndex`, by `StillLeft`). The answers alone are not inductive: where the next
  message begins is known only from the index, and the code keeps index, count and
  iterator in three variables that different exits of the loops change.
* All of that is about an answer no call of which has been denied (`Denied`): after a
  denial the code knows neither list nor count. What must hold then is that nothing but a
  discovery goes on, and that a prompt is handled with something continued only while
  access is denied (`CoreType`), so that no transaction begins on top of another one.
* A message that begins (`FirstMessage`) or goes on with (`NextMessage`) a list is handled
  once for discovery and reading; all that a discovery does that a read does not is to
  stop early at an unknown id, which `Answerable` excludes where the count is concerned.
  `AnnouncementsAreKept` excludes with it an answer that has been denied.
* The exit that goes on to the next parameter's extensions cannot be reached when all are
  asked for (`ContinueNextStep`): the iterator is not at its end while the count is
  positive.
* That a read is a snapshot needs nothing of the table: a write is a prompt, and none is
  handled while the read continues; a read that is denied ends.
* `ParametersTyped` adds to `ParamInv` what is in the buffers, the header and the data
  (`TypeInv`). A continued transaction has the header of a client, which its messages
  carry. That a count is one of the `Counts` values holds after a denial because it wraps.
  The last of several values written for one parameter is the one that stays, which needs
  a greatest turn of the loop over them (`GreatestTurn`).

**`NotificationTableProofs`** (`CoreAssumption`, `NotificationAssumption`), for every number
of parameters, slots and configurations in a message, and every preset that is sound
(`PresetIsSound`, a hypothesis of each theorem; `PresetAssumption` has TLC check that the
instance satisfies it):

* `TableTypes` and `OneNotificationEach` follow from `TableInv`, the type invariant with
  `OneSlotEach` and `DiscoveryInv`. The type invariant needs the other two: what a message
  says remains is a count less an index, a natural number only because the one is never
  above the other, which for a discovery of everything is true because no parameter has
  two slots. `DiscoveryInv` says of a continued discovery that it goes on as it began
  (`GoesOn`), or has been denied and owes nothing (`NothingLeft`).
* `DiscoveriesAreComplete`: `DiscoveryInv` says that a discovery of everything has sent
  the active slots below the iterator, as many as the index says, and that the count is
  the number of active slots. While it continues nothing changes the table but what also
  ends it.
* `OnlyNamedParametersChange` and `UnremarkedEnablesHold`, of the loop over the
  configurations of an enable: after each turn the table differs from the first only in
  parameters named so far, no parameter has two slots, and a configuration found no slot
  only if the message says so.
* The loops and counts are recursive functions and folds over the table or a message. A
  statement about them is proved turn by turn with `EveryTurn` (of `ReachCoreProofs`): a
  set of turns that has 0, and with each turn the next one, has all turns. It is about a
  set where the library's theorem is about an operator, and rests on the least natural
  number of a set (`LeastNatural`, by well-foundedness).

**`DeviceServicesProofs`** (`CoreAssumption`, `DeviceAssumption`), for every build, set of
overridden services, set of lists of access points and message size:

* `ServicesAreComplete`: in each build, what is decoded is handled, what is answered can be
  encoded, and what is continued has a handler, but for the two exceptions the property
  names: the discovery of streams, which is continued without a handler, and stream data
  that is sent as a CLI notification in a build without the command line.
* `AccessPointsAsListed`, `AccessPointsNeedKey` and `WifiRefinement` rest on `DeviceInv`: a
  continued WiFi discovery has a remaining count, which with what has been sent is no more
  than the longest list, and its index follows what has been sent as long as the list
  does not change. Each step is again of one of a few `Kinds`.
* `VersionOrder`: the comparison with its early returns is the order of the versions as
  numbers of base 256, for all versions whatever (`CompareRanks`).
* `DeviceTyped`, by `SendInv`: in each build, what the buffers hold and a step sends is a
  message of one of the services in it with a body that its type has, with the transaction
  of a client; a CLI notification has a text where the build has the command line, and
  an undefined payload where it has streams alone. The index of 8 bits never wraps:
  by `Owed`, what has been sent and what remains is no more than the longest list.

**`NotificationCheckProofs`** (`CheckAssumption`, `WatchdogAssumption`), for every width of
ticks, half range of words, table, configuration, set of periods and pace of calls:

* Of the watchdog alone, `WatchdogTypes` and `Punctual`. The invariant says that until the
  wrap `ticks` is the time and an active target lies one period after the last stroke;
  punctuality speaks of neither. `TimersKeepWatchdog` shows that the watchdog composed
  with the check implements the watchdog alone, and `TimersPunctual` that it is punctual
  in it.
* `MinimumPeriods`, past any number of wraps and through changes of configuration: a
  client is not told of a parameter again before the minimum period that is in force, by
  the slot that told it of the parameter last, unless a preset has overwritten that slot
  since. Both exceptions are early notifications of the code (above). `TimeInv` says that
  ticks is the time modulo the width, and (`ToldTimes`) that the timestamp of the slot
  that told of a parameter last is, modulo the width, that time or a later one, for the
  slot may have told of another parameter since. The difference of two such remainders is
  the time between them modulo the width (`ModElapsed`), and so never more than it.
* `TimerTypes` and `NothingIsOverdue`, from `TimersInv`: what a slot remembers of a
  parameter that it has told of last is what the client was told (`LastIsTold`, of slots
  that are not `forgotten`), and the time that the code
  counts is exact while it is less than the modulus (`ElapsedIsExact`). Beyond that the
  code counts less than has passed, and a notification may be late: `NothingOverdue`
  claims nothing there.

**`RemoteLogProofs`** (`RemoteLogAssumption`, and `ClassicHasNoAccess`: no client with the
classic format is given the command line) proves `BuffersAreKept` and
`ClientGetsWhatIsOwed` for every set of lines, masks and payloads and every build. Without
the second assumption both are false, which is what `log_recursion` finds.

* `LogInv` says what the calls in progress can look like (`Stack`): the calls the
  application made wait in order, only the innermost has begun, or it is a line for no
  client that the one which has begun has logged. So there are never more than four, and
  the bound `CallDepth = 6` of the run is never met.
* The buffers hold what the call that has begun is sending (`InHand`); a line logged
  meanwhile reaches none of them, for its masks are those of traces, or the format is
  classic and access is denied.
* What is owed is what the calls in progress have still to send, the innermost first
  (`First4`). Each step is shown to return with nothing to send (`ReturnKept`), to go on
  (`GoOnKept`), to go on after logging (`LogKept`), or to send (`SendStep`).

* `LogTyped`, with any client: what is called at once when the application begins is no
  more than the least `CallDepth`, and every further call is made only below it.

**Only model-checked:** liveness (`PromptConsumed`, `ReadWindowCloses`, `TransactionEnds`,
`LogReturns`), whose proof needs ENABLED of the steps that are fair, which the prover does
not do. Every other property of a passing run is stated by a theorem. The four findings
are counterexamples, which TLC finds.

## Not modelled

* Endpoints, the advertised name, the report of buffer sizes: one variable each, which
  nothing reads but its getter.
* `message_util.c` prints messages; the generated `reach.pb.c` and nanopb encode them;
  they keep no state.
* Of the log: colours, memory dumps, the cutting of lines longer than the buffer.
* Wrapping of 32-bit file offsets; the models' offsets are small.
* Signal strength in the ping, the text callbacks of the command line and of updates over
  the air: the stack passes them on.

## Plan

1. A client of the file service over a lossy transport, with its timeouts and retries,
   composed with `FileTransfer`; an abstract file copy that the pair implements.
2. A build with all services overridden, for the interplay of their continued
   transactions: they share the requested ids, the iterators and the continued type.
3. `ParameterService` as a refinement of `ChunkedDiscovery` for the requests that can be
   answered, which `AnnouncementsAreKept` is most of.
