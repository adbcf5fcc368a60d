---------------------------- MODULE ParameterService ----------------------------
(***************************************************************************)
(* The parameter service (src/src/cr_params.c) on top of the core, without *)
(* its notifications: discovery of parameters and of their extensions,     *)
(* reading and writing.  A discovery or a read names the parameters it is   *)
(* about, or none for the whole table, and is answered in as many messages *)
(* as it takes.                                                            *)
(*                                                                         *)
(* The table is the application's: parameters 1 .. NumParams, in order.     *)
(* Extension e describes the values of parameter ExOwner[e].               *)
(***************************************************************************)
EXTENDS ReachCore, FiniteSets

CONSTANTS
  Counts,                               (* values of a count: 2^32          *)
  NumParams,                            (* parameters in the table          *)
  ExOwner,                              (* the parameter of each extension  *)
  Lists,                                (* id lists a client may send       *)
  Writes,                               (* lists of values it may write     *)
  Values,                               (* values of a parameter            *)
  Faulty,                               (* parameters the application may   *)
                                        (*   fail to read or write          *)
  REACH_COUNT_PARAM_DESC_IN_RESPONSE,   (* descriptions in one message      *)
  REACH_COUNT_PARAM_READ_VALUES         (* values in one message            *)

Table == 1 .. NumParams

ASSUME ParameterAssumption ==
  /\ Counts \in Nat \ {0} /\ More \subseteq 0 .. Counts - 1
  /\ NumParams \in Nat \ {0}
  /\ ExOwner \in Seq(Table)
  /\ Lists \subseteq Seq(Nat) /\ <<>> \in Lists
  /\ Writes \subseteq Seq([id: Nat, value: Values])
  /\ Values \subseteq Nat \ {0} /\ Values # {}
  /\ Faulty \subseteq Table
  /\ REACH_COUNT_PARAM_DESC_IN_RESPONSE \in Nat \ {0}
  /\ REACH_COUNT_PARAM_READ_VALUES \in Nat \ {0}

VARIABLES
  requested,             (* sCr_requested_param_array, up to its count; an  *)
                         (*   empty list asks for the whole table           *)
  requested_index,       (* sCr_requested_param_index                       *)
  extensions,            (* what crcb_parameter_ex_discover_next has yet to *)
                         (*   give, in order                                *)
  num_ex_this_pid,       (* sCr_num_ex_this_pid                             *)
  store,                 (* the values of the parameters                    *)
  received               (* history: what the client has got in answer to   *)
                         (*   the discovery or read begun last, and its     *)
                         (*   message type                                  *)

exVars == <<extensions, num_ex_this_pid>>
paramVars == <<requested, requested_index, exVars, store, received>>
vars == <<coreVars, paramVars>>

Unset == 0     (* a zeroed value                                           *)

Answer(type, items) == [type |-> type, items |-> items]

(* The answer of a transaction one of whose calls has been denied.          *)
Withdrawn == Answer("DENIED", 0)

(* The client gets more items of the answer begun last.                    *)
Receive(items) ==
  received' = IF received = Withdrawn THEN Withdrawn ELSE [received EXCEPT !.items = @ \o items]

ParameterTypes ==
  {"DISCOVER_PARAMETERS", "DISCOVER_PARAM_EX", "READ_PARAMETERS", "WRITE_PARAMETERS"}

ParameterPrompts ==
  CorePrompts
    \cup Wire(ParameterTypes \ {"WRITE_PARAMETERS"}, [ids: Lists])
    \cup Wire({"WRITE_PARAMETERS"}, [values: Writes])

(* The application grants the service to a client with a valid key.         *)
crcb_access_granted == key_valid

(* A discovery without access forgets its list, and answers nothing.        *)
Forget ==
  /\ requested' = <<>>
  /\ received' = Withdrawn
  /\ UNCHANGED <<exVars, store>>

discovery_denied ==
  /\ Dispatch("DISCOVER_PARAMETERS") \/ Dispatch("DISCOVER_PARAM_EX")
  /\ ~crcb_access_granted
  /\ num_remaining_objects' = 0
  /\ Silent
  /\ KeepContinued
  /\ Forget
  /\ UNCHANGED <<link, requested_index>>

(* A read or a write without access ends what is continued.                 *)
values_denied ==
  /\ Dispatch("READ_PARAMETERS") \/ Dispatch("WRITE_PARAMETERS")
  /\ ~crcb_access_granted
  /\ num_remaining_objects' = 0
  /\ Silent
  /\ EndContinued
  /\ UNCHANGED <<link, paramVars>>

-----------------------------------------------------------------------------
(* Discovery and reading, a chunk at a time.                               *)

WholeTable == [i \in Table |-> i]

AskedBy(ids) == IF ids = <<>> THEN WholeTable ELSE ids

Asked == AskedBy(requested)

(* Variant: the index into the list is not looked at.                       *)
ChunkFromStart(ids, index, size) == SubSeq(ids, 1, IF size < Len(ids) THEN size ELSE Len(ids))

(* The next at most size of the ids asked for, from position index on.      *)
Chunk(ids, index, size) ==
  SubSeq(ids, index + 1, IF index + size < Len(ids) THEN index + size ELSE Len(ids))

(* Variant: the result of crcb_parameter_discover_next is not looked at; an *)
(* id that is not in the table leaves a blank entry.                        *)
DescribedOrBlank(chunk) ==
  { [i \in DOMAIN chunk |-> IF chunk[i] \in Table THEN chunk[i] ELSE 0] }

(* What the loop over a chunk may describe.  The result of                  *)
(* crcb_parameter_discover_reset is ignored: for an id not in the table,   *)
(* crcb_parameter_discover_next describes whatever it has come to, or fails *)
(* and ends the loop.                                                      *)
Descriptions(chunk) ==
  LET ends == { n \in 0 .. Len(chunk) : n = Len(chunk) \/ chunk[n + 1] \notin Table }
  IN  UNION { { d \in [1 .. n -> Table] :
                  \A i \in 1 .. n : chunk[i] \in Table => d[i] = chunk[i] } : n \in ends }

(* What the loop over a chunk may read: a parameter that cannot be read is  *)
(* answered with a zeroed value.                                           *)
Readings(chunk) ==
  { [i \in DOMAIN chunk |->
       [id |-> chunk[i], value |-> IF i \in bad THEN Unset ELSE store[chunk[i]]]] :
    bad \in { b \in SUBSET DOMAIN chunk :
                \A i \in DOMAIN chunk :
                  /\ chunk[i] \notin Table => i \in b
                  /\ i \in b => chunk[i] \in Faulty \/ chunk[i] \notin Table } }

(* and the errors it reports, in that order.                                *)
ReadErrors(values) ==
  LET unread == InOrder({ i \in DOMAIN values : values[i].value = Unset })
  IN  [k \in DOMAIN unread |->
         IF values[unread[k]].id \in Table THEN "READ_FAILED" ELSE "INVALID_PARAMETER"]

(* Variant: only a list is continued.                                       *)
BeginList(type, ids, complete) ==
  IF complete /\ ids # <<>> THEN BeginContinued(type) ELSE KeepContinued

(* A loop that meets the end of the list ends the transaction; one that     *)
(* meets the end of the table leaves that to the next call.                *)
Begin(type, ids, complete) ==
  IF complete \/ ids = <<>> THEN BeginContinued(type) ELSE KeepContinued

pvtCrParam_discover_parameters ==
  /\ Dispatch("DISCOVER_PARAMETERS")
  /\ crcb_access_granted
  /\ LET ids   == prompt.arg.ids
         asked == AskedBy(ids)
         chunk == Chunk(asked, 0, REACH_COUNT_PARAM_DESC_IN_RESPONSE)
     IN  \E infos \in Descriptions(chunk) :
           /\ requested' = ids
           /\ requested_index' = Len(infos)
           /\ received' = Answer("DISCOVER_PARAMETERS", infos)
           /\ IF infos = <<>>
                THEN /\ num_remaining_objects' = Len(asked)
                     /\ Silent
                     /\ KeepContinued
                ELSE /\ Respond("DISCOVER_PARAMETERS", Len(asked) - Len(infos), infos, <<>>)
                     /\ Begin("DISCOVER_PARAMETERS", ids,
                              Len(infos) = REACH_COUNT_PARAM_DESC_IN_RESPONSE)
  /\ UNCHANGED <<link, exVars, store>>

pvtCrParam_read_param ==
  /\ Dispatch("READ_PARAMETERS")
  /\ crcb_access_granted
  /\ LET ids   == prompt.arg.ids
         asked == AskedBy(ids)
         chunk == Chunk(asked, 0, REACH_COUNT_PARAM_READ_VALUES)
     IN  \E values \in Readings(chunk) :
           /\ requested' = ids
           /\ requested_index' = Len(values)
           /\ received' = Answer("READ_PARAMETERS", values)
           /\ Respond("READ_PARAMETERS", Len(asked) - Len(values), values, ReadErrors(values))
           /\ Begin("READ_PARAMETERS", ids, Len(values) = REACH_COUNT_PARAM_READ_VALUES)
  /\ UNCHANGED <<link, exVars, store>>

(* What is left of the count, which wraps below zero.  A loop that meets    *)
(* the end of the table clears it.                                          *)
Left(n, size) ==
  IF requested = <<>> /\ n < size THEN 0 ELSE (num_remaining_objects - n) % Counts

(* A continued handler answered; it ends the transaction if it must.        *)
ContinueReporting(type, remaining, ends, body, codes) ==
  /\ num_remaining_objects' = remaining
  /\ IF ends \/ remaining = 0 THEN EndContinued ELSE KeepContinued
  /\ Encode(type, hdr, classic, remaining, body, codes)
  /\ UNCHANGED <<link, prompt, classic, hdr, phase>>

continue_discover_parameters ==
  /\ AtContinued("DISCOVER_PARAMETERS")
  /\ crcb_access_granted
  /\ LET chunk == Chunk(Asked, requested_index, REACH_COUNT_PARAM_DESC_IN_RESPONSE)
     IN  \E infos \in Descriptions(chunk) :
           LET left == Left(Len(infos), REACH_COUNT_PARAM_DESC_IN_RESPONSE)
           IN  /\ requested_index' = requested_index + Len(infos)
               /\ Receive(infos)
               /\ IF infos = <<>>
                    THEN /\ NoMoreData
                         /\ EndContinued
                         /\ num_remaining_objects' = left
                    ELSE ContinueReporting("DISCOVER_PARAMETERS", left,
                           Len(infos) < Len(chunk), infos, <<>>)
  /\ UNCHANGED <<requested, exVars, store>>

(* Where the application's iterator stands: in a discovery of a list,       *)
(* behind the parameter described last.                                     *)
Iterator ==
  IF requested = <<>> THEN {requested_index}
  ELSE {requested[requested_index]} \cap Table

(* The access has been taken back.  The list is forgotten, the transaction  *)
(* is not: with access again, it goes on in the table from the iterator.    *)
continue_discover_parameters_denied ==
  /\ AtContinued("DISCOVER_PARAMETERS")
  /\ ~crcb_access_granted
  /\ requested_index' \in IF Iterator = {} THEN 0 .. NumParams ELSE Iterator
  /\ Forget
  /\ NoMoreData
  /\ KeepContinued
  /\ UNCHANGED num_remaining_objects

continue_read_param ==
  /\ AtContinued("READ_PARAMETERS")
  /\ crcb_access_granted
  /\ LET chunk == Chunk(Asked, requested_index, REACH_COUNT_PARAM_READ_VALUES)
     IN  \E values \in Readings(chunk) :
           LET left == Left(Len(values), REACH_COUNT_PARAM_READ_VALUES)
           IN  /\ requested_index' = requested_index + Len(values)
               /\ Receive(values)
               /\ IF values = <<>>
                    THEN /\ NoMoreData
                         /\ EndContinued
                         /\ num_remaining_objects' = left
                    ELSE ContinueReporting("READ_PARAMETERS", left, FALSE,
                           values, ReadErrors(values))
  /\ UNCHANGED <<requested, exVars, store>>

continue_read_param_denied ==
  /\ AtContinued("READ_PARAMETERS")
  /\ ~crcb_access_granted
  /\ NoMoreData
  /\ EndContinued
  /\ num_remaining_objects' = 0
  /\ UNCHANGED paramVars

-----------------------------------------------------------------------------
(* Extensions, one in each message.                                        *)

AllExtensions == [e \in DOMAIN ExOwner |-> e]

ExtensionsOf(id) == InOrder({ e \in DOMAIN ExOwner : ExOwner[e] = id })

(* crcb_parameter_ex_get_count, added up over a list.                       *)
ExCount(ids) ==
  IF ids = <<>> THEN Len(ExOwner)
  ELSE Cardinality({ p \in (DOMAIN ids) \X (DOMAIN ExOwner) : ExOwner[p[2]] = ids[p[1]] })

ASSUME CountAssumption ==
  \A ids \in Lists : Len(AskedBy(ids)) < Counts /\ ExCount(ids) < Counts

(* What crcb_parameter_ex_discover_next fills in: nothing when it fails.    *)
NextOf(exs) == IF exs = <<>> THEN <<>> ELSE <<Head(exs)>>

After(exs) == IF exs = <<>> THEN <<>> ELSE Tail(exs)

(* The application's iterator is reset for a request of everything, not for *)
(* the first id of a list.                                                 *)
pvtCrParam_discover_parameters_ex ==
  /\ Dispatch("DISCOVER_PARAM_EX")
  /\ crcb_access_granted
  /\ LET ids   == prompt.arg.ids
         total == ExCount(ids)
         exs   == IF ids = <<>> THEN AllExtensions ELSE extensions
     IN  /\ requested' = ids
         /\ requested_index' = 0
         /\ num_ex_this_pid' = IF ids = <<>> THEN 0 ELSE Len(ExtensionsOf(ids[1]))
         /\ IF total = 0
              THEN /\ Respond("DISCOVER_PARAM_EX", 0, <<>>, <<>>)
                   /\ KeepContinued
                   /\ received' = Answer("DISCOVER_PARAM_EX", <<>>)
                   /\ UNCHANGED extensions
              ELSE /\ Respond("DISCOVER_PARAM_EX", total - 1, NextOf(exs), <<>>)
                   /\ IF total > 1 THEN BeginContinued("DISCOVER_PARAM_EX") ELSE KeepContinued
                   /\ received' = Answer("DISCOVER_PARAM_EX", NextOf(exs))
                   /\ extensions' = After(exs)
  /\ UNCHANGED <<link, store>>

SendExtension(exs) ==
  /\ ContinueReporting("DISCOVER_PARAM_EX", num_remaining_objects - 1, FALSE, NextOf(exs), <<>>)
  /\ Receive(NextOf(exs))
  /\ extensions' = After(exs)
  /\ num_ex_this_pid' = 0

AtExtension ==
  /\ AtContinued("DISCOVER_PARAM_EX")
  /\ crcb_access_granted
  /\ num_remaining_objects > 0

continue_same_param_ex ==
  /\ AtExtension
  /\ extensions # <<>>
  /\ SendExtension(extensions)
  /\ UNCHANGED <<requested, requested_index, store>>

(* The iterator is at its end: go on to the next parameter of the list.     *)
continue_next_param_ex ==
  /\ AtExtension
  /\ extensions = <<>> /\ requested # <<>>
  /\ requested_index' = requested_index + 1
  /\ LET left == requested_index + 1 < Len(requested)
         next == requested[requested_index + 2]
         exs  == IF left /\ num_ex_this_pid = 0 THEN ExtensionsOf(next) ELSE <<>>
     IN  IF exs # <<>>
           THEN SendExtension(exs)
           ELSE /\ NoMoreData
                /\ EndContinued
                /\ num_remaining_objects' = IF left THEN num_remaining_objects ELSE 0
                /\ UNCHANGED <<exVars, received>>
  /\ UNCHANGED <<requested, store>>

(* Nothing is left to count, which a call that was denied has seen to, or   *)
(* nothing is left to iterate.                                              *)
continue_param_ex_ended ==
  /\ AtContinued("DISCOVER_PARAM_EX")
  /\ crcb_access_granted
  /\ num_remaining_objects = 0 \/ (extensions = <<>> /\ requested = <<>>)
  /\ NoMoreData
  /\ EndContinued
  /\ UNCHANGED <<num_remaining_objects, paramVars>>

continue_param_ex_denied ==
  /\ AtContinued("DISCOVER_PARAM_EX")
  /\ ~crcb_access_granted
  /\ Forget
  /\ NoMoreData
  /\ KeepContinued
  /\ num_remaining_objects' = 0
  /\ UNCHANGED requested_index

-----------------------------------------------------------------------------
(* Writing.                                                                *)

(* The store after the first n of a list of values.                        *)
Written(values, n) ==
  [id \in Table |->
     LET writes == { i \in 1 .. n : values[i].id = id }
     IN  IF writes = {} THEN store[id]
         ELSE values[CHOOSE i \in writes : \A j \in writes : j <= i].value]

pvtCrParam_write_param ==
  /\ Dispatch("WRITE_PARAMETERS")
  /\ crcb_access_granted
  /\ LET values == prompt.arg.values
         Known(n) == \A i \in 1 .. n : values[i].id \in Table
     IN  \/ /\ values = <<>>
            /\ Fail(<<"INVALID_PARAMETER">>, "INVALID_PARAMETER")
            /\ num_remaining_objects' = 0
            /\ UNCHANGED store
         \/ /\ values # <<>> /\ Known(Len(values))
            /\ Respond("WRITE_PARAMETERS", 0, 0, <<>>)
            /\ store' = Written(values, Len(values))
         \/ \E n \in 1 .. Len(values) :
              /\ Known(n - 1) /\ values[n].id \in Faulty \cup (Nat \ Table)
              /\ Fail(<<"WRITE_FAILED">>, "WRITE_FAILED")
              /\ num_remaining_objects' = 0
              /\ store' = Written(values, n - 1)
  /\ KeepContinued
  /\ UNCHANGED <<link, requested, requested_index, exVars, received>>

-----------------------------------------------------------------------------

cr_process ==
  \/ CoreProcess /\ UNCHANGED paramVars
  \/ discovery_denied
  \/ values_denied
  \/ pvtCrParam_discover_parameters
  \/ continue_discover_parameters
  \/ continue_discover_parameters_denied
  \/ pvtCrParam_discover_parameters_ex
  \/ continue_same_param_ex
  \/ continue_next_param_ex
  \/ continue_param_ex_ended
  \/ continue_param_ex_denied
  \/ pvtCrParam_read_param
  \/ continue_read_param
  \/ continue_read_param_denied
  \/ pvtCrParam_write_param

Application ==
  /\ CoreApplication(ParameterPrompts) \/ revoke_access
  /\ UNCHANGED paramVars

Init ==
  /\ CoreInit
  /\ requested = <<>>
  /\ requested_index = 0
  /\ extensions = AllExtensions
  /\ num_ex_this_pid = 0
  /\ store = [id \in Table |-> CHOOSE value \in Values : TRUE]
  /\ received = Answer("READ_PARAMETERS", <<>>)

Next == cr_process \/ Application

Fairness == WF_vars(cr_process)

Spec == Init /\ [][Next]_vars
FairSpec == Spec /\ Fairness

-----------------------------------------------------------------------------
(* Properties.                                                             *)

(* What an answer of each type consists of.                                *)
Items(type) ==
  CASE type = "DISCOVER_PARAMETERS" -> Seq(Table)
    [] type = "DISCOVER_PARAM_EX" -> Seq(DOMAIN ExOwner)
    [] type = "READ_PARAMETERS" -> Seq([id: Nat, value: Values \cup {Unset}])
    [] OTHER -> {0}

IsResponse(m) ==
  /\ m.type \in {"PING", "GET_DEVICE_INFO"} \cup ParameterTypes
  /\ m.tid \in Tid
  /\ m.classic \in BOOLEAN
  /\ m.remaining \in 0 .. Counts - 1
  /\ m.body \in Items(m.type)

ErrorReports ==
  { ErrorReport(code) : code \in {"DECODING_FAILED", "NOT_IMPLEMENTED", "INVALID_PARAMETER",
                                 "READ_FAILED", "WRITE_FAILED"} }

(* The variables keep their types; in particular what is sent describes     *)
(* parameters and extensions of the table and no others.                   *)
TypeOK ==
  /\ connected \in BOOLEAN
  /\ key_valid \in BOOLEAN
  /\ prompt \in ParameterPrompts \cup {NoPrompt}
  /\ classic \in BOOLEAN
  /\ hdr \in Tid \cup {0}
  /\ continued_message_type \in {INVALID} \cup (ParameterTypes \ {"WRITE_PARAMETERS"})
  /\ num_remaining_objects \in 0 .. Counts - 1
  /\ response_buffer = NoMessage \/ IsResponse(response_buffer)
  /\ notification_buffer = NoMessage \/ notification_buffer \in ErrorReports
  /\ phase \in {"idle", "prompt"}
  /\ \A i \in DOMAIN sent :
       sent[i] = NoMessage \/ IsResponse(sent[i]) \/ sent[i] \in ErrorReports
  /\ owner \in [tid: Tid \cup {0}, classic: BOOLEAN]
  /\ key_presented \in BOOLEAN
  /\ requested \in Lists
  /\ requested_index \in Nat
  /\ extensions \in Seq(DOMAIN ExOwner)
  /\ num_ex_this_pid \in 0 .. Len(ExOwner)
  /\ store \in [Table -> Values]
  /\ received.type \in (ParameterTypes \ {"WRITE_PARAMETERS"}) \cup {"DENIED"}
  /\ received.items \in Items(received.type)

(* Position by position the client gets what it asked for, over all the     *)
(* messages of a discovery or a read: nothing is skipped, repeated or       *)
(* reordered, whatever fails meanwhile.  (An id not in the table may be     *)
(* described by another parameter.)  That is so until the application takes *)
(* back the access and a call of the transaction is denied: nothing is said *)
(* of what a discovery sends when it goes on after that.                    *)
AnswersFollowTheRequest ==
  LET items == received.items
  IN  CASE received.type = "READ_PARAMETERS" ->
             \A i \in DOMAIN items : items[i].id = Asked[i]
        [] received.type = "DISCOVER_PARAMETERS" ->
             \A i \in DOMAIN items : Asked[i] \in Table => items[i] = Asked[i]
        [] received.type = "DISCOVER_PARAM_EX" /\ requested = <<>> ->
             \A i \in DOMAIN items : items[i] = i
        [] OTHER -> TRUE

(* How many items the answer begun last should have in all.                *)
Owed == IF received.type = "DISCOVER_PARAM_EX" THEN Len(ExOwner) ELSE Len(Asked)

(* A request that the table can answer: no id unknown, and no list of       *)
(* extensions, whose first id the code does not look up.                   *)
Answerable ==
  /\ \A i \in DOMAIN requested : requested[i] \in Table
  /\ received.type = "DISCOVER_PARAM_EX" => requested = <<>>

(* Every message of an answerable request announces exactly what the client *)
(* has still to get, and announces more only if the transaction goes on, as *)
(* long as no call of the transaction has been denied.                      *)
AnnouncedIsOwed ==
  [][ \A i \in DOMAIN sent' :
        LET m == sent'[i]
        IN  received' # received /\ m.type = received'.type /\ Answerable' =>
              /\ Len(received'.items) + m.remaining = Owed'
              /\ m.remaining > 0 => continued_message_type' = m.type ]_vars

(* A read that takes several messages is a snapshot of what clients wrote:  *)
(* no write comes between its messages.                                    *)
ReadIsSnapshot ==
  continued_message_type = "READ_PARAMETERS" /\ received.type = "READ_PARAMETERS" =>
    \A i \in DOMAIN received.items :
      LET v == received.items[i]
      IN  v.value # Unset => v.value = store[v.id]

(* A discovery or read that has begun ends, or the link goes down: also     *)
(* when ids are unknown, parameters cannot be read, extensions run out and  *)
(* a count has wrapped.  A discovery that has lost the access may wait for  *)
(* it as long as the application will; a read ends then too.                *)
TransactionEnds ==
  (continued_message_type # INVALID) ~>
    \/ continued_message_type = INVALID
    \/ ~connected
    \/ ~crcb_access_granted /\ continued_message_type # "READ_PARAMETERS"

=============================================================================
