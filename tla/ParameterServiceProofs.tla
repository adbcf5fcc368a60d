------------------------ MODULE ParameterServiceProofs ------------------------
(***************************************************************************)
(* Theorems of the parameter service, for every table, set of lists of ids, *)
(* set of parameters that may fail and size of messages.                    *)
(***************************************************************************)
EXTENDS ParameterService, ReachCoreProofs

Lasting == {"DISCOVER_PARAMETERS", "DISCOVER_PARAM_EX", "READ_PARAMETERS"}

(* What the client has got is a sequence, of whatever it is.                *)
IsSequence(s) == s \in Seq({ s[i] : i \in DOMAIN s })

Discoveries == {"DISCOVER_PARAMETERS", "DISCOVER_PARAM_EX"}

Count == 0 .. Counts - 1

(* A call of the transaction begun last was denied; it may be continued all *)
(* the same, when it is a discovery.                                       *)
Denied == received.type = "DENIED"

(* What stays continued while a prompt is handled has no access.            *)
CoreType ==
  /\ prompt \in ParameterPrompts \cup {NoPrompt}
  /\ continued_message_type \in Lasting \cup {INVALID}
  /\ num_remaining_objects \in Count
  /\ phase \in {"idle", "prompt"}
  /\ phase = "prompt" =>
       \/ continued_message_type = INVALID
       \/ Denied /\ ~crcb_access_granted
  /\ notification_buffer.type \in {"NONE", "ERROR_REPORT"}

ParamType ==
  /\ requested \in Lists
  /\ requested_index \in Nat
  /\ received = Answer(received.type, received.items)
  /\ received.type \in Lasting \cup {"DENIED"}
  /\ IF Denied THEN received = Withdrawn ELSE IsSequence(received.items)
  /\ Denied => continued_message_type \in Discoveries \cup {INVALID}

(* What is continued is the answer begun last.  The index into the list is  *)
(* what the client has, and the count is what it is still owed.             *)
ListIndex ==
  continued_message_type \in {"DISCOVER_PARAMETERS", "READ_PARAMETERS"} /\ ~Denied =>
    /\ received.type = continued_message_type
    /\ requested_index = Len(received.items)
    /\ requested_index + num_remaining_objects = Len(Asked)

(* The extensions of the table that the client does not have yet.           *)
StillLeft(exs, got) ==
  /\ exs \in Seq(Nat) /\ got + Len(exs) = Len(ExOwner)
  /\ \A i \in 1 .. Len(exs) : exs[i] = got + i

(* A discovery of extensions has some left to send, and that of all of them *)
(* has the application's iterator where the client is.                      *)
ExtensionIndex ==
  continued_message_type = "DISCOVER_PARAM_EX" /\ ~Denied =>
    /\ received.type = "DISCOVER_PARAM_EX"
    /\ num_remaining_objects > 0
    /\ requested = <<>> =>
         StillLeft(extensions, Len(received.items)) /\ Len(extensions) = num_remaining_objects

ParamInv ==
  /\ CoreType
  /\ ParamType
  /\ ListIndex
  /\ ExtensionIndex
  /\ AnswersFollowTheRequest
  /\ ReadIsSnapshot

-----------------------------------------------------------------------------
(* Lemmas about prompts and about what is asked for.                        *)

(* What a stored prompt's fields may be.                                   *)
LEMMA PromptFields ==
  ASSUME CoreType, prompt # NoPrompt
  PROVE  /\ prompt.more \in Count
         /\ prompt.type \in Lasting => prompt.arg.ids \in Lists
         /\ prompt.type = "WRITE_PARAMETERS" => prompt.arg.values \in Writes
<1>1. prompt \in ParameterPrompts
  BY DEF CoreType
<1>2. QED
  BY <1>1, ParameterAssumption
     DEF ParameterPrompts, ParameterTypes, Lasting, CorePrompts, Wire, NoArgs, Count

LEMMA CountIs == 0 \in Count /\ Count \subseteq Nat
  BY ParameterAssumption DEF Count

LEMMA PromptMeansNothingContinued ==
  ASSUME CoreType, AtPrompt
  PROVE  \/ continued_message_type = INVALID
         \/ Denied /\ ~crcb_access_granted
  BY DEF CoreType, AtPrompt

LEMMA AskedIsSequence ==
  ASSUME NEW ids \in Lists
  PROVE  /\ AskedBy(ids) \in Seq(Nat)
         /\ Len(AskedBy(ids)) \in Nat
         /\ ids = <<>> => \A i \in 1 .. Len(AskedBy(ids)) : AskedBy(ids)[i] \in Table
         /\ (\A i \in DOMAIN ids : ids[i] \in Table)
              => \A i \in 1 .. Len(AskedBy(ids)) : AskedBy(ids)[i] \in Table
<1>1. ids \in Seq(Nat)
  BY ParameterAssumption
<1>2. WholeTable \in [1 .. NumParams -> Nat]
  BY ParameterAssumption DEF WholeTable, Table
<1>3. WholeTable \in Seq(Nat)
  BY <1>2, ParameterAssumption, SeqDef
<1>4. \A i \in DOMAIN WholeTable : WholeTable[i] \in Table
  BY DEF WholeTable
<1>5. /\ DOMAIN WholeTable = 1 .. Len(WholeTable) /\ Len(WholeTable) \in Nat
      /\ DOMAIN ids = 1 .. Len(ids) /\ Len(ids) \in Nat
  BY <1>1, <1>3, LenProperties
<1>6. QED BY <1>1, <1>3, <1>4, <1>5 DEF AskedBy

(* One message's part of what is asked for.                                 *)
LEMMA ChunkOfIds ==
  ASSUME NEW ids \in Seq(Nat), NEW index \in Nat, index <= Len(ids), NEW size \in Nat \ {0}
  PROVE  /\ Chunk(ids, index, size) \in Seq(Nat)
         /\ Len(Chunk(ids, index, size))
              = IF index + size < Len(ids) THEN size ELSE Len(ids) - index
         /\ \A i \in 1 .. Len(Chunk(ids, index, size)) :
              index + i \in 1 .. Len(ids) /\ Chunk(ids, index, size)[i] = ids[index + i]
<1> DEFINE last == IF index + size < Len(ids) THEN index + size ELSE Len(ids)
<1>1. Len(ids) \in Nat /\ last \in Nat /\ index <= last /\ last <= Len(ids)
  BY LenProperties
<1>2. \A i \in index + 1 .. last : ids[i] \in Nat
  BY <1>1, ElementOfSeq
<1>3. /\ SubSeq(ids, index + 1, last) \in Seq(Nat)
      /\ Len(SubSeq(ids, index + 1, last)) = IF index + 1 <= last THEN last - (index + 1) + 1 ELSE 0
      /\ \A i \in 1 .. last - (index + 1) + 1 : SubSeq(ids, index + 1, last)[i] = ids[index + 1 + i - 1]
  <2>1. index + 1 \in Int /\ last \in Int
    BY <1>1
  <2> HIDE DEF last
  <2>2. QED BY <1>2, <2>1, SubSeqProperties
<1>4. Chunk(ids, index, size) = SubSeq(ids, index + 1, last)
  BY DEF Chunk
<1>5. Len(Chunk(ids, index, size)) = last - index
  BY <1>1, <1>3, <1>4
<1>6. QED BY <1>1, <1>3, <1>4, <1>5

(* It is a list of ids wherever the index stands.                           *)
LEMMA ChunkTyped ==
  ASSUME NEW ids \in Seq(Nat), NEW index \in Nat, NEW size \in Nat \ {0}
  PROVE  Chunk(ids, index, size) \in Seq(Nat)
<1> DEFINE last == IF index + size < Len(ids) THEN index + size ELSE Len(ids)
<1>1. Len(ids) \in Nat /\ last \in Nat /\ last <= Len(ids)
  BY LenProperties
<1>2. \A i \in index + 1 .. last : ids[i] \in Nat
  BY <1>1, ElementOfSeq
<1>3. SubSeq(ids, index + 1, last) \in Seq(Nat)
  <2>1. index + 1 \in Int /\ last \in Int
    BY <1>1
  <2> HIDE DEF last
  <2>2. QED BY <1>2, <2>1, SubSeqProperties
<1>4. QED BY <1>3 DEF Chunk

LEMMA ChunkLength ==
  ASSUME NEW ids \in Seq(Nat), NEW index \in Nat, NEW num \in Nat, index + num = Len(ids),
         NEW size \in Nat \ {0}
  PROVE  /\ Len(Chunk(ids, index, size)) \in Nat
         /\ Len(Chunk(ids, index, size)) = IF size < num THEN size ELSE num
<1>1. index <= Len(ids) /\ (index + size < Len(ids) <=> size < num) /\ Len(ids) - index = num
  BY LenProperties
<1>2. QED BY <1>1, ChunkOfIds

(* The part of the first message.                                          *)
LEMMA FirstChunk ==
  ASSUME NEW ids \in Seq(Nat), NEW size \in Nat \ {0}
  PROVE  LET chunk == Chunk(ids, 0, size)
         IN  /\ chunk \in Seq(Nat) /\ Len(chunk) \in Nat
             /\ Len(chunk) = IF size < Len(ids) THEN size ELSE Len(ids)
             /\ \A i \in 1 .. Len(chunk) : i \in 1 .. Len(ids) /\ chunk[i] = ids[i]
<1> DEFINE chunk == Chunk(ids, 0, size)
<1>1. Len(ids) \in Nat /\ 0 + Len(ids) = Len(ids) /\ 0 \in Nat /\ 0 <= Len(ids)
  BY LenProperties
<1>2. Len(chunk) \in Nat /\ Len(chunk) = IF size < Len(ids) THEN size ELSE Len(ids)
  BY <1>1, ChunkLength
<1>3. /\ chunk \in Seq(Nat)
      /\ \A i \in 1 .. Len(chunk) : 0 + i \in 1 .. Len(ids) /\ chunk[i] = ids[0 + i]
  BY <1>1, ChunkOfIds
<1> HIDE DEF chunk
<1>4. \A i \in 1 .. Len(chunk) : 0 + i = i
  BY <1>2
<1>5. QED BY <1>2, <1>3, <1>4 DEF chunk

(* What a discovery may describe of it: the ids in the table, each in its   *)
(* place, up to where it stops at one that is not.                          *)
LEMMA DescriptionsOfChunk ==
  ASSUME NEW chunk \in Seq(Nat), NEW d \in Descriptions(chunk)
  PROVE  /\ d \in Seq(Table)
         /\ Len(d) \in Nat /\ Len(d) <= Len(chunk)
         /\ \A i \in 1 .. Len(d) : chunk[i] \in Table => d[i] = chunk[i]
         /\ (\A i \in 1 .. Len(chunk) : chunk[i] \in Table) => Len(d) = Len(chunk)
<1>1. Len(chunk) \in Nat
  BY LenProperties
<1>2. PICK n \in 0 .. Len(chunk) :
        /\ n = Len(chunk) \/ chunk[n + 1] \notin Table
        /\ d \in [1 .. n -> Table]
        /\ \A i \in 1 .. n : chunk[i] \in Table => d[i] = chunk[i]
  BY DEF Descriptions
<1>3. n \in Nat /\ n <= Len(chunk)
  BY <1>1
<1>4. d \in Seq(Table) /\ Len(d) = n
  <2>1. d \in Seq(Table)
    BY <1>2, <1>3, SeqDef
  <2>2. QED BY <1>2, <1>3, <2>1
<1>5. n # Len(chunk) => n + 1 \in 1 .. Len(chunk)
  BY <1>1, <1>3
<1>6. QED BY <1>2, <1>3, <1>4, <1>5

(* What a read may answer it with: the ids, each in its place, with values  *)
(* that are in the store or not set.                                       *)
LEMMA ReadingsOfChunk ==
  ASSUME NEW chunk \in Seq(Nat), NEW values \in Readings(chunk)
  PROVE  /\ IsSequence(values)
         /\ Len(values) = Len(chunk)
         /\ \A i \in 1 .. Len(values) :
              /\ values[i].id = chunk[i]
              /\ values[i].value # Unset => values[i].value = store[values[i].id]
<1>1. Len(chunk) \in Nat /\ DOMAIN chunk = 1 .. Len(chunk)
  BY LenProperties
<1>2. PICK bad \in SUBSET DOMAIN chunk :
        /\ \A i \in DOMAIN chunk : chunk[i] \notin Table => i \in bad
        /\ values = [i \in DOMAIN chunk |->
             [id |-> chunk[i], value |-> IF i \in bad THEN Unset ELSE store[chunk[i]]]]
  BY DEF Readings
<1>3. \A i \in 1 .. Len(chunk) :
        /\ values[i].id = chunk[i]
        /\ values[i].value = IF i \in bad THEN Unset ELSE store[chunk[i]]
  BY <1>1, <1>2
<1>4. values \in [1 .. Len(chunk) -> { values[i] : i \in DOMAIN values }]
      /\ DOMAIN values = 1 .. Len(chunk)
  BY <1>1, <1>2
<1>5. IsSequence(values)
  BY <1>1, <1>4, SeqDef DEF IsSequence
<1>6. Len(values) = Len(chunk)
  BY <1>1, <1>4, <1>5 DEF IsSequence
<1>7. QED BY <1>3, <1>5, <1>6

(* A sequence and what is added to it.                                      *)
LEMMA Joined ==
  ASSUME NEW s, NEW t, IsSequence(s), IsSequence(t)
  PROVE  /\ IsSequence(s \o t)
         /\ Len(s) \in Nat /\ Len(t) \in Nat
         /\ Len(s \o t) = Len(s) + Len(t)
         /\ DOMAIN (s \o t) = 1 .. Len(s \o t)
         /\ \A i \in 1 .. Len(s) : (s \o t)[i] = s[i]
         /\ \A i \in 1 .. Len(t) : (s \o t)[Len(s) + i] = t[i]
<1> DEFINE S == { s[i] : i \in DOMAIN s } \cup { t[i] : i \in DOMAIN t }
           u == s \o t
<1>1. s \in Seq(S) /\ t \in Seq(S)
  BY SeqMonotonic DEF IsSequence
<1> HIDE DEF S
<1>2. Len(s) \in Nat /\ Len(t) \in Nat
  BY <1>1, LenProperties
<1>3. /\ u \in Seq(S) /\ Len(u) = Len(s) + Len(t)
      /\ \A i \in 1 .. Len(s) + Len(t) : u[i] = IF i <= Len(s) THEN s[i] ELSE t[i - Len(s)]
  BY <1>1, ConcatProperties
<1> HIDE DEF u
<1>4. DOMAIN u = 1 .. Len(u) /\ u \in [1 .. Len(u) -> S]
  BY <1>3, LenProperties
<1>5. Len(u) \in Nat
  BY <1>2, <1>3
<1>6. IsSequence(u)
  <2> DEFINE R == { u[i] : i \in DOMAIN u }
  <2>1. u \in [1 .. Len(u) -> R]
    BY <1>4
  <2>2. u \in Seq(R)
    <3> HIDE DEF R
    <3>1. QED BY <1>5, <2>1, SeqDef
  <2>3. QED BY <2>2 DEF IsSequence
<1>7. /\ \A i \in 1 .. Len(s) : u[i] = s[i]
      /\ \A i \in 1 .. Len(t) : u[Len(s) + i] = t[i]
  BY <1>2, <1>3
<1>8. QED BY <1>2, <1>3, <1>4, <1>6, <1>7 DEF u

LEMMA SequenceOf ==
  ASSUME NEW S, NEW s \in Seq(S) PROVE IsSequence(s)
<1>1. DOMAIN s = 1 .. Len(s) /\ Len(s) \in Nat /\ s \in [1 .. Len(s) -> S]
  BY LenProperties
<1>2. s \in [1 .. Len(s) -> { s[i] : i \in DOMAIN s }]
  BY <1>1
<1>3. QED BY <1>1, <1>2, SeqDef DEF IsSequence

-----------------------------------------------------------------------------
(* Messages.                                                               *)

(* A report leaves a report in its buffer, or what was there.               *)
LEMMA ReportBuffer ==
  ASSUME CoreType, NEW format, NEW codes, NEW tail, Report(format, codes, tail)
  PROVE  notification_buffer'.type \in {"NONE", "ERROR_REPORT"}
  BY DEF CoreType, Report, ErrorReport, Message

LEMMA FailBuffer ==
  ASSUME CoreType, NEW codes, NEW rval, Fail(codes, rval)
  PROVE  notification_buffer'.type \in {"NONE", "ERROR_REPORT"}
  BY ReportBuffer DEF Fail

LEMMA RespondBuffer ==
  ASSUME CoreType, NEW type, NEW remaining, NEW body, NEW codes,
         Respond(type, remaining, body, codes)
  PROVE  notification_buffer'.type \in {"NONE", "ERROR_REPORT"}
  BY ReportBuffer DEF Respond, Encode

LEMMA SilentBuffer ==
  ASSUME CoreType, Silent PROVE notification_buffer'.type \in {"NONE", "ERROR_REPORT"}
  BY DEF CoreType, Silent, buffers

(* Of what is sent with a message, only the message is no report.           *)
LEMMA SentWithMessage ==
  ASSUME CoreType, NEW type, NEW tid, NEW format, NEW remaining, NEW body,
         NEW n \in Nat, NEW codes, DOMAIN codes = 1 .. n,
         Encode(type, tid, format, remaining, body, codes)
  PROVE  \A i \in DOMAIN sent' :
           \/ sent'[i].type = type /\ sent'[i].remaining = remaining
           \/ sent'[i].type \in {"NONE", "ERROR_REPORT"}
<1> DEFINE m == Message(type, tid, format, remaining, body)
           reports == Reports(format, codes)
           S == { reports[i] : i \in 1 .. n } \cup {m}
<1>1. reports \in [1 .. n -> S]
  BY DEF Reports
<1>2. reports \in Seq(S)
  BY <1>1, SeqDef
<1>3. <<m>> \in Seq(S)
  OBVIOUS
<1>4. sent' \in Seq(S)
  BY <1>2, <1>3, ConcatProperties DEF Encode, Report
<1>5. \A x \in S : x = m \/ x.type \in {"NONE", "ERROR_REPORT"}
  <2>1. \A i \in 1 .. n : reports[i].type \in {"NONE", "ERROR_REPORT"}
    BY DEF Reports, CoreType, ErrorReport, Message
  <2>2. QED BY <2>1
<1>6. m.type = type /\ m.remaining = remaining
  BY DEF Message
<1>7. \A i \in DOMAIN sent' : sent'[i] \in S
  <2> HIDE DEF S
  <2>1. QED BY <1>4, LenProperties, ElementOfSeq
<1>8. QED BY <1>5, <1>6, <1>7

LEMMA NoErrors == \E n \in Nat : DOMAIN <<>> = 1 .. n
<1>1. DOMAIN <<>> = 1 .. 0 /\ 0 \in Nat
  OBVIOUS
<1>2. QED BY <1>1

LEMMA ErrorsOfRead ==
  ASSUME NEW values, IsSequence(values)
  PROVE  \E n \in Nat : DOMAIN ReadErrors(values) = 1 .. n
<1> DEFINE unread == { i \in DOMAIN values : values[i].value = Unset }
<1>1. IsFiniteSet(1 .. Len(values)) /\ DOMAIN values = 1 .. Len(values)
  BY LenProperties, FS_Interval DEF IsSequence
<1>2. IsFiniteSet(unread)
  BY <1>1, FS_Subset
<1>3. Cardinality(unread) \in Nat
  BY <1>2, FS_CardinalityType
<1>4. DOMAIN ReadErrors(values) = 1 .. Cardinality(unread)
  BY DEF ReadErrors, InOrder
<1>5. QED BY <1>3, <1>4

LEMMA CountOfExtensions ==
  ASSUME NEW ids \in Lists
  PROVE  ExCount(ids) \in Count /\ (ids = <<>> => ExCount(ids) = Len(ExOwner))
<1> DEFINE pairs == { p \in (DOMAIN ids) \X (DOMAIN ExOwner) : ExOwner[p[2]] = ids[p[1]] }
<1>1. /\ ids \in Seq(Nat) /\ DOMAIN ids = 1 .. Len(ids) /\ Len(ids) \in Nat
      /\ DOMAIN ExOwner = 1 .. Len(ExOwner) /\ Len(ExOwner) \in Nat
  BY ParameterAssumption, LenProperties
<1>2. IsFiniteSet(DOMAIN ids) /\ IsFiniteSet(DOMAIN ExOwner)
  BY <1>1, FS_Interval
<1>3. IsFiniteSet((DOMAIN ids) \X (DOMAIN ExOwner))
  BY <1>2, FS_Product
<1>4. IsFiniteSet(pairs)
  BY <1>3, FS_Subset
<1>5. Cardinality(pairs) \in Nat
  BY <1>4, FS_CardinalityType
<1>6. ExCount(ids) < Counts /\ Counts \in Nat
  BY CountAssumption, ParameterAssumption
<1>7. QED BY <1>1, <1>5, <1>6 DEF ExCount, Count

-----------------------------------------------------------------------------
(* Steps that leave the answer begun last alone, or give it up.             *)

(* What a message of the step announces is what the client is then owed.    *)
Announces ==
  \A i \in DOMAIN sent' :
    LET m == sent'[i]
    IN  received' # received /\ m.type = received'.type /\ Answerable' =>
          /\ Len(received'.items) + m.remaining = Owed'
          /\ m.remaining > 0 => continued_message_type' = m.type

LEMMA NothingSent == ASSUME Silent PROVE Announces
  BY DEF Silent, Announces

Quiet ==
  /\ UNCHANGED <<requested, requested_index, exVars, received>>
  /\ \/ continued_message_type' = INVALID
     \/ UNCHANGED <<continued_message_type, num_remaining_objects, store>>
     \/ Denied /\ UNCHANGED continued_message_type

LEMMA QuietParamInv == ASSUME ParamInv, CoreType', Quiet PROVE ParamInv'
<1>1. ParamType' /\ AnswersFollowTheRequest'
  BY DEF ParamInv, Quiet, ParamType, Denied, Withdrawn, Answer, AnswersFollowTheRequest, Asked,
         AskedBy, WholeTable, Table
<1>2. CASE continued_message_type' = INVALID
  BY <1>1, <1>2 DEF ParamInv, ListIndex, ExtensionIndex, ReadIsSnapshot, INVALID
<1>3. CASE UNCHANGED <<continued_message_type, num_remaining_objects, store>>
  BY <1>1, <1>3 DEF ParamInv, Quiet, exVars, ListIndex, ExtensionIndex, ReadIsSnapshot, Asked,
                    AskedBy, WholeTable, Table, Denied
<1>4. CASE Denied /\ UNCHANGED continued_message_type
  BY <1>1, <1>4 DEF ParamInv, Quiet, ListIndex, ExtensionIndex, ReadIsSnapshot, Denied
<1>5. QED BY <1>2, <1>3, <1>4 DEF Quiet

(* Nothing is said of the answer of a transaction that has been denied.     *)
LEMMA WithdrawnParamInv ==
  ASSUME ParamInv, CoreType', received' = Withdrawn, requested' \in Lists,
         requested_index' \in Nat,
         continued_message_type' \in Discoveries \cup {INVALID}
  PROVE  ParamInv'
<1>1. received' = Withdrawn /\ received'.type = "DENIED"
  BY DEF Withdrawn, Answer
<1>2. Denied'
  BY <1>1 DEF Denied
<1>3. ParamType'
  BY <1>1, <1>2, ParameterAssumption DEF ParamType, Withdrawn, Answer
<1>4. QED
  BY <1>1, <1>2, <1>3 DEF ParamInv, ListIndex, ExtensionIndex, AnswersFollowTheRequest, ReadIsSnapshot

(* A call that is denied loses the list.                                    *)
LEMMA ForgetParamInv ==
  ASSUME ParamInv, CoreType', Forget, requested_index' \in Nat,
         continued_message_type' \in Discoveries \cup {INVALID}
  PROVE  ParamInv'
  BY WithdrawnParamInv, ParameterAssumption DEF Forget

(* The types after a prompt that begins nothing.                            *)
LEMMA PromptCore ==
  ASSUME CoreType, AtPrompt, prompt' = NoPrompt, phase' = "idle", KeepContinued,
         num_remaining_objects' \in Count,
         notification_buffer'.type \in {"NONE", "ERROR_REPORT"}
  PROVE  /\ CoreType'
         /\ \/ continued_message_type' = INVALID
            \/ Denied /\ ~crcb_access_granted /\ UNCHANGED continued_message_type
<1>1. \/ continued_message_type' = INVALID
      \/ Denied /\ ~crcb_access_granted /\ UNCHANGED continued_message_type
  BY PromptMeansNothingContinued DEF KeepContinued
<1>2. QED BY <1>1 DEF CoreType, KeepContinued

LEMMA CoreProcessQuiet ==
  ASSUME CoreType, CoreProcess, UNCHANGED paramVars PROVE CoreType' /\ Quiet
<1>1. CASE handle_ping
  <2>1. Dispatch("PING") /\ KeepContinued /\ num_remaining_objects' = 0
    BY <1>1 DEF handle_ping, Respond
  <2>2. notification_buffer'.type \in {"NONE", "ERROR_REPORT"}
    BY <1>1, RespondBuffer, SilentBuffer DEF handle_ping
  <2>3. QED BY <2>1, <2>2, PromptCore, CountIs DEF Dispatch, Quiet, paramVars
<1>2. CASE handle_get_device_info
  <2>1. Dispatch("GET_DEVICE_INFO") /\ KeepContinued /\ num_remaining_objects' = 0
    BY <1>2 DEF handle_get_device_info, Respond
  <2>2. notification_buffer'.type \in {"NONE", "ERROR_REPORT"}
    BY <1>2, RespondBuffer DEF handle_get_device_info
  <2>3. QED BY <2>1, <2>2, PromptCore, CountIs DEF Dispatch, Quiet, paramVars
<1>3. CASE handle_undecodable_header
  <2>1. /\ AtPrompt /\ prompt' = NoPrompt /\ phase' = "idle"
        /\ UNCHANGED <<continued_message_type, num_remaining_objects, owner>>
    BY <1>3 DEF handle_undecodable_header, continued
  <2>2. notification_buffer'.type \in {"NONE", "ERROR_REPORT"}
    BY <1>3, FailBuffer DEF handle_undecodable_header
  <2>3. QED BY <2>1, <2>2, PromptCore, CountIs DEF CoreType, KeepContinued, Quiet, paramVars
<1>4. CASE handle_undecodable_payload
  <2>1. Dispatch("BAD_PAYLOAD") /\ KeepContinued /\ prompt # NoPrompt
    BY <1>4 DEF handle_undecodable_payload, Dispatch, NoPrompt
  <2>2. num_remaining_objects' \in Count
    BY <1>4, <2>1, PromptFields DEF handle_undecodable_payload, CoreType
  <2>3. notification_buffer'.type \in {"NONE", "ERROR_REPORT"}
    BY <1>4, FailBuffer DEF handle_undecodable_payload
  <2>4. QED BY <2>1, <2>2, <2>3, PromptCore, CountIs DEF Dispatch, Quiet, paramVars
<1>5. CASE handle_unhandled_type
  <2>1. Dispatch("UNHANDLED") /\ KeepContinued /\ num_remaining_objects' = 0
    BY <1>5 DEF handle_unhandled_type
  <2>2. notification_buffer'.type \in {"NONE", "ERROR_REPORT"}
    BY <1>5, FailBuffer DEF handle_unhandled_type
  <2>3. QED BY <2>1, <2>2, PromptCore, CountIs DEF Dispatch, Quiet, paramVars
<1>6. CASE process_no_prompt
  <2>1. /\ AtPrompt /\ phase' = "idle"
        /\ UNCHANGED <<prompt, continued_message_type, num_remaining_objects, owner>>
    BY <1>6 DEF process_no_prompt, continued
  <2>2. notification_buffer'.type \in {"NONE", "ERROR_REPORT"}
    BY <1>6, SilentBuffer DEF process_no_prompt
  <2>3. phase' \in {"idle", "prompt"} /\ phase' # "prompt"
    BY <2>1
  <2>4. QED BY <2>1, <2>2, <2>3 DEF CoreType, Quiet, paramVars
<1>7. QED
  BY <1>1, <1>2, <1>3, <1>4, <1>5, <1>6 DEF CoreProcess, CoreHandlers

LEMMA ApplicationQuiet == ASSUME CoreType, Application PROVE CoreType' /\ Quiet
<1>1. UNCHANGED paramVars
  BY DEF Application
<1>2. /\ phase = "idle" /\ phase' = "idle"
      /\ prompt' \in ParameterPrompts \cup {NoPrompt}
      /\ \/ UNCHANGED <<continued_message_type, num_remaining_objects>>
         \/ continued_message_type' = INVALID /\ num_remaining_objects' = 0
      /\ UNCHANGED notification_buffer
  <2>1. CASE cr_store_coded_prompt(ParameterPrompts)
    BY <2>1 DEF cr_store_coded_prompt, continued, Idle, Silent, buffers
  <2>2. CASE set_connected
    BY <2>2 DEF set_connected, EndContinued, CoreType, Idle, Silent, buffers
  <2>3. CASE set_disconnected
    BY <2>3 DEF set_disconnected, continued, CoreType, Idle, Silent, buffers
  <2>4. CASE cr_get_coded_response_buffer
    BY <2>4 DEF cr_get_coded_response_buffer, continued, CoreType, Idle
  <2>5. CASE revoke_access
    BY <2>5 DEF revoke_access, continued, CoreType, Idle, Silent, buffers
  <2>6. QED BY <2>1, <2>2, <2>3, <2>4, <2>5 DEF Application, CoreApplication
<1>3. CoreType'
  BY <1>2, CountIs DEF CoreType
<1>4. QED BY <1>1, <1>2, <1>3 DEF Quiet, paramVars

(* The denied calls, of a prompt and of what is continued.                  *)
LEMMA DiscoveryDeniedStep == ASSUME ParamInv, discovery_denied PROVE ParamInv' /\ Announces
<1>1. /\ AtPrompt /\ prompt' = NoPrompt /\ phase' = "idle" /\ ~crcb_access_granted
      /\ num_remaining_objects' = 0 /\ Silent /\ KeepContinued /\ Forget
      /\ requested_index' = requested_index
  BY DEF discovery_denied, Dispatch
<1>2. CoreType /\ ParamType
  BY DEF ParamInv
<1>3. CoreType'
  BY <1>1, <1>2, CountIs, SilentBuffer DEF CoreType, KeepContinued
<1>4. continued_message_type' \in Discoveries \cup {INVALID} /\ requested_index' \in Nat
  BY <1>1, <1>2, PromptMeansNothingContinued DEF KeepContinued, ParamType
<1>5. QED BY <1>1, <1>3, <1>4, ForgetParamInv, NothingSent

LEMMA ValuesDeniedQuiet == ASSUME CoreType, values_denied PROVE CoreType' /\ Quiet
<1>1. /\ prompt' = NoPrompt /\ phase' = "idle"
      /\ num_remaining_objects' = 0 /\ Silent /\ EndContinued /\ UNCHANGED paramVars
  BY DEF values_denied, Dispatch
<1>2. QED BY <1>1, SilentBuffer, CountIs DEF CoreType, EndContinued, Quiet, paramVars

LEMMA ContinuedDeniedStep ==
  ASSUME ParamInv, continue_discover_parameters_denied \/ continue_param_ex_denied
  PROVE  ParamInv' /\ Announces
<1>1. /\ continued_message_type \in Discoveries /\ KeepContinued
      /\ ~crcb_access_granted /\ NoMoreData /\ Forget
      /\ num_remaining_objects' \in {0, num_remaining_objects}
  BY DEF continue_discover_parameters_denied, continue_param_ex_denied, AtContinued, Discoveries
<1>2. requested_index' \in Nat
  <2>1. CASE continue_discover_parameters_denied
    <3>1. requested_index' \in IF Iterator = {} THEN 0 .. NumParams ELSE Iterator
      BY <2>1 DEF continue_discover_parameters_denied
    <3>2. Iterator \subseteq Nat
      BY DEF Iterator, Table, ParamInv, ParamType
    <3>3. QED BY <3>1, <3>2
  <2>2. CASE continue_param_ex_denied
    BY <2>2 DEF continue_param_ex_denied, ParamInv, ParamType
  <2>3. QED BY <2>1, <2>2
<1>3. CoreType'
  <2>1. Denied'
    BY <1>1 DEF Forget, Denied, Withdrawn, Answer
  <2>2. Silent /\ UNCHANGED <<link, prompt>> /\ phase' = "prompt" /\ CoreType
    BY <1>1 DEF NoMoreData, ParamInv
  <2>3. notification_buffer'.type \in {"NONE", "ERROR_REPORT"}
    BY <2>2, SilentBuffer
  <2>4. ~crcb_access_granted'
    BY <1>1, <2>2 DEF link, crcb_access_granted
  <2>5. QED BY <1>1, <2>1, <2>2, <2>3, <2>4, CountIs DEF CoreType, KeepContinued
<1>4. continued_message_type' \in Discoveries \cup {INVALID}
  BY <1>1 DEF KeepContinued
<1>5. QED BY <1>1, <1>2, <1>3, <1>4, ForgetParamInv, NothingSent DEF NoMoreData

LEMMA WriteQuiet == ASSUME CoreType, pvtCrParam_write_param PROVE CoreType' /\ Quiet
<1>1. /\ AtPrompt /\ prompt' = NoPrompt /\ phase' = "idle" /\ KeepContinued
      /\ UNCHANGED <<requested, requested_index, exVars, received>>
  BY DEF pvtCrParam_write_param, Dispatch
<1>2. /\ num_remaining_objects' = 0
      /\ \/ \E codes, rval : Fail(codes, rval)
         \/ Respond("WRITE_PARAMETERS", 0, 0, <<>>)
  BY DEF pvtCrParam_write_param, Respond
<1>3. notification_buffer'.type \in {"NONE", "ERROR_REPORT"}
  BY <1>2, FailBuffer, RespondBuffer
<1>4. QED BY <1>1, <1>2, <1>3, PromptCore, CountIs DEF Quiet

-----------------------------------------------------------------------------
(* The messages of a discovery of parameters and of a read.                 *)

Listed == {"DISCOVER_PARAMETERS", "READ_PARAMETERS"}

(* The invariant but for what the items are.                                *)
IndexInv == CoreType /\ ParamType /\ ListIndex /\ ExtensionIndex

Known(ids) == \A i \in DOMAIN ids : ids[i] \in Table

(* The first message of a list leaves the index at what it sent, and counts *)
(* the rest; its sender continues it whenever it is full.                   *)
LEMMA FirstMessage ==
  ASSUME ParamInv, NEW type \in Listed, Dispatch(type), NEW size \in Nat \ {0},
         NEW ids, ids = prompt.arg.ids, NEW asked, asked = AskedBy(ids),
         NEW chunk, chunk = Chunk(asked, 0, size),
         NEW items, IsSequence(items), Len(items) <= Len(chunk),
         Known(ids) => Len(items) = Len(chunk),
         crcb_access_granted,
         NEW codes, NEW n \in Nat, DOMAIN codes = 1 .. n,
         Respond(type, Len(asked) - Len(items), items, codes),
         Begin(type, ids, Len(items) = size),
         requested' = ids, requested_index' = Len(items),
         received' = Answer(type, items)
  PROVE  IndexInv' /\ Announces
<1>1. CoreType /\ AtPrompt /\ prompt # NoPrompt /\ prompt.type = type
      /\ prompt' = NoPrompt /\ phase' = "idle"
  BY DEF ParamInv, Dispatch, NoPrompt, Listed
<1>2. ids \in Lists
  BY <1>1, PromptFields DEF Listed, Lasting
<1>3. asked \in Seq(Nat) /\ Len(asked) \in Nat /\ Len(asked) < Counts
  BY <1>2, AskedIsSequence, CountAssumption
<1>4. Len(chunk) \in Nat /\ Len(chunk) = IF size < Len(asked) THEN size ELSE Len(asked)
  BY <1>3, FirstChunk
<1>5. Len(items) \in Nat /\ Len(items) <= Len(chunk)
  BY LenProperties DEF IsSequence
<1>6. /\ num_remaining_objects' = Len(asked) - Len(items)
      /\ num_remaining_objects' \in Nat /\ num_remaining_objects' \in Count
  <2>1. num_remaining_objects' = Len(asked) - Len(items)
    BY DEF Respond
  <2>2. Counts \in Nat /\ (size < Len(asked) \/ Len(chunk) = Len(asked))
    BY <1>4, ParameterAssumption
  <2>3. Len(items) <= Len(asked)
    BY <1>3, <1>4, <1>5, <2>2
  <2>4. QED BY <1>3, <1>5, <2>1, <2>2, <2>3 DEF Count
<1>7. continued_message_type' \in {INVALID, type}
  BY <1>1, PromptMeansNothingContinued DEF Begin, BeginContinued, KeepContinued
<1>8. received'.type = type /\ received'.items = items /\ received' = Answer(type, items)
  BY DEF Answer
<1>9. Asked' = asked
  BY DEF Asked, AskedBy, WholeTable, Table
<1>10. notification_buffer'.type \in {"NONE", "ERROR_REPORT"}
  BY <1>1, RespondBuffer
<1>11. CoreType'
  BY <1>1, <1>6, <1>7, <1>10 DEF CoreType, Listed, Lasting
<1>12. ParamType'
  BY <1>2, <1>5, <1>8 DEF ParamType, Denied, Answer, Listed, Lasting
<1>13. ListIndex' /\ ExtensionIndex'
  BY <1>3, <1>5, <1>6, <1>7, <1>8, <1>9 DEF ListIndex, ExtensionIndex, Listed, INVALID
<1>14. Announces
  <2> SUFFICES ASSUME NEW i \in DOMAIN sent', sent'[i].type = type, Answerable'
               PROVE  /\ Len(items) + sent'[i].remaining = Owed'
                      /\ sent'[i].remaining > 0 => continued_message_type' = type
    BY <1>8 DEF Announces
  <2>1. sent'[i].remaining = Len(asked) - Len(items)
    BY <1>1, SentWithMessage DEF Respond, Listed
  <2>2. Owed' = Len(asked)
    BY <1>8, <1>9 DEF Owed, Listed
  <2>3. Len(items) = Len(chunk)
    BY DEF Answerable, Known
  <2>4. Len(items) < Len(asked) => Len(items) = size
    BY <1>3, <1>4, <2>3
  <2>5. Len(items) = size => continued_message_type' = type
    BY DEF Begin, BeginContinued
  <2>6. QED BY <1>3, <1>5, <2>1, <2>2, <2>4, <2>5
<1>15. QED BY <1>11, <1>12, <1>13, <1>14 DEF IndexInv

LEMMA StillOwed ==
  ASSUME NEW got \in Nat, NEW owed \in Nat, NEW all, got + owed = all, NEW n \in Nat, n <= owed
  PROVE  (got + n) + (owed - n) = all
  OBVIOUS

(* A continued message moves index and count by as much as it sends.        *)
LEMMA NextMessage ==
  ASSUME ParamInv, NEW type \in Listed, AtContinued(type), ~Denied, NEW size \in Nat \ {0},
         NEW items, IsSequence(items),
         Len(items) <= Len(Chunk(Asked, requested_index, size)),
         NEW ends \in BOOLEAN, Answerable => ~ends,
         NEW codes, NEW n \in Nat, DOMAIN codes = 1 .. n,
         ContinueReporting(type, num_remaining_objects - Len(items), ends, items, codes),
         requested' = requested, requested_index' = requested_index + Len(items),
         Receive(items)
  PROVE  IndexInv' /\ Announces
<1> DEFINE chunk == Chunk(Asked, requested_index, size)
           all   == received.items \o items
<1>1. CoreType /\ ParamType /\ ListIndex /\ continued_message_type = type
  BY DEF ParamInv, AtContinued
<1>2. /\ received.type = type /\ requested_index = Len(received.items)
      /\ requested_index + num_remaining_objects = Len(Asked)
      /\ requested_index \in Nat /\ num_remaining_objects \in Nat
      /\ IsSequence(received.items)
  BY <1>1, CountIs DEF ListIndex, Listed, ParamType, CoreType
<1>3. Asked \in Seq(Nat) /\ Len(Asked) \in Nat
  BY <1>1, AskedIsSequence DEF ParamType, Asked
<1>4. Len(chunk) \in Nat /\ Len(chunk) <= num_remaining_objects
  <2>1. /\ Len(chunk) \in Nat
        /\ Len(chunk) = IF size < num_remaining_objects THEN size ELSE num_remaining_objects
    BY <1>2, <1>3, ChunkLength
  <2> HIDE DEF chunk
  <2>2. QED BY <1>2, <2>1
<1>5. Len(items) \in Nat /\ Len(items) <= num_remaining_objects
  <2>1. Len(items) \in Nat
    BY LenProperties DEF IsSequence
  <2>2. QED BY <1>2, <1>4, <2>1
<1>6. IsSequence(all) /\ Len(all) = requested_index + Len(items)
  BY <1>2, Joined
<1>7. received' = Answer(type, all) /\ received'.type = type /\ received'.items = all
  <2>1. received # Withdrawn
    BY DEF Denied, Withdrawn, Answer
  <2>2. received' = [received EXCEPT !.items = all]
    BY <2>1 DEF Receive
  <2>3. received' = Answer(type, all)
    BY <1>1, <1>2, <2>2 DEF ParamType, Answer
  <2>4. QED BY <2>3 DEF Answer
<1>8. /\ num_remaining_objects' = num_remaining_objects - Len(items)
      /\ num_remaining_objects' \in Nat /\ num_remaining_objects' \in Count
  BY <1>1, <1>2, <1>5, ParameterAssumption DEF ContinueReporting, CoreType, Count
<1>9. /\ continued_message_type' \in {INVALID, type}
      /\ ~ends /\ num_remaining_objects' # 0 => continued_message_type' = type
  BY <1>1, <1>8 DEF ContinueReporting, EndContinued, KeepContinued
<1>10. Asked' = Asked
  BY DEF Asked, AskedBy, WholeTable, Table
<1>11. notification_buffer'.type \in {"NONE", "ERROR_REPORT"}
  BY <1>1, ReportBuffer DEF ContinueReporting, Encode
<1>12. CoreType'
  BY <1>1, <1>8, <1>9, <1>11 DEF CoreType, ContinueReporting, Listed, Lasting, AtContinued
<1>13. ParamType'
  BY <1>1, <1>2, <1>5, <1>6, <1>7 DEF ParamType, Denied, Answer, Listed, Lasting
<1>14. ListIndex' /\ ExtensionIndex'
  <2> HIDE DEF all
  <2>1. requested_index' = Len(received'.items)
    BY <1>6, <1>7
  <2>2. requested_index' + num_remaining_objects' = Len(Asked')
    <3>1. Len(Asked') = Len(Asked)
      BY <1>10
    <3>2. (requested_index + Len(items)) + (num_remaining_objects - Len(items)) = Len(Asked)
      BY <1>2, <1>5, StillOwed
    <3>3. QED BY <1>8, <3>1, <3>2
  <2>3. QED BY <1>7, <1>9, <2>1, <2>2 DEF ListIndex, ExtensionIndex, Listed, INVALID
<1>15. Announces
  <2> SUFFICES ASSUME NEW i \in DOMAIN sent', sent'[i].type = type, Answerable'
               PROVE  /\ Len(all) + sent'[i].remaining = Owed'
                      /\ sent'[i].remaining > 0 => continued_message_type' = type
    BY <1>7 DEF Announces
  <2>1. sent'[i].remaining = num_remaining_objects - Len(items)
    BY <1>1, SentWithMessage DEF ContinueReporting, Listed
  <2>2. Owed' = Len(Asked)
    BY <1>7, <1>10 DEF Owed, Listed
  <2>3. Answerable
    BY <1>2, <1>7 DEF Answerable, Listed
  <2> HIDE DEF all
  <2>4. Len(all) + sent'[i].remaining = Len(Asked)
    <3>1. (requested_index + Len(items)) + (num_remaining_objects - Len(items)) = Len(Asked)
      BY <1>2, <1>5, StillOwed
    <3>2. QED BY <1>6, <2>1, <3>1
  <2>5. QED BY <1>8, <1>9, <2>1, <2>2, <2>3, <2>4
<1>16. QED BY <1>12, <1>13, <1>14, <1>15 DEF IndexInv

(* A discovery of parameters begins.                                       *)
LEMMA DiscoverStep ==
  ASSUME ParamInv, pvtCrParam_discover_parameters PROVE ParamInv' /\ Announces
<1> DEFINE ids   == prompt.arg.ids
           asked == AskedBy(ids)
           size  == REACH_COUNT_PARAM_DESC_IN_RESPONSE
           chunk == Chunk(asked, 0, size)
           type  == "DISCOVER_PARAMETERS"
<1>1. /\ CoreType /\ Dispatch(type) /\ AtPrompt /\ prompt # NoPrompt
      /\ prompt.type = type /\ prompt' = NoPrompt /\ phase' = "idle"
      /\ crcb_access_granted
  BY DEF ParamInv, pvtCrParam_discover_parameters, Dispatch, NoPrompt
<1>2. ids \in Lists /\ size \in Nat \ {0}
  BY <1>1, PromptFields, ParameterAssumption DEF Lasting
<1>3. PICK infos \in Descriptions(chunk) :
        /\ requested' = ids
        /\ requested_index' = Len(infos)
        /\ received' = Answer(type, infos)
        /\ IF infos = <<>>
             THEN num_remaining_objects' = Len(asked) /\ Silent /\ KeepContinued
             ELSE /\ Respond(type, Len(asked) - Len(infos), infos, <<>>)
                  /\ Begin(type, ids, Len(infos) = size)
  BY DEF pvtCrParam_discover_parameters
<1>4. /\ asked \in Seq(Nat) /\ Len(asked) \in Nat /\ Len(asked) \in Count
      /\ (\A i \in DOMAIN ids : ids[i] \in Table) => \A i \in 1 .. Len(asked) : asked[i] \in Table
  <2>1. Len(asked) < Counts /\ Counts \in Nat
    BY <1>2, CountAssumption, ParameterAssumption
  <2>2. QED BY <1>2, <2>1, AskedIsSequence DEF Count
<1>5. /\ chunk \in Seq(Nat)
      /\ \A i \in 1 .. Len(chunk) : i \in 1 .. Len(asked) /\ chunk[i] = asked[i]
  BY <1>2, <1>4, FirstChunk
<1>6. /\ infos \in Seq(Table) /\ IsSequence(infos)
      /\ Len(infos) \in Nat /\ Len(infos) <= Len(chunk) /\ DOMAIN infos = 1 .. Len(infos)
      /\ \A i \in 1 .. Len(infos) : chunk[i] \in Table => infos[i] = chunk[i]
      /\ (\A i \in 1 .. Len(chunk) : chunk[i] \in Table) => Len(infos) = Len(chunk)
  <2> HIDE DEF chunk
  <2>1. infos \in Seq(Table)
    BY <1>5, DescriptionsOfChunk
  <2>2. QED BY <1>5, <2>1, DescriptionsOfChunk, SequenceOf, LenProperties
<1>7. received'.type = type /\ received'.items = infos /\ Asked' = asked
  BY <1>3 DEF Answer, Asked, AskedBy, WholeTable, Table
<1>8. AnswersFollowTheRequest' /\ ReadIsSnapshot'
  <2>1. \A i \in DOMAIN infos : asked[i] \in Table => infos[i] = asked[i]
    <3> HIDE DEF chunk, asked
    <3>1. Len(chunk) \in Nat
      BY <1>5, LenProperties
    <3>2. QED BY <1>5, <1>6, <3>1
  <2>2. QED BY <1>7, <2>1 DEF AnswersFollowTheRequest, ReadIsSnapshot
<1>9. IndexInv' /\ Announces
  <2>1. CASE infos = <<>>
    <3>1. num_remaining_objects' = Len(asked) /\ Silent /\ KeepContinued
      BY <1>3, <2>1
    <3>2. CoreType' /\ continued_message_type' = INVALID
      BY <1>1, <1>4, <3>1, SilentBuffer, PromptCore
    <3>3. ParamType'
      BY <1>2, <1>3, <1>6, <1>7 DEF ParamType, Denied, Answer, Lasting
    <3>4. ListIndex' /\ ExtensionIndex'
      BY <3>2 DEF ListIndex, ExtensionIndex, INVALID
    <3>5. QED BY <3>1, <3>2, <3>3, <3>4, NothingSent DEF IndexInv
  <2>2. CASE infos # <<>>
    <3>1. /\ Respond(type, Len(asked) - Len(infos), infos, <<>>)
          /\ Begin(type, ids, Len(infos) = size)
      BY <1>3, <2>2
    <3>2. Known(ids) => Len(infos) = Len(chunk)
      <4> HIDE DEF chunk, asked, ids
      <4>1. QED BY <1>4, <1>5, <1>6 DEF Known
    <3>3. /\ type \in Listed /\ 0 \in Nat /\ ids = prompt.arg.ids
          /\ asked = AskedBy(ids) /\ chunk = Chunk(asked, 0, size)
      BY DEF Listed
    <3> DEFINE none == <<>>
    <3>4. PICK n \in Nat : DOMAIN none = 1 .. n
      BY NoErrors
    <3>5. Respond(type, Len(asked) - Len(infos), infos, none)
      BY <3>1
    <3> HIDE DEF type, size, ids, asked, chunk, none
    <3>6. /\ type \in Listed /\ Dispatch(type) /\ crcb_access_granted /\ size \in Nat \ {0}
          /\ ids = prompt.arg.ids /\ asked = AskedBy(ids) /\ chunk = Chunk(asked, 0, size)
      BY <1>1, <1>2, <3>3
    <3>7. /\ IsSequence(infos) /\ Len(infos) <= Len(chunk)
          /\ Known(ids) => Len(infos) = Len(chunk)
      BY <1>6, <3>2
    <3>8. Begin(type, ids, Len(infos) = size)
      BY <3>1
    <3>9. requested' = ids /\ requested_index' = Len(infos) /\ received' = Answer(type, infos)
      BY <1>3
    <3>10. QED
      BY <3>4, <3>5, <3>6, <3>7, <3>8, <3>9, FirstMessage
  <2>3. QED BY <2>1, <2>2
<1>10. QED BY <1>8, <1>9 DEF IndexInv, ParamInv

(* A read begins.                                                           *)
LEMMA ReadStep ==
  ASSUME ParamInv, pvtCrParam_read_param PROVE ParamInv' /\ Announces
<1> DEFINE ids   == prompt.arg.ids
           asked == AskedBy(ids)
           size  == REACH_COUNT_PARAM_READ_VALUES
           chunk == Chunk(asked, 0, size)
           type  == "READ_PARAMETERS"
<1>1. /\ CoreType /\ Dispatch(type) /\ prompt # NoPrompt /\ prompt.type = type
      /\ store' = store /\ crcb_access_granted
  BY DEF ParamInv, pvtCrParam_read_param, Dispatch, NoPrompt
<1>2. ids \in Lists /\ size \in Nat \ {0}
  BY <1>1, PromptFields, ParameterAssumption DEF Lasting
<1>3. PICK values \in Readings(chunk) :
        /\ requested' = ids
        /\ requested_index' = Len(values)
        /\ received' = Answer(type, values)
        /\ Respond(type, Len(asked) - Len(values), values, ReadErrors(values))
        /\ Begin(type, ids, Len(values) = size)
  BY DEF pvtCrParam_read_param
<1>4. asked \in Seq(Nat) /\ Len(asked) \in Nat
  BY <1>2, AskedIsSequence
<1>5. /\ chunk \in Seq(Nat) /\ Len(chunk) \in Nat
      /\ \A i \in 1 .. Len(chunk) : i \in 1 .. Len(asked) /\ chunk[i] = asked[i]
  BY <1>2, <1>4, FirstChunk
<1>6. /\ IsSequence(values) /\ Len(values) = Len(chunk)
      /\ \A i \in 1 .. Len(values) :
           /\ values[i].id = chunk[i]
           /\ values[i].value # Unset => values[i].value = store[values[i].id]
  <2> HIDE DEF chunk
  <2>1. QED BY <1>5, ReadingsOfChunk
<1>7. received'.type = type /\ received'.items = values /\ Asked' = asked
  BY <1>3 DEF Answer, Asked, AskedBy, WholeTable, Table
<1>8. DOMAIN values = 1 .. Len(values)
  BY <1>6, LenProperties DEF IsSequence
<1>9. AnswersFollowTheRequest' /\ ReadIsSnapshot'
  <2>1. \A i \in DOMAIN values : values[i].id = asked[i]
    <3> HIDE DEF chunk, asked
    <3>1. QED BY <1>5, <1>6, <1>8
  <2>2. \A i \in DOMAIN values :
          values[i].value # Unset => values[i].value = store'[values[i].id]
    BY <1>1, <1>6, <1>8
  <2>3. QED BY <1>7, <2>1, <2>2 DEF AnswersFollowTheRequest, ReadIsSnapshot, Unset
<1>10. IndexInv' /\ Announces
  <2>1. PICK n \in Nat : DOMAIN ReadErrors(values) = 1 .. n
    BY <1>6, ErrorsOfRead
  <2>2. /\ type \in Listed /\ Len(values) <= Len(chunk) /\ ids = prompt.arg.ids
        /\ asked = AskedBy(ids) /\ chunk = Chunk(asked, 0, size)
    BY <1>5, <1>6 DEF Listed
  <2> HIDE DEF type, size, ids, asked, chunk
  <2>3. QED BY <1>1, <1>2, <1>3, <1>6, <2>1, <2>2, FirstMessage
<1>11. QED BY <1>9, <1>10 DEF IndexInv, ParamInv

(* The items that the client has after one more message of a list.          *)
LEMMA MoreItems ==
  ASSUME ParamInv, NEW type \in Listed, continued_message_type = type, ~Denied,
         NEW size \in Nat \ {0}
  PROVE  LET chunk == Chunk(Asked, requested_index, size)
         IN  /\ chunk \in Seq(Nat) /\ Len(chunk) \in Nat
             /\ \A i \in 1 .. Len(chunk) :
                  chunk[i] = Asked[Len(received.items) + i]
                  /\ Len(received.items) + i \in 1 .. Len(Asked)
             /\ IsSequence(received.items) /\ received.type = type
             /\ requested_index = Len(received.items)
             /\ Len(chunk) = IF size < num_remaining_objects THEN size
                             ELSE num_remaining_objects
<1>1. /\ received.type = type /\ requested_index = Len(received.items)
      /\ requested_index + num_remaining_objects = Len(Asked)
      /\ requested_index \in Nat /\ num_remaining_objects \in Nat
      /\ IsSequence(received.items) /\ requested \in Lists
  BY CountIs DEF ParamInv, ListIndex, Listed, ParamType, CoreType
<1>2. Asked \in Seq(Nat) /\ Len(Asked) \in Nat
  BY <1>1, AskedIsSequence DEF Asked
<1>3. requested_index <= Len(Asked)
  BY <1>1, <1>2
<1> DEFINE chunk == Chunk(Asked, requested_index, size)
<1>4. /\ chunk \in Seq(Nat)
      /\ \A i \in 1 .. Len(chunk) :
           requested_index + i \in 1 .. Len(Asked) /\ chunk[i] = Asked[requested_index + i]
  BY <1>1, <1>2, <1>3, ChunkOfIds
<1>5. /\ Len(chunk) \in Nat
      /\ Len(chunk) = IF size < num_remaining_objects THEN size ELSE num_remaining_objects
  BY <1>1, <1>2, ChunkLength
<1>6. QED BY <1>1, <1>4, <1>5

(* What is left of a count that is not less than what is sent.              *)
LEMMA LeftIs ==
  ASSUME CoreType, NEW n \in Nat, n <= num_remaining_objects, NEW size \in Nat,
         requested = <<>> /\ n < size => n = num_remaining_objects
  PROVE  Left(n, size) = num_remaining_objects - n
<1>1. /\ num_remaining_objects \in Nat /\ num_remaining_objects - n \in 0 .. Counts - 1
      /\ Counts \in Nat \ {0}
  BY ParameterAssumption DEF CoreType, Count
<1>2. (num_remaining_objects - n) % Counts = num_remaining_objects - n
  BY <1>1
<1>3. QED BY <1>1, <1>2 DEF Left

LEMMA LeftTyped ==
  ASSUME CoreType, NEW n \in Nat, NEW size
  PROVE  Left(n, size) \in Count
<1>1. num_remaining_objects - n \in Int /\ Counts \in Nat \ {0}
  BY ParameterAssumption DEF CoreType, Count
<1>2. (num_remaining_objects - n) % Counts \in 0 .. Counts - 1
  BY <1>1
<1>3. QED BY <1>2, CountIs DEF Left, Count

(* An item is one that the client had, or one of the new.                   *)
LEMMA OldOrNew ==
  ASSUME NEW s, NEW t, IsSequence(s), IsSequence(t), NEW i \in DOMAIN (s \o t)
  PROVE  \/ i \in DOMAIN s /\ (s \o t)[i] = s[i]
         \/ \E j \in DOMAIN t : j \in 1 .. Len(t) /\ i = Len(s) + j /\ (s \o t)[i] = t[j]
<1>1. DOMAIN s = 1 .. Len(s) /\ DOMAIN t = 1 .. Len(t)
  BY LenProperties DEF IsSequence
<1>2. /\ Len(s) \in Nat /\ Len(t) \in Nat
      /\ i \in 1 .. Len(s) + Len(t)
      /\ \A k \in 1 .. Len(s) : (s \o t)[k] = s[k]
      /\ \A k \in 1 .. Len(t) : (s \o t)[Len(s) + k] = t[k]
  BY Joined
<1>3. CASE i \in 1 .. Len(s)
  BY <1>1, <1>2, <1>3
<1>4. CASE i \notin 1 .. Len(s)
  <2> DEFINE j == i - Len(s)
  <2>1. j \in 1 .. Len(t) /\ i = Len(s) + j
    BY <1>2, <1>4
  <2>2. QED BY <1>1, <1>2, <2>1
<1>5. QED BY <1>3, <1>4

(* A continued handler that has nothing more to send.                       *)
LEMMA NoMoreCore ==
  ASSUME CoreType, NoMoreData, EndContinued, num_remaining_objects' \in Count
  PROVE  CoreType' /\ continued_message_type' = INVALID /\ Announces
<1>1. Silent
  BY DEF NoMoreData
<1>2. QED BY <1>1, SilentBuffer, NothingSent DEF NoMoreData, EndContinued, CoreType

(* Or one that sends it.                                                    *)
LEMMA ReportingCore ==
  ASSUME CoreType, NEW type \in Lasting, AtContinued(type), NEW remaining \in Count,
         NEW ends, NEW items, NEW codes,
         ContinueReporting(type, remaining, ends, items, codes)
  PROVE  CoreType' /\ continued_message_type' \in {INVALID, type}
<1>1. notification_buffer'.type \in {"NONE", "ERROR_REPORT"}
  BY ReportBuffer DEF ContinueReporting, Encode
<1>2. continued_message_type' \in {INVALID, type}
  BY DEF AtContinued, ContinueReporting, EndContinued, KeepContinued
<1>3. phase' = "idle" /\ num_remaining_objects' \in Count /\ UNCHANGED prompt
  BY DEF AtContinued, ContinueReporting
<1>4. QED BY <1>1, <1>2, <1>3 DEF CoreType

(* A discovery of parameters that has been denied goes on.                  *)
LEMMA ContinueDeniedDiscoverStep ==
  ASSUME ParamInv, Denied, continue_discover_parameters PROVE ParamInv' /\ Announces
<1> DEFINE size  == REACH_COUNT_PARAM_DESC_IN_RESPONSE
           chunk == Chunk(Asked, requested_index, size)
           type  == "DISCOVER_PARAMETERS"
<1>1. /\ CoreType /\ ParamType /\ AtContinued(type) /\ continued_message_type = type
      /\ requested' = requested /\ received = Withdrawn
      /\ requested \in Lists /\ requested_index \in Nat
  BY DEF ParamInv, ParamType, continue_discover_parameters, AtContinued
<1>2. PICK infos \in Descriptions(chunk) :
        /\ requested_index' = requested_index + Len(infos)
        /\ Receive(infos)
        /\ IF infos = <<>>
             THEN NoMoreData /\ EndContinued /\ num_remaining_objects' = Left(Len(infos), size)
             ELSE ContinueReporting(type, Left(Len(infos), size),
                                    Len(infos) < Len(chunk), infos, <<>>)
  BY DEF continue_discover_parameters
<1>3. chunk \in Seq(Nat)
  BY <1>1, AskedIsSequence, ChunkTyped, ParameterAssumption DEF Asked
<1>4. Len(infos) \in Nat
  <2> HIDE DEF chunk
  <2>1. QED BY <1>3, DescriptionsOfChunk
<1>5. Left(Len(infos), size) \in Count /\ requested_index' \in Nat
  BY <1>1, <1>2, <1>4, LeftTyped
<1>6. received' = Withdrawn /\ received' = received
  BY <1>1, <1>2 DEF Receive
<1>7. CoreType' /\ continued_message_type' \in {INVALID, type}
  <2>1. CASE infos = <<>>
    BY <1>1, <1>2, <1>5, <2>1, NoMoreCore
  <2>2. CASE infos # <<>>
    <3> DEFINE left == Left(Len(infos), size)
               ends == Len(infos) < Len(chunk)
    <3>1. ContinueReporting(type, left, ends, infos, <<>>) /\ left \in Count /\ type \in Lasting
      BY <1>2, <1>5, <2>2 DEF Lasting
    <3> HIDE DEF left, ends, type, chunk
    <3>2. QED BY <1>1, <3>1, ReportingCore
  <2>3. QED BY <2>1, <2>2
<1>8. ParamInv'
  BY <1>1, <1>5, <1>6, <1>7, WithdrawnParamInv DEF Discoveries
<1>9. QED BY <1>6, <1>8 DEF Announces

(* A discovery of parameters goes on.                                       *)
LEMMA ContinueDiscoverStep ==
  ASSUME ParamInv, ~Denied, continue_discover_parameters PROVE ParamInv' /\ Announces
<1> DEFINE size  == REACH_COUNT_PARAM_DESC_IN_RESPONSE
           chunk == Chunk(Asked, requested_index, size)
           type  == "DISCOVER_PARAMETERS"
           old   == received.items
<1>1. /\ CoreType /\ AtContinued(type) /\ continued_message_type = type
      /\ requested' = requested /\ store' = store
  BY DEF ParamInv, continue_discover_parameters, AtContinued
<1>2. size \in Nat \ {0} /\ type \in Listed
  BY ParameterAssumption DEF Listed
<1>3. PICK infos \in Descriptions(chunk) :
        /\ requested_index' = requested_index + Len(infos)
        /\ Receive(infos)
        /\ IF infos = <<>>
             THEN NoMoreData /\ EndContinued /\ num_remaining_objects' = Left(Len(infos), size)
             ELSE ContinueReporting(type, Left(Len(infos), size),
                                    Len(infos) < Len(chunk), infos, <<>>)
  BY DEF continue_discover_parameters
<1>4. /\ chunk \in Seq(Nat) /\ Len(chunk) \in Nat
      /\ \A i \in 1 .. Len(chunk) : chunk[i] = Asked[Len(old) + i]
                                    /\ Len(old) + i \in 1 .. Len(Asked)
      /\ IsSequence(old) /\ received.type = type
      /\ requested_index = Len(old)
      /\ Len(chunk) = IF size < num_remaining_objects THEN size ELSE num_remaining_objects
  BY <1>1, <1>2, MoreItems
<1>5. /\ infos \in Seq(Table) /\ IsSequence(infos)
      /\ Len(infos) \in Nat /\ Len(infos) <= Len(chunk) /\ DOMAIN infos = 1 .. Len(infos)
      /\ \A i \in 1 .. Len(infos) : chunk[i] \in Table => infos[i] = chunk[i]
      /\ (\A i \in 1 .. Len(chunk) : chunk[i] \in Table) => Len(infos) = Len(chunk)
  <2> HIDE DEF chunk
  <2>1. infos \in Seq(Table)
    BY <1>4, DescriptionsOfChunk
  <2>2. QED BY <1>4, <2>1, DescriptionsOfChunk, SequenceOf, LenProperties
<1>6. /\ received' = Answer(type, old \o infos) /\ received'.type = type
      /\ received'.items = old \o infos /\ Asked' = Asked
  <2>1. received # Withdrawn
    BY DEF Denied, Withdrawn, Answer
  <2>2. QED BY <1>1, <1>3, <1>4, <2>1
            DEF Receive, ParamInv, ParamType, Answer, Asked, AskedBy, WholeTable, Table
<1>7. AnswersFollowTheRequest' /\ ReadIsSnapshot'
  <2> SUFFICES \A i \in DOMAIN (old \o infos) : Asked[i] \in Table => (old \o infos)[i] = Asked[i]
    BY <1>6 DEF AnswersFollowTheRequest, ReadIsSnapshot
  <2> TAKE i \in DOMAIN (old \o infos)
  <2>1. CASE i \in DOMAIN old /\ (old \o infos)[i] = old[i]
    BY <1>4, <2>1 DEF ParamInv, AnswersFollowTheRequest
  <2>2. ASSUME NEW j \in DOMAIN infos, j \in 1 .. Len(infos), i = Len(old) + j,
               (old \o infos)[i] = infos[j]
        PROVE  Asked[i] \in Table => (old \o infos)[i] = Asked[i]
    <3> HIDE DEF chunk
    <3>1. j \in 1 .. Len(chunk)
      BY <1>4, <1>5, <2>2
    <3>2. QED BY <1>4, <1>5, <2>2, <3>1
  <2>3. QED BY <1>4, <1>5, <2>1, <2>2, OldOrNew
<1>8. IndexInv' /\ Announces
  <2>1. CASE infos = <<>>
    <3>1. NoMoreData /\ EndContinued /\ num_remaining_objects' \in Count
      BY <1>1, <1>3, <1>5, <2>1, LeftTyped
    <3>2. CoreType' /\ continued_message_type' = INVALID /\ Announces
      BY <1>1, <3>1, NoMoreCore
    <3>3. IsSequence(received'.items)
      <4>1. IsSequence(old \o infos)
        BY <1>4, <1>5, Joined
      <4>2. QED BY <1>6, <4>1
    <3>4. ParamType'
      BY <1>1, <1>3, <1>4, <1>5, <1>6, <3>3 DEF ParamInv, ParamType, Denied, Answer, Lasting
    <3>5. QED BY <3>2, <3>4 DEF IndexInv, ListIndex, ExtensionIndex, INVALID
  <2>2. CASE infos # <<>>
    <3> DEFINE none == <<>>
               ends == Len(infos) < Len(chunk)
    <3>1. PICK n \in Nat : DOMAIN none = 1 .. n
      BY NoErrors
    <3>2. ContinueReporting(type, num_remaining_objects - Len(infos), ends, infos, none)
      <4>1. requested = <<>> => \A i \in 1 .. Len(Asked) : Asked[i] \in Table
        BY <1>1, AskedIsSequence DEF ParamInv, ParamType, Asked
      <4>2. requested = <<>> => Len(infos) = Len(chunk)
        <5> HIDE DEF chunk, old
        <5>1. QED BY <1>4, <1>5, <4>1
      <4>3. /\ Len(infos) <= num_remaining_objects
            /\ requested = <<>> /\ Len(infos) < size => Len(infos) = num_remaining_objects
        <5>1. num_remaining_objects \in Nat
          BY <1>1, CountIs DEF CoreType
        <5>2. size \in Nat /\ Len(chunk) <= num_remaining_objects
              /\ (Len(chunk) = size \/ Len(chunk) = num_remaining_objects)
          <6> HIDE DEF chunk, size
          <6>1. QED BY <1>2, <1>4, <5>1
        <5>3. Len(infos) \in Nat /\ Len(chunk) \in Nat /\ Len(infos) <= Len(chunk)
          BY <1>4, <1>5
        <5> HIDE DEF chunk, size
        <5>4. QED BY <4>2, <5>1, <5>2, <5>3
      <4>4. Left(Len(infos), size) = num_remaining_objects - Len(infos)
        BY <1>1, <1>2, <1>5, <4>3, LeftIs
      <4>5. QED BY <1>3, <2>2, <4>4
    <3>3. ends \in BOOLEAN
      OBVIOUS
    <3>4. Answerable => ~ends
      <4>1. ASSUME Answerable PROVE \A i \in 1 .. Len(Asked) : Asked[i] \in Table
        BY <1>1, <4>1, AskedIsSequence DEF ParamInv, ParamType, Asked, Answerable
      <4> HIDE DEF chunk, old
      <4>2. ASSUME Answerable PROVE \A i \in 1 .. Len(chunk) : chunk[i] \in Table
        BY <1>4, <4>1, <4>2
      <4>3. Answerable => Len(infos) = Len(chunk)
        BY <1>5, <4>2
      <4>4. QED BY <1>4, <4>3
    <3>5. /\ IsSequence(infos) /\ Len(infos) <= Len(Chunk(Asked, requested_index, size))
          /\ requested' = requested /\ requested_index' = requested_index + Len(infos)
          /\ Receive(infos)
      BY <1>1, <1>3, <1>5
    <3> HIDE DEF type, size, none, ends
    <3>6. QED
      BY <1>1, <1>2, <3>1, <3>2, <3>3, <3>4, <3>5, NextMessage
  <2>3. QED BY <2>1, <2>2
<1>9. QED BY <1>7, <1>8 DEF IndexInv, ParamInv

(* A read goes on.                                                          *)
LEMMA ContinueReadStep ==
  ASSUME ParamInv, continue_read_param PROVE ParamInv' /\ Announces
<1>0. ~Denied
  BY DEF continue_read_param, AtContinued, ParamInv, ParamType, Discoveries, INVALID
<1> DEFINE size  == REACH_COUNT_PARAM_READ_VALUES
           chunk == Chunk(Asked, requested_index, size)
           type  == "READ_PARAMETERS"
           old   == received.items
<1>1. /\ CoreType /\ AtContinued(type) /\ continued_message_type = type
      /\ requested' = requested /\ store' = store
  BY DEF ParamInv, continue_read_param, AtContinued
<1>2. size \in Nat \ {0} /\ type \in Listed
  BY ParameterAssumption DEF Listed
<1>3. PICK values \in Readings(chunk) :
        /\ requested_index' = requested_index + Len(values)
        /\ Receive(values)
        /\ IF values = <<>>
             THEN NoMoreData /\ EndContinued /\ num_remaining_objects' = Left(Len(values), size)
             ELSE ContinueReporting(type, Left(Len(values), size), FALSE, values,
                                    ReadErrors(values))
  BY DEF continue_read_param
<1>4. /\ chunk \in Seq(Nat) /\ Len(chunk) \in Nat
      /\ \A i \in 1 .. Len(chunk) : chunk[i] = Asked[Len(old) + i]
                                    /\ Len(old) + i \in 1 .. Len(Asked)
      /\ IsSequence(old) /\ received.type = type
      /\ requested_index = Len(old)
      /\ Len(chunk) = IF size < num_remaining_objects THEN size ELSE num_remaining_objects
  BY <1>0, <1>1, <1>2, MoreItems
<1>5. /\ IsSequence(values) /\ Len(values) = Len(chunk) /\ DOMAIN values = 1 .. Len(values)
      /\ \A i \in 1 .. Len(values) :
           /\ values[i].id = chunk[i]
           /\ values[i].value # Unset => values[i].value = store[values[i].id]
  <2> HIDE DEF chunk
  <2>1. IsSequence(values)
    BY <1>4, ReadingsOfChunk
  <2>2. QED BY <1>4, <2>1, ReadingsOfChunk, LenProperties DEF IsSequence
<1>6. /\ received' = Answer(type, old \o values) /\ received'.type = type
      /\ received'.items = old \o values /\ Asked' = Asked
  <2>1. received # Withdrawn
    BY <1>0 DEF Denied, Withdrawn, Answer
  <2>2. QED BY <1>1, <1>3, <1>4, <2>1
            DEF Receive, ParamInv, ParamType, Answer, Asked, AskedBy, WholeTable, Table
<1>7. \A i \in DOMAIN (old \o values) :
        LET v == (old \o values)[i]
        IN  v.id = Asked[i] /\ (v.value # Unset => v.value = store[v.id])
  <2> TAKE i \in DOMAIN (old \o values)
  <2>1. CASE i \in DOMAIN old /\ (old \o values)[i] = old[i]
    BY <1>1, <1>4, <2>1 DEF ParamInv, AnswersFollowTheRequest, ReadIsSnapshot
  <2>2. ASSUME NEW j \in DOMAIN values, j \in 1 .. Len(values), i = Len(old) + j,
               (old \o values)[i] = values[j]
        PROVE  LET v == (old \o values)[i]
               IN  v.id = Asked[i] /\ (v.value # Unset => v.value = store[v.id])
    <3> HIDE DEF chunk
    <3>1. j \in 1 .. Len(chunk)
      BY <1>5, <2>2
    <3>2. QED BY <1>4, <1>5, <2>2, <3>1
  <2>3. IsSequence(old) /\ IsSequence(values)
    BY <1>4, <1>5
  <2>4. QED BY <2>1, <2>2, <2>3, OldOrNew
<1>8. AnswersFollowTheRequest' /\ ReadIsSnapshot'
  BY <1>1, <1>6, <1>7 DEF AnswersFollowTheRequest, ReadIsSnapshot
<1>9. IndexInv' /\ Announces
  <2>0. Len(values) \in Nat
    BY <1>4, <1>5
  <2>1. CASE values = <<>>
    <3>1. NoMoreData /\ EndContinued /\ num_remaining_objects' \in Count
      BY <1>1, <1>3, <2>0, <2>1, LeftTyped
    <3>2. CoreType' /\ continued_message_type' = INVALID /\ Announces
      BY <1>1, <3>1, NoMoreCore
    <3>3. IsSequence(received'.items)
      <4>1. IsSequence(old \o values)
        BY <1>4, <1>5, Joined
      <4>2. QED BY <1>6, <4>1
    <3>4. ParamType'
      BY <1>1, <1>3, <1>4, <1>5, <1>6, <3>3 DEF ParamInv, ParamType, Denied, Answer, Lasting
    <3>5. QED BY <3>2, <3>4 DEF IndexInv, ListIndex, ExtensionIndex, INVALID
  <2>2. CASE values # <<>>
    <3> DEFINE errors == ReadErrors(values)
    <3>1. PICK n \in Nat : DOMAIN errors = 1 .. n
      BY <1>5, ErrorsOfRead
    <3>2. ContinueReporting(type, num_remaining_objects - Len(values), FALSE, values, errors)
      <4>1. num_remaining_objects \in Nat
        BY <1>1, CountIs DEF CoreType
      <4>2. /\ Len(values) <= num_remaining_objects
            /\ Len(values) < size => Len(values) = num_remaining_objects
        <5> HIDE DEF chunk, size
        <5>1. QED BY <1>2, <1>4, <1>5, <4>1
      <4>3. Left(Len(values), size) = num_remaining_objects - Len(values)
        BY <1>1, <1>2, <2>0, <4>2, LeftIs
      <4>4. QED BY <1>3, <2>2, <4>3
    <3>3. /\ IsSequence(values) /\ Len(values) <= Len(Chunk(Asked, requested_index, size))
          /\ requested' = requested /\ requested_index' = requested_index + Len(values)
          /\ Receive(values) /\ FALSE \in BOOLEAN /\ (Answerable => ~FALSE)
      BY <1>1, <1>3, <1>4, <1>5
    <3> HIDE DEF type, size, errors
    <3>4. QED
      BY <1>0, <1>1, <1>2, <3>1, <3>2, <3>3, NextMessage
  <2>3. QED BY <2>1, <2>2
<1>10. QED BY <1>8, <1>9 DEF IndexInv, ParamInv

(* or is denied, and ends.                                                  *)
LEMMA ContinueReadDeniedStep ==
  ASSUME ParamInv, continue_read_param_denied PROVE ParamInv' /\ Announces
<1>1. /\ NoMoreData /\ EndContinued /\ num_remaining_objects' \in Count
      /\ UNCHANGED paramVars /\ CoreType
  BY CountIs DEF continue_read_param_denied, ParamInv
<1>2. CoreType' /\ continued_message_type' = INVALID /\ Announces
  BY <1>1, NoMoreCore
<1>3. QED BY <1>1, <1>2, QuietParamInv DEF Quiet, paramVars

-----------------------------------------------------------------------------
(* The messages of a discovery of extensions.                               *)

(* One extension moves from the iterator to the client.                     *)
LEMMA OneMore ==
  ASSUME NEW exs, exs # <<>>, NEW got \in Nat, StillLeft(exs, got)
  PROVE  /\ NextOf(exs) = <<got + 1>>
         /\ StillLeft(After(exs), got + 1)
         /\ Len(After(exs)) = Len(exs) - 1
<1>1. exs \in Seq(Nat) /\ Len(exs) \in Nat \ {0} /\ exs[1] = got + 1
  BY EmptySeq DEF StillLeft
<1>2. Head(exs) = got + 1
  BY <1>1
<1>3. /\ Tail(exs) \in Seq(Nat) /\ Len(Tail(exs)) = Len(exs) - 1
      /\ \A i \in 1 .. Len(Tail(exs)) : Tail(exs)[i] = exs[i + 1]
  BY <1>1, HeadTailProperties
<1>4. \A i \in 1 .. Len(Tail(exs)) : Tail(exs)[i] = got + 1 + i
  BY <1>1, <1>3 DEF StillLeft
<1>5. QED BY <1>1, <1>2, <1>3, <1>4 DEF NextOf, After, StillLeft

LEMMA AllLeft == StillLeft(AllExtensions, 0)
<1>1. DOMAIN ExOwner = 1 .. Len(ExOwner) /\ Len(ExOwner) \in Nat
  BY ParameterAssumption, LenProperties
<1>2. AllExtensions \in [1 .. Len(ExOwner) -> Nat]
  BY <1>1 DEF AllExtensions
<1>3. AllExtensions \in Seq(Nat)
  BY <1>1, <1>2, SeqDef
<1>4. Len(AllExtensions) = Len(ExOwner)
  BY <1>1, <1>2, <1>3
<1>5. \A i \in 1 .. Len(AllExtensions) : AllExtensions[i] = 0 + i
  BY <1>1, <1>4 DEF AllExtensions
<1>6. QED BY <1>1, <1>3, <1>4, <1>5 DEF StillLeft

LEMMA NextIsSequence == ASSUME NEW exs PROVE IsSequence(NextOf(exs))
<1>1. CASE exs = <<>>
  BY <1>1, EmptySeq DEF NextOf, IsSequence
<1>2. CASE exs # <<>>
  <2>1. <<Head(exs)>> \in Seq({Head(exs)})
    OBVIOUS
  <2>2. QED BY <1>2, <2>1, SequenceOf DEF NextOf
<1>3. QED BY <1>1, <1>2

(* A discovery of extensions begins.                                       *)
LEMMA DiscoverExStep ==
  ASSUME ParamInv, pvtCrParam_discover_parameters_ex PROVE ParamInv' /\ Announces
<1> DEFINE ids   == prompt.arg.ids
           total == ExCount(ids)
           exs   == IF ids = <<>> THEN AllExtensions ELSE extensions
           type  == "DISCOVER_PARAM_EX"
<1>1. /\ CoreType /\ AtPrompt /\ prompt # NoPrompt /\ prompt.type = type
      /\ prompt' = NoPrompt /\ phase' = "idle" /\ crcb_access_granted
  BY DEF ParamInv, pvtCrParam_discover_parameters_ex, Dispatch, NoPrompt
<1>2. /\ requested' = ids /\ requested_index' = 0
      /\ \/ /\ total = 0
            /\ Respond(type, 0, <<>>, <<>>) /\ KeepContinued
            /\ received' = Answer(type, <<>>)
         \/ /\ total # 0
            /\ Respond(type, total - 1, NextOf(exs), <<>>)
            /\ IF total > 1 THEN BeginContinued(type) ELSE KeepContinued
            /\ received' = Answer(type, NextOf(exs))
            /\ extensions' = After(exs)
  BY DEF pvtCrParam_discover_parameters_ex
<1>3. /\ ids \in Lists /\ total \in Nat /\ total \in Count
      /\ ids = <<>> => total = Len(ExOwner) /\ Len(exs) = total /\ StillLeft(exs, 0)
  <2>1. ids \in Lists
    BY <1>1, PromptFields DEF Lasting
  <2>2. Len(ExOwner) \in Nat /\ 0 + Len(AllExtensions) = Len(ExOwner) /\ Len(AllExtensions) \in Nat
    BY AllLeft, ParameterAssumption, LenProperties DEF StillLeft
  <2>3. total \in Nat /\ total \in Count /\ (ids = <<>> => total = Len(ExOwner))
    BY <2>1, CountOfExtensions, CountIs
  <2>4. QED BY <2>1, <2>2, <2>3, AllLeft
<1>4. ids = <<>> /\ total # 0 => /\ NextOf(exs) = <<1>> /\ StillLeft(After(exs), 1)
                                 /\ Len(After(exs)) = total - 1
  <2> HIDE DEF exs, ids, total
  <2>1. ASSUME ids = <<>>, total # 0
        PROVE  /\ NextOf(exs) = <<0 + 1>> /\ StillLeft(After(exs), 0 + 1)
               /\ Len(After(exs)) = Len(exs) - 1
    <3>1. StillLeft(exs, 0) /\ exs # <<>>
      BY <1>3, <2>1
    <3>2. QED BY <3>1, OneMore
  <2>2. QED BY <1>3, <2>1
<1> HIDE DEF ids, total, exs
<1>5. continued_message_type = INVALID
  BY <1>1, PromptMeansNothingContinued
<1>6. CASE total = 0
  <2>1. Respond(type, 0, <<>>, <<>>) /\ KeepContinued /\ received' = Answer(type, <<>>)
    BY <1>2, <1>6
  <2>2. CoreType' /\ continued_message_type' = INVALID
    <3>1. num_remaining_objects' = 0 /\ notification_buffer'.type \in {"NONE", "ERROR_REPORT"}
      BY <1>1, <2>1, RespondBuffer DEF Respond
    <3>2. QED BY <1>1, <2>1, <3>1, PromptCore, CountIs
  <2>3. received'.type = type /\ received'.items = <<>> /\ IsSequence(received'.items)
    <3>1. IsSequence(<<>>)
      BY EmptySeq DEF IsSequence
    <3>2. QED BY <2>1, <3>1 DEF Answer
  <2>4. ParamType'
    BY <1>2, <1>3, <2>1, <2>3 DEF ParamType, Denied, Answer, Lasting
  <2>5. Announces
    <3> SUFFICES ASSUME NEW i \in DOMAIN sent', sent'[i].type = type, Answerable'
                 PROVE  Len(<<>>) + sent'[i].remaining = Owed' /\ sent'[i].remaining = 0
      BY <2>3 DEF Announces
    <3> DEFINE none == <<>>
    <3>1. PICK n \in Nat : DOMAIN none = 1 .. n
      BY NoErrors
    <3>2. Encode(type, prompt.tid, prompt.classic, 0, none, none)
      BY <2>1 DEF Respond
    <3>3. sent'[i].remaining = 0
      <4> HIDE DEF none
      <4>1. QED BY <1>1, <3>1, <3>2, SentWithMessage
    <3>4. requested' = <<>> /\ Owed' = Len(ExOwner)
      BY <2>3 DEF Owed, Answerable
    <3>5. Len(ExOwner) = 0
      BY <1>2, <1>3, <1>6, <3>4
    <3>6. QED BY <3>3, <3>4, <3>5
  <2>6. QED
    BY <1>2, <2>1, <2>2, <2>3, <2>4, <2>5 DEF ParamInv, ListIndex, ExtensionIndex,
       AnswersFollowTheRequest, ReadIsSnapshot, INVALID
<1>7. CASE total # 0
  <2>1. /\ Respond(type, total - 1, NextOf(exs), <<>>)
        /\ IF total > 1 THEN BeginContinued(type) ELSE KeepContinued
        /\ received' = Answer(type, NextOf(exs))
        /\ extensions' = After(exs)
    BY <1>2, <1>7
  <2>2. /\ num_remaining_objects' = total - 1 /\ num_remaining_objects' \in Nat
        /\ num_remaining_objects' \in Count
    BY <1>3, <1>7, <2>1, ParameterAssumption DEF Respond, Count
  <2>3. /\ continued_message_type' \in {INVALID, type}
        /\ continued_message_type' = type <=> num_remaining_objects' > 0
    <3>1. CASE total > 1
      BY <1>3, <2>1, <2>2, <3>1 DEF BeginContinued
    <3>2. CASE ~(total > 1)
      BY <1>3, <1>5, <1>7, <2>1, <2>2, <3>2 DEF KeepContinued, INVALID
    <3>3. QED BY <3>1, <3>2
  <2>4. CoreType'
    <3>1. notification_buffer'.type \in {"NONE", "ERROR_REPORT"}
      BY <1>1, <2>1, RespondBuffer
    <3>2. QED BY <1>1, <2>2, <2>3, <3>1 DEF CoreType, Lasting
  <2>5. /\ received'.type = type /\ received'.items = NextOf(exs) /\ IsSequence(received'.items)
    <3>1. received'.type = type /\ received'.items = NextOf(exs)
      BY <2>1 DEF Answer
    <3>2. QED BY <3>1, NextIsSequence
  <2>6. ParamType'
    BY <1>2, <1>3, <2>1, <2>5 DEF ParamType, Denied, Answer, Lasting
  <2>7. requested' = <<>> =>
          /\ received'.items = <<1>> /\ Len(received'.items) = 1
          /\ StillLeft(extensions', Len(received'.items)) /\ Len(extensions') = num_remaining_objects'
          /\ total = Len(ExOwner)
    <3> SUFFICES ASSUME requested' = <<>>
                 PROVE  /\ received'.items = <<1>> /\ Len(received'.items) = 1
                        /\ StillLeft(extensions', Len(received'.items))
                        /\ Len(extensions') = num_remaining_objects'
                        /\ total = Len(ExOwner)
      OBVIOUS
    <3>1. ids = <<>>
      BY <1>2
    <3>2. received'.items = <<1>>
      BY <1>4, <1>7, <2>5, <3>1
    <3>3. Len(<<1>>) = 1
      OBVIOUS
    <3>4. Len(received'.items) = 1
      BY <3>2, <3>3
    <3>5. StillLeft(extensions', 1) /\ Len(extensions') = total - 1
      BY <1>4, <1>7, <2>1, <3>1
    <3>6. StillLeft(extensions', Len(received'.items))
      BY <3>4, <3>5
    <3>7. QED BY <1>3, <2>2, <3>1, <3>2, <3>4, <3>5, <3>6
  <2>8. ListIndex' /\ ExtensionIndex'
    BY <2>3, <2>5, <2>7 DEF ListIndex, ExtensionIndex, INVALID
  <2>9. AnswersFollowTheRequest' /\ ReadIsSnapshot'
    BY <2>3, <2>5, <2>7 DEF AnswersFollowTheRequest, ReadIsSnapshot, INVALID
  <2>10. Announces
    <3> SUFFICES ASSUME NEW i \in DOMAIN sent', sent'[i].type = type, Answerable'
                 PROVE  /\ Len(received'.items) + sent'[i].remaining = Owed'
                        /\ sent'[i].remaining > 0 => continued_message_type' = type
      BY <2>5 DEF Announces
    <3> DEFINE none == <<>>
    <3>1. PICK n \in Nat : DOMAIN none = 1 .. n
      BY NoErrors
    <3>2. Encode(type, prompt.tid, prompt.classic, total - 1, NextOf(exs), none)
      BY <2>1 DEF Respond
    <3>3. sent'[i].remaining = total - 1
      <4> HIDE DEF none
      <4>1. QED BY <1>1, <3>1, <3>2, SentWithMessage
    <3>4. Owed' = Len(ExOwner) /\ requested' = <<>>
      BY <2>5 DEF Owed, Answerable
    <3>5. Len(received'.items) = 1 /\ total = Len(ExOwner)
      BY <2>7, <3>4
    <3>6. 1 + (total - 1) = Len(ExOwner)
      BY <1>3, <3>5
    <3>7. Len(received'.items) + sent'[i].remaining = Owed'
      BY <3>3, <3>4, <3>5, <3>6
    <3>8. sent'[i].remaining = num_remaining_objects'
      BY <2>2, <3>3
    <3>9. QED BY <2>3, <3>7, <3>8
  <2>11. QED BY <2>4, <2>6, <2>8, <2>9, <2>10 DEF ParamInv
<1>8. QED BY <1>6, <1>7

(* A continued message with the next extension, that of an iterator the     *)
(* invariant says nothing about when the request is a list.                 *)
LEMMA NextExtension ==
  ASSUME ParamInv, AtContinued("DISCOVER_PARAM_EX"), ~Denied, NEW exs,
         requested = <<>> => exs = extensions /\ exs # <<>>,
         SendExtension(exs), requested' = requested, requested_index' \in Nat
  PROVE  ParamInv' /\ Announces
<1> DEFINE type == "DISCOVER_PARAM_EX"
           old  == received.items
           all  == old \o NextOf(exs)
<1>1. /\ CoreType /\ ParamType /\ ExtensionIndex /\ continued_message_type = type
  BY DEF ParamInv, AtContinued
<1>2. /\ received.type = type /\ received = Answer(type, old) /\ IsSequence(old)
      /\ num_remaining_objects \in Nat /\ num_remaining_objects > 0
      /\ requested = <<>> =>
           StillLeft(extensions, Len(old)) /\ Len(extensions) = num_remaining_objects
  BY <1>1, CountIs DEF ExtensionIndex, ParamType, CoreType
<1>3. /\ ContinueReporting(type, num_remaining_objects - 1, FALSE, NextOf(exs), <<>>)
      /\ received' = Answer(type, all) /\ received'.type = type /\ received'.items = all
      /\ extensions' = After(exs)
  <2>1. received # Withdrawn
    BY DEF Denied, Withdrawn, Answer
  <2>2. received' = [received EXCEPT !.items = all]
    BY <2>1 DEF SendExtension, Receive
  <2>3. received' = Answer(type, all)
    BY <1>2, <2>2 DEF Answer
  <2>4. QED BY <2>3 DEF SendExtension, Answer
<1>4. IsSequence(all) /\ Len(all) = Len(old) + Len(NextOf(exs)) /\ Len(old) \in Nat
  BY <1>2, NextIsSequence, Joined
<1>5. requested = <<>> =>
        /\ NextOf(exs) = <<Len(old) + 1>> /\ Len(all) = Len(old) + 1
        /\ StillLeft(extensions', Len(all)) /\ Len(extensions') = num_remaining_objects - 1
        /\ Len(all) + (num_remaining_objects - 1) = Len(ExOwner)
  <2> HIDE DEF old
  <2> SUFFICES ASSUME requested = <<>>
               PROVE  /\ NextOf(exs) = <<Len(old) + 1>> /\ Len(all) = Len(old) + 1
                      /\ StillLeft(extensions', Len(all))
                      /\ Len(extensions') = num_remaining_objects - 1
                      /\ Len(all) + (num_remaining_objects - 1) = Len(ExOwner)
    OBVIOUS
  <2>1. exs # <<>> /\ StillLeft(exs, Len(old)) /\ Len(exs) = num_remaining_objects
    BY <1>2
  <2>2. /\ NextOf(exs) = <<Len(old) + 1>> /\ StillLeft(After(exs), Len(old) + 1)
        /\ Len(After(exs)) = Len(exs) - 1
    BY <1>4, <2>1, OneMore
  <2>3. Len(<<Len(old) + 1>>) = 1
    OBVIOUS
  <2>4. Len(NextOf(exs)) = 1
    BY <2>2, <2>3
  <2>5. Len(all) = Len(old) + 1
    BY <1>4, <2>4
  <2> HIDE DEF all
  <2>6. Len(old) + num_remaining_objects = Len(ExOwner)
    BY <2>1 DEF StillLeft
  <2>7. Len(all) + (num_remaining_objects - 1) = Len(ExOwner)
    BY <1>2, <1>4, <2>5, <2>6
  <2>8. StillLeft(extensions', Len(all)) /\ Len(extensions') = num_remaining_objects - 1
    BY <1>3, <2>1, <2>2, <2>5
  <2>9. QED BY <2>2, <2>5, <2>7, <2>8
<1>6. /\ num_remaining_objects' = num_remaining_objects - 1 /\ num_remaining_objects' \in Nat
      /\ num_remaining_objects' \in Count
  BY <1>1, <1>2, <1>3, ParameterAssumption DEF ContinueReporting, CoreType, Count
<1>7. /\ continued_message_type' \in {INVALID, type}
      /\ continued_message_type' = type <=> num_remaining_objects' > 0
  <2> DEFINE remaining == num_remaining_objects - 1
  <2>1. /\ IF FALSE \/ remaining = 0 THEN EndContinued ELSE KeepContinued
        /\ num_remaining_objects' = remaining /\ remaining \in Nat
    BY <1>3, <1>6 DEF ContinueReporting
  <2> HIDE DEF remaining
  <2>2. CASE remaining = 0
    <3>1. continued_message_type' = INVALID
      BY <2>1, <2>2 DEF EndContinued
    <3>2. QED BY <2>1, <2>2, <3>1 DEF INVALID
  <2>3. CASE remaining # 0
    <3>1. continued_message_type' = type
      BY <1>1, <2>1, <2>3 DEF KeepContinued
    <3>2. QED BY <2>1, <2>3, <3>1
  <2>4. QED BY <2>2, <2>3
<1>8. CoreType'
  <2>1. notification_buffer'.type \in {"NONE", "ERROR_REPORT"}
    BY <1>1, <1>3, ReportBuffer DEF ContinueReporting, Encode
  <2>2. QED BY <1>1, <1>3, <1>6, <1>7, <2>1 DEF CoreType, ContinueReporting, Lasting, AtContinued
<1>9. ParamType'
  BY <1>1, <1>3, <1>4 DEF ParamType, Denied, Answer, Lasting
<1>10. ListIndex' /\ ExtensionIndex'
  <2> HIDE DEF all
  <2>1. QED BY <1>3, <1>5, <1>6, <1>7 DEF ListIndex, ExtensionIndex, INVALID
<1>11. AnswersFollowTheRequest' /\ ReadIsSnapshot'
  <2> SUFFICES ASSUME requested = <<>> PROVE \A i \in DOMAIN all : all[i] = i
    BY <1>3, <1>7 DEF AnswersFollowTheRequest, ReadIsSnapshot, INVALID
  <2> TAKE i \in DOMAIN all
  <2>1. IsSequence(NextOf(exs))
    BY NextIsSequence
  <2>2. CASE i \in DOMAIN old /\ all[i] = old[i]
    BY <1>2, <2>2 DEF ParamInv, AnswersFollowTheRequest
  <2>3. ASSUME NEW j \in DOMAIN NextOf(exs), i = Len(old) + j, all[i] = NextOf(exs)[j]
        PROVE  all[i] = i
    <3>1. j = 1 /\ NextOf(exs)[1] = Len(old) + 1
      BY <1>5, <2>3
    <3>2. QED BY <2>3, <3>1
  <2>4. QED BY <1>2, <2>1, <2>2, <2>3, OldOrNew
<1>12. Announces
  <2> SUFFICES ASSUME NEW i \in DOMAIN sent', sent'[i].type = type, Answerable'
               PROVE  /\ Len(all) + sent'[i].remaining = Owed'
                      /\ sent'[i].remaining > 0 => continued_message_type' = type
    BY <1>3 DEF Announces
  <2> DEFINE none == <<>>
  <2>1. PICK n \in Nat : DOMAIN none = 1 .. n
    BY NoErrors
  <2>2. Encode(type, hdr, classic, num_remaining_objects - 1, NextOf(exs), none)
    BY <1>3 DEF ContinueReporting
  <2>3. sent'[i].remaining = num_remaining_objects - 1
    <3> HIDE DEF none
    <3>1. QED BY <1>1, <2>1, <2>2, SentWithMessage
  <2>4. Owed' = Len(ExOwner) /\ requested = <<>>
    BY <1>3 DEF Owed, Answerable
  <2>5. Len(all) + (num_remaining_objects - 1) = Len(ExOwner)
    BY <1>5, <2>4
  <2> HIDE DEF all
  <2>6. QED BY <1>6, <1>7, <2>3, <2>4, <2>5
<1>13. QED BY <1>8, <1>9, <1>10, <1>11, <1>12 DEF ParamInv

(* One of a discovery that has been denied.                                 *)
LEMMA NextDeniedExtension ==
  ASSUME ParamInv, Denied, AtExtension, NEW exs, SendExtension(exs),
         requested' = requested, requested_index' \in Nat
  PROVE  ParamInv' /\ Announces
<1> DEFINE type == "DISCOVER_PARAM_EX"
<1>1. /\ CoreType /\ received = Withdrawn /\ requested \in Lists /\ AtContinued(type)
      /\ num_remaining_objects - 1 \in Count
  BY ParameterAssumption DEF ParamInv, ParamType, CoreType, Count, AtExtension
<1>2. /\ ContinueReporting(type, num_remaining_objects - 1, FALSE, NextOf(exs), <<>>)
      /\ received' = Withdrawn /\ received' = received
  BY <1>1 DEF SendExtension, Receive
<1>3. CoreType' /\ continued_message_type' \in {INVALID, type}
  BY <1>1, <1>2, ReportingCore DEF Lasting
<1>4. ParamInv'
  BY <1>1, <1>2, <1>3, WithdrawnParamInv DEF Discoveries
<1>5. QED BY <1>2, <1>4 DEF Announces

(* It goes on with the next extension of the iterator.                      *)
LEMMA ContinueSameStep ==
  ASSUME ParamInv, continue_same_param_ex PROVE ParamInv' /\ Announces
<1>1. /\ AtExtension /\ extensions # <<>> /\ SendExtension(extensions)
      /\ requested' = requested /\ requested_index' = requested_index
  BY DEF continue_same_param_ex
<1>2. requested_index' \in Nat
  BY <1>1 DEF ParamInv, ParamType
<1>3. CASE Denied
  BY <1>1, <1>2, <1>3, NextDeniedExtension
<1>4. CASE ~Denied
  BY <1>1, <1>2, <1>4, NextExtension DEF AtExtension
<1>5. QED BY <1>3, <1>4

LEMMA ContinueNextStep ==
  ASSUME ParamInv, continue_next_param_ex PROVE ParamInv' /\ Announces
<1> DEFINE left == requested_index + 1 < Len(requested)
           next == requested[requested_index + 2]
           exs  == IF left /\ num_ex_this_pid = 0 THEN ExtensionsOf(next) ELSE <<>>
<1>1. /\ AtExtension /\ requested # <<>>
      /\ requested_index' = requested_index + 1 /\ requested' = requested
      /\ IF exs # <<>>
           THEN SendExtension(exs)
           ELSE /\ NoMoreData
                /\ EndContinued
                /\ num_remaining_objects' = IF left THEN num_remaining_objects ELSE 0
                /\ UNCHANGED <<exVars, received>>
  BY DEF continue_next_param_ex
<1>2. requested_index' \in Nat /\ CoreType /\ ParamType
  BY <1>1 DEF ParamInv, ParamType
<1> HIDE DEF exs
<1>3. CASE exs # <<>> /\ Denied
  BY <1>1, <1>2, <1>3, NextDeniedExtension
<1>4. CASE exs # <<>> /\ ~Denied
  BY <1>1, <1>2, <1>4, NextExtension DEF AtExtension
<1>5. CASE exs = <<>>
  <2>1. NoMoreData /\ EndContinued /\ num_remaining_objects' \in Count /\ received' = received
    BY <1>1, <1>2, <1>5, CountIs DEF CoreType
  <2>2. CoreType' /\ continued_message_type' = INVALID /\ Announces
    BY <1>2, <2>1, NoMoreCore
  <2>3. ParamType'
    BY <1>1, <1>2, <2>1, <2>2 DEF ParamType, Denied, Withdrawn, Answer
  <2>4. AnswersFollowTheRequest'
    BY <1>1, <2>1 DEF ParamInv, AnswersFollowTheRequest, Asked, AskedBy, WholeTable, Table
  <2>5. QED BY <2>2, <2>3, <2>4 DEF ParamInv, ListIndex, ExtensionIndex, ReadIsSnapshot, INVALID
<1>6. QED BY <1>3, <1>4, <1>5

LEMMA ExtensionsEndStep ==
  ASSUME ParamInv, continue_param_ex_ended PROVE ParamInv' /\ Announces
<1>1. /\ NoMoreData /\ EndContinued /\ num_remaining_objects' \in Count
      /\ UNCHANGED paramVars /\ CoreType
  BY DEF continue_param_ex_ended, ParamInv, CoreType
<1>2. CoreType' /\ continued_message_type' = INVALID /\ Announces
  BY <1>1, NoMoreCore
<1>3. QED BY <1>1, <1>2, QuietParamInv DEF Quiet, paramVars

-----------------------------------------------------------------------------
(* The theorems.                                                           *)

LEMMA InitParamInv == ASSUME Init PROVE ParamInv
<1>1. CoreType
  BY CountIs DEF Init, CoreInit, CoreType, NoMessage, Message
<1>2. received.type = "READ_PARAMETERS" /\ received.items = <<>> /\ requested = <<>>
  BY DEF Init, Answer
<1>3. IsSequence(received.items)
  <2>1. IsSequence(<<>>)
    BY EmptySeq DEF IsSequence
  <2>2. QED BY <1>2, <2>1
<1>4. ParamType
  BY <1>2, <1>3, ParameterAssumption DEF Init, Answer, ParamType, Denied, Lasting
<1>5. continued_message_type = INVALID
  BY DEF Init, CoreInit
<1>6. QED
  BY <1>1, <1>2, <1>4, <1>5 DEF ParamInv, ListIndex, ExtensionIndex, AnswersFollowTheRequest,
     ReadIsSnapshot, INVALID

LEMMA QuietAnnounces == ASSUME Quiet PROVE Announces
  BY DEF Quiet, Announces

LEMMA StepParamInv == ASSUME ParamInv, Next PROVE ParamInv' /\ Announces
<1>0. CoreType
  BY DEF ParamInv
<1>1. CASE CoreProcess /\ UNCHANGED paramVars
  BY <1>0, <1>1, CoreProcessQuiet, QuietParamInv, QuietAnnounces
<1>2. CASE discovery_denied
  BY <1>2, DiscoveryDeniedStep
<1>3. CASE values_denied
  BY <1>0, <1>3, ValuesDeniedQuiet, QuietParamInv, QuietAnnounces
<1>4. CASE pvtCrParam_discover_parameters
  BY <1>4, DiscoverStep
<1>5. CASE continue_discover_parameters
  BY <1>5, ContinueDiscoverStep, ContinueDeniedDiscoverStep
<1>6. CASE continue_discover_parameters_denied \/ continue_param_ex_denied
  BY <1>6, ContinuedDeniedStep
<1>7. CASE pvtCrParam_discover_parameters_ex
  BY <1>7, DiscoverExStep
<1>8. CASE continue_same_param_ex
  BY <1>8, ContinueSameStep
<1>9. CASE continue_next_param_ex
  BY <1>9, ContinueNextStep
<1>10. CASE continue_param_ex_ended
  BY <1>10, ExtensionsEndStep
<1>11. CASE pvtCrParam_read_param
  BY <1>11, ReadStep
<1>12. CASE continue_read_param
  BY <1>12, ContinueReadStep
<1>13. CASE continue_read_param_denied
  BY <1>13, ContinueReadDeniedStep
<1>14. CASE pvtCrParam_write_param
  BY <1>0, <1>14, WriteQuiet, QuietParamInv, QuietAnnounces
<1>15. CASE Application
  BY <1>0, <1>15, ApplicationQuiet, QuietParamInv, QuietAnnounces
<1>16. QED
  BY <1>1, <1>2, <1>3, <1>4, <1>5, <1>6, <1>7, <1>8, <1>9, <1>10, <1>11, <1>12, <1>13, <1>14, <1>15
     DEF Next, cr_process

LEMMA StutterParamInv == ASSUME ParamInv, UNCHANGED vars PROVE ParamInv'
<1>1. CoreType' /\ Quiet
  BY DEF ParamInv, vars, coreVars, link, continued, buffers, paramVars, CoreType, Quiet, Denied,
         crcb_access_granted
<1>2. QED BY <1>1, QuietParamInv

(* At every moment the index into the list is what the client has got and   *)
(* the count what it is owed, in the discovery or read in progress, unless  *)
(* a call of it was denied: only a discovery is then still continued.       *)
THEOREM ParamInvAlways == Spec => []ParamInv
<1>1. Init => ParamInv
  BY InitParamInv
<1>2. ParamInv /\ [Next]_vars => ParamInv'
  BY StepParamInv, StutterParamInv
<1>3. QED BY <1>1, <1>2, PTL DEF Spec

(* Over all the messages of a discovery or a read the client gets what it   *)
(* asked for, position by position, whatever fails meanwhile and however    *)
(* small the messages are, up to the first call that is denied.             *)
THEOREM AnswersAlwaysFollow == Spec => []AnswersFollowTheRequest
<1>1. ParamInv => AnswersFollowTheRequest
  BY DEF ParamInv
<1>2. QED BY <1>1, ParamInvAlways, PTL

(* A read of several messages gives the values of one moment: no write can  *)
(* come between two of them.                                               *)
THEOREM ReadsAreSnapshots == Spec => []ReadIsSnapshot
<1>1. ParamInv => ReadIsSnapshot
  BY DEF ParamInv
<1>2. QED BY <1>1, ParamInvAlways, PTL

(* Every message of a request that the table can answer announces exactly   *)
(* what the client has still to get, and goes on if that is something, as   *)
(* long as no call of the transaction has been denied.                      *)
THEOREM AnnouncementsAreKept == Spec => AnnouncedIsOwed
<1>1. ParamInv /\ [Next]_vars => [Announces]_vars
  BY StepParamInv
<1>2. QED BY <1>1, ParamInvAlways, PTL DEF Spec, AnnouncedIsOwed, Announces

-----------------------------------------------------------------------------
(* The types of what is kept and of what is sent.                          *)

AnswerTypes == {"PING", "GET_DEVICE_INFO"} \cup ParameterTypes

(* What these handlers report.                                              *)
Errors ==
  {"DECODING_FAILED", "NOT_IMPLEMENTED", "INVALID_PARAMETER", "READ_FAILED", "WRITE_FAILED"}

(* The header of what is continued is its client's.                         *)
HeaderTypes ==
  /\ connected \in BOOLEAN /\ key_valid \in BOOLEAN /\ classic \in BOOLEAN
  /\ key_presented \in BOOLEAN
  /\ hdr \in Tid \cup {0}
  /\ owner \in [tid: Tid \cup {0}, classic: BOOLEAN]
  /\ continued_message_type # INVALID => hdr \in Tid

BufferTypes ==
  /\ response_buffer = NoMessage \/ IsResponse(response_buffer)
  /\ notification_buffer = NoMessage \/ notification_buffer \in ErrorReports
  /\ \A i \in DOMAIN sent :
       sent[i] = NoMessage \/ IsResponse(sent[i]) \/ sent[i] \in ErrorReports

DataTypes ==
  /\ extensions \in Seq(DOMAIN ExOwner)
  /\ num_ex_this_pid \in 0 .. Len(ExOwner)
  /\ store \in [Table -> Values]
  /\ received.items \in Items(received.type)

TypeInv == ParamInv /\ HeaderTypes /\ BufferTypes /\ DataTypes

Typed == HeaderTypes' /\ BufferTypes'

LEMMA MessageIs ==
  ASSUME NEW type \in AnswerTypes, NEW tid \in Tid, NEW format \in BOOLEAN,
         NEW remaining \in Count, NEW body \in Items(type)
  PROVE  IsResponse(Message(type, tid, format, remaining, body))
<1> DEFINE m == Message(type, tid, format, remaining, body)
<1>1. /\ m.type = type /\ m.tid = tid /\ m.classic = format /\ m.remaining = remaining
      /\ m.body = body
  BY DEF Message
<1> HIDE DEF m
<1>2. m.body \in Items(m.type)
  BY <1>1
<1>3. IsResponse(m)
  BY <1>1, <1>2 DEF IsResponse, AnswerTypes, Count
<1>4. QED BY <1>3 DEF m

LEMMA ErrorIsReport == \A code \in Errors : ErrorReport(code) \in ErrorReports
  BY DEF Errors, ErrorReports

LEMMA ReportTypes ==
  ASSUME BufferTypes, NEW format, NEW codes \in Seq(Errors), NEW m,
         m = NoMessage \/ IsResponse(m), response_buffer' = m, Report(format, codes, <<m>>)
  PROVE  BufferTypes'
<1>1. /\ \A i \in DOMAIN sent' :
            \/ sent'[i] = m
            \/ sent'[i] = notification_buffer
            \/ \E code \in Errors : sent'[i] = ErrorReport(code)
      /\ \/ notification_buffer' = notification_buffer
         \/ \E code \in Errors : notification_buffer' = ErrorReport(code)
  BY ReportedIs
<1>2. notification_buffer' = NoMessage \/ notification_buffer' \in ErrorReports
  BY <1>1, ErrorIsReport DEF BufferTypes
<1>3. ASSUME NEW i \in DOMAIN sent'
      PROVE  sent'[i] = NoMessage \/ IsResponse(sent'[i]) \/ sent'[i] \in ErrorReports
  BY <1>1, ErrorIsReport DEF BufferTypes
<1>4. QED BY <1>2, <1>3 DEF BufferTypes

LEMMA EncodeTypes ==
  ASSUME BufferTypes, NEW type \in AnswerTypes, NEW tid \in Tid, NEW format \in BOOLEAN,
         NEW remaining \in Count, NEW body \in Items(type), NEW codes \in Seq(Errors),
         Encode(type, tid, format, remaining, body, codes)
  PROVE  BufferTypes'
<1> DEFINE m == Message(type, tid, format, remaining, body)
<1>1. response_buffer' = m /\ Report(format, codes, <<m>>)
  BY DEF Encode
<1>2. IsResponse(m)
  BY MessageIs
<1> HIDE DEF m
<1>3. QED BY <1>1, <1>2, ReportTypes

LEMMA RespondTypes ==
  ASSUME BufferTypes, prompt.tid \in Tid, prompt.classic \in BOOLEAN, num_remaining_objects' \in Count,
         NEW type \in AnswerTypes, NEW remaining, NEW body \in Items(type),
         NEW codes \in Seq(Errors), Respond(type, remaining, body, codes)
  PROVE  BufferTypes'
<1>1. PICK tid \in Tid, format \in BOOLEAN, left \in Count :
        tid = prompt.tid /\ format = prompt.classic /\ left = num_remaining_objects'
  OBVIOUS
<1>2. left = remaining /\ Encode(type, tid, format, left, body, codes)
  BY <1>1 DEF Respond
<1>3. QED BY <1>2, EncodeTypes

LEMMA FailTypes ==
  ASSUME BufferTypes, NEW codes \in Seq(Errors), NEW code \in Errors, Fail(codes, code)
  PROVE  BufferTypes'
<1>1. Append(codes, code) \in Seq(Errors)
  BY AppendProperties
<1>2. /\ Report(prompt.classic, Append(codes, code), <<response_buffer>>)
      /\ response_buffer' = response_buffer
  BY DEF Fail
<1>3. PICK format \in {prompt.classic}, m \in {response_buffer} : TRUE
  OBVIOUS
<1>4. PICK reported \in Seq(Errors) : reported = Append(codes, code)
  BY <1>1
<1>5. Report(format, reported, <<m>>) /\ m = response_buffer
  BY <1>2, <1>3, <1>4
<1>6. m = NoMessage \/ IsResponse(m)
  BY <1>5 DEF BufferTypes
<1>7. response_buffer' = m
  BY <1>2, <1>5
<1>8. QED BY <1>5, <1>6, <1>7, ReportTypes

LEMMA SilentTypes == ASSUME BufferTypes, Silent PROVE BufferTypes'
  BY DEF BufferTypes, Silent, buffers

(* A dispatched prompt has its client's header.                             *)
LEMMA PromptHeader ==
  ASSUME CoreType, prompt # NoPrompt PROVE prompt.tid \in Tid /\ prompt.classic \in BOOLEAN
<1>1. prompt \in ParameterPrompts
  BY DEF CoreType
<1>2. prompt.tid \in Tid /\ prompt.classic \in Formats
  BY <1>1 DEF ParameterPrompts, CorePrompts, Wire
<1>3. QED BY <1>2, CoreAssumption

LEMMA DispatchHeader ==
  ASSUME TypeInv, NEW type, type # "NONE", Dispatch(type),
         KeepContinued \/ EndContinued \/ \E t : BeginContinued(t),
         connected' \in BOOLEAN, key_valid' \in BOOLEAN, key_presented' \in BOOLEAN
  PROVE  prompt.tid \in Tid /\ prompt.classic \in BOOLEAN /\ HeaderTypes'
<1>1. CoreType
  BY DEF TypeInv, ParamInv
<1>2. prompt # NoPrompt
  BY DEF Dispatch, NoPrompt
<1>3. prompt.tid \in Tid /\ prompt.classic \in BOOLEAN
  BY <1>1, <1>2, PromptHeader
<1>4. owner' \in [tid: Tid \cup {0}, classic: BOOLEAN]
  <2>1. CASE KeepContinued
    BY <2>1 DEF TypeInv, HeaderTypes, KeepContinued
  <2>2. CASE \E t : BeginContinued(t)
    <3>1. owner' = [tid |-> prompt.tid, classic |-> prompt.classic]
      BY <2>2 DEF BeginContinued
    <3>2. PICK tid \in Tid, format \in BOOLEAN : tid = prompt.tid /\ format = prompt.classic
      BY <1>3
    <3>3. [tid |-> tid, classic |-> format] \in [tid: Tid \cup {0}, classic: BOOLEAN]
      OBVIOUS
    <3>4. QED BY <3>1, <3>2, <3>3
  <2>3. CASE EndContinued
    BY <2>3 DEF EndContinued, NoOwner
  <2>4. QED BY <2>1, <2>2, <2>3
<1>5. hdr' \in Tid /\ classic' \in BOOLEAN
  BY <1>3 DEF Dispatch
<1>6. QED BY <1>3, <1>4, <1>5 DEF HeaderTypes

(* The ways in which a prompt is answered.                                  *)
LEMMA Answering ==
  ASSUME TypeInv, num_remaining_objects' \in Count, NEW type, type # "NONE", Dispatch(type),
         UNCHANGED link, KeepContinued \/ EndContinued \/ \E t : BeginContinued(t),
         \/ Silent
         \/ \E codes \in Seq(Errors), code \in Errors : Fail(codes, code)
         \/ \E answer \in AnswerTypes : \E remaining : \E body \in Items(answer), codes \in Seq(Errors) :
              Respond(answer, remaining, body, codes)
  PROVE  Typed
<1>1. BufferTypes
  BY DEF TypeInv
<1>2. connected' \in BOOLEAN /\ key_valid' \in BOOLEAN /\ key_presented' \in BOOLEAN
  BY DEF TypeInv, HeaderTypes, link
<1>3. prompt.tid \in Tid /\ prompt.classic \in BOOLEAN /\ HeaderTypes'
  BY <1>2, DispatchHeader
<1>4. BufferTypes'
  BY <1>1, <1>3, SilentTypes, FailTypes, RespondTypes
<1>5. QED BY <1>3, <1>4 DEF Typed

LEMMA AnsweringWith ==
  ASSUME TypeInv, num_remaining_objects' \in Count, NEW type, type # "NONE", Dispatch(type),
         UNCHANGED link, KeepContinued \/ \E t : BeginContinued(t),
         NEW answer \in AnswerTypes, NEW remaining, NEW body \in Items(answer),
         NEW codes \in Seq(Errors), Respond(answer, remaining, body, codes)
  PROVE  Typed
  BY Answering

(* A continued answer has the header of its prompt.                         *)
LEMMA Continuing ==
  ASSUME TypeInv, CoreType', NEW type \in Lasting, AtContinued(type), NEW remaining, NEW ends,
         NEW body \in Items(type), NEW codes \in Seq(Errors),
         ContinueReporting(type, remaining, ends, body, codes)
  PROVE  Typed
<1>1. hdr \in Tid /\ classic \in BOOLEAN
  BY DEF TypeInv, HeaderTypes, AtContinued, Lasting, INVALID
<1>2. PICK tid \in Tid, format \in BOOLEAN, left \in Count :
        tid = hdr /\ format = classic /\ left = num_remaining_objects'
  BY <1>1 DEF CoreType
<1>3. Encode(type, tid, format, left, body, codes)
  BY <1>2 DEF ContinueReporting
<1>4. type \in AnswerTypes
  BY DEF Lasting, AnswerTypes, ParameterTypes
<1>5. BufferTypes'
  BY <1>3, <1>4, EncodeTypes DEF TypeInv
<1>6. owner' \in [tid: Tid \cup {0}, classic: BOOLEAN]
  <2>1. KeepContinued \/ EndContinued
    BY DEF ContinueReporting
  <2>2. CASE KeepContinued
    BY <2>2 DEF TypeInv, HeaderTypes, KeepContinued
  <2>3. CASE EndContinued
    BY <2>3 DEF EndContinued, NoOwner
  <2>4. QED BY <2>1, <2>2, <2>3
<1>7. UNCHANGED <<link, hdr, classic>>
  BY DEF ContinueReporting
<1>8. HeaderTypes'
  BY <1>1, <1>6, <1>7 DEF TypeInv, HeaderTypes, link
<1>9. QED BY <1>5, <1>8 DEF Typed

(* A continued transaction that ends, or is kept, without a message.        *)
LEMMA Ending == ASSUME TypeInv, NoMoreData, EndContinued \/ KeepContinued PROVE Typed
<1>1. BufferTypes'
  BY SilentTypes DEF TypeInv, NoMoreData
<1>2. owner' \in [tid: Tid \cup {0}, classic: BOOLEAN]
  <2>1. CASE EndContinued
    BY <2>1 DEF EndContinued, NoOwner
  <2>2. CASE KeepContinued
    BY <2>2 DEF KeepContinued, TypeInv, HeaderTypes
  <2>3. QED BY <2>1, <2>2
<1>3. HeaderTypes'
  BY <1>2 DEF TypeInv, HeaderTypes, NoMoreData, EndContinued, KeepContinued, link
<1>4. QED BY <1>1, <1>3 DEF Typed

(* What is read is a list of values, and what it reports of the zeroed ones *)
(* a list of codes.                                                        *)
LEMMA ReadingsTyped ==
  ASSUME store \in [Table -> Values], NEW chunk \in Seq(Nat), NEW values \in Readings(chunk)
  PROVE  values \in Seq([id: Nat, value: Values \cup {Unset}])
<1> DEFINE V == [id: Nat, value: Values \cup {Unset}]
<1>1. /\ Len(chunk) \in Nat /\ DOMAIN chunk = 1 .. Len(chunk)
      /\ \A i \in 1 .. Len(chunk) : chunk[i] \in Nat
  BY LenProperties, ElementOfSeq
<1>2. PICK bad \in SUBSET DOMAIN chunk :
        /\ \A i \in DOMAIN chunk : chunk[i] \notin Table => i \in bad
        /\ values = [i \in DOMAIN chunk |->
             [id |-> chunk[i], value |-> IF i \in bad THEN Unset ELSE store[chunk[i]]]]
  BY DEF Readings
<1>3. ASSUME NEW i \in 1 .. Len(chunk)
      PROVE  [id |-> chunk[i], value |-> IF i \in bad THEN Unset ELSE store[chunk[i]]] \in V
  <2>1. (IF i \in bad THEN Unset ELSE store[chunk[i]]) \in Values \cup {Unset}
    BY <1>1, <1>2
  <2>2. QED BY <1>1, <2>1
<1>4. values \in [1 .. Len(chunk) -> V]
  <2> HIDE DEF V
  <2>1. QED BY <1>1, <1>2, <1>3
<1>5. values \in Seq(V)
  <2> HIDE DEF V
  <2>1. QED BY <1>1, <1>4, SeqDef
<1>6. QED BY <1>5

LEMMA ReadErrorsTyped ==
  ASSUME NEW values, IsSequence(values) PROVE ReadErrors(values) \in Seq(Errors)
<1> DEFINE unread == { i \in DOMAIN values : values[i].value = Unset }
<1>1. /\ DOMAIN values = 1 .. Len(values) /\ Len(values) \in Nat
  BY LenProperties DEF IsSequence
<1>2. IsFiniteSet(1 .. Len(values))
  BY <1>1, FS_Interval
<1>3. IsFiniteSet(unread) /\ unread \subseteq Nat
  BY <1>1, <1>2, FS_Subset
<1>4. Cardinality(unread) \in Nat /\ DOMAIN InOrder(unread) = 1 .. Cardinality(unread)
  <2> HIDE DEF unread
  <2>1. QED BY <1>3, FS_CardinalityType, InOrderIs
<1>5. ReadErrors(values) = [k \in 1 .. Cardinality(unread) |->
         IF values[InOrder(unread)[k]].id \in Table THEN "READ_FAILED" ELSE "INVALID_PARAMETER"]
  BY <1>4 DEF ReadErrors
<1>6. ReadErrors(values) \in [1 .. Cardinality(unread) -> Errors]
  <2> HIDE DEF unread
  <2>1. QED BY <1>5 DEF Errors
<1>7. QED
  <2> HIDE DEF unread
  <2>1. QED BY <1>4, <1>6, SeqDef

(* A finite set of natural numbers up to n has a greatest one.              *)
LEMMA GreatestTurn ==
  ASSUME NEW n \in Nat, NEW T, T \subseteq 1 .. n, T # {}
  PROVE  \E i \in T : \A j \in T : j <= i
<1> DEFINE Mirror == { n - i : i \in T }
<1>1. \A i \in T : i \in Nat /\ n - i \in Nat
  OBVIOUS
<1>2. Mirror \subseteq Nat /\ Mirror # {}
  BY <1>1
<1>3. PICK x \in Mirror : \A y \in Mirror : x <= y
  <2> HIDE DEF Mirror
  <2>1. QED BY <1>2, LeastNatural
<1>4. PICK i \in T : x = n - i
  BY <1>3
<1>5. ASSUME NEW j \in T PROVE j <= i
  <2>1. x <= n - j
    BY <1>3
  <2>2. QED BY <1>1, <1>4, <2>1
<1>6. QED BY <1>5

(* A write leaves a value of the list, or the old one, in every parameter.  *)
LEMMA WrittenTyped ==
  ASSUME store \in [Table -> Values], NEW values \in Seq([id: Nat, value: Values]),
         NEW n \in 0 .. Len(values)
  PROVE  Written(values, n) \in [Table -> Values]
<1>1. Len(values) \in Nat /\ \A i \in 1 .. Len(values) : values[i] \in [id: Nat, value: Values]
  BY LenProperties, ElementOfSeq
<1>2. n \in Nat /\ \A i \in 1 .. n : values[i].value \in Values
  BY <1>1
<1>3. ASSUME NEW id \in Table
      PROVE  LET writes == { i \in 1 .. n : values[i].id = id }
             IN  (IF writes = {} THEN store[id]
                  ELSE values[CHOOSE i \in writes : \A j \in writes : j <= i].value) \in Values
  <2> DEFINE writes == { i \in 1 .. n : values[i].id = id }
             last == CHOOSE i \in writes : \A j \in writes : j <= i
  <2>1. CASE writes = {}
    BY <2>1
  <2>2. CASE writes # {}
    <3>1. writes \subseteq 1 .. n
      OBVIOUS
    <3>2. \E i \in writes : \A j \in writes : j <= i
      <4> HIDE DEF writes
      <4>1. QED BY <1>2, <2>2, <3>1, GreatestTurn
    <3>3. last \in writes
      <4> HIDE DEF writes
      <4>1. QED BY <3>2
    <3>4. values[last].value \in Values
      <4> HIDE DEF last
      <4>1. QED BY <1>2, <3>1, <3>3
    <3>5. QED BY <2>2, <3>4
  <2>3. QED BY <2>1, <2>2
<1>4. QED BY <1>3 DEF Written

LEMMA ExtensionsTyped ==
  ASSUME NEW id
  PROVE  /\ ExtensionsOf(id) \in Seq(DOMAIN ExOwner)
         /\ Len(ExtensionsOf(id)) \in 0 .. Len(ExOwner)
<1> DEFINE S == { e \in DOMAIN ExOwner : ExOwner[e] = id }
<1>1. Len(ExOwner) \in Nat /\ DOMAIN ExOwner = 1 .. Len(ExOwner)
  BY ParameterAssumption, LenProperties
<1>2. /\ IsFiniteSet(DOMAIN ExOwner)
      /\ Cardinality(DOMAIN ExOwner) = Len(ExOwner)
  <2>1. PICK n \in Nat : n = Len(ExOwner)
    BY <1>1
  <2>2. 1 \in Int /\ n \in Int
    BY <2>1
  <2>3. /\ IsFiniteSet(1 .. n)
        /\ Cardinality(1 .. n) = IF 1 > n THEN 0 ELSE n - 1 + 1
    BY <2>2, FS_Interval
  <2>4. (IF 1 > n THEN 0 ELSE n - 1 + 1) = n
    BY <2>1
  <2>5. QED BY <1>1, <2>1, <2>3, <2>4
<1>3. S \in SUBSET (DOMAIN ExOwner)
  OBVIOUS
<1>4. IsFiniteSet(S) /\ Cardinality(S) <= Len(ExOwner) /\ S \subseteq Nat
  <2>1. S \subseteq Nat
    BY <1>1
  <2> HIDE DEF S
  <2>2. QED BY <1>2, <1>3, <2>1, FS_Subset
<1>5. /\ InOrder(S) \in Seq(S) /\ Len(InOrder(S)) = Cardinality(S) /\ Cardinality(S) \in Nat
  <2> HIDE DEF S
  <2>1. QED BY <1>4, InOrderIs, FS_CardinalityType
<1>6. InOrder(S) \in Seq(DOMAIN ExOwner)
  <2> HIDE DEF S
  <2>1. QED BY <1>3, <1>5, SeqMonotonic
<1>7. ExtensionsOf(id) = InOrder(S)
  BY DEF ExtensionsOf
<1> HIDE DEF S
<1>8. QED BY <1>1, <1>4, <1>5, <1>6, <1>7

LEMMA AllTyped == AllExtensions \in Seq(DOMAIN ExOwner)
<1>1. Len(ExOwner) \in Nat /\ DOMAIN ExOwner = 1 .. Len(ExOwner)
  BY ParameterAssumption, LenProperties
<1>2. AllExtensions \in [1 .. Len(ExOwner) -> DOMAIN ExOwner]
  BY <1>1 DEF AllExtensions
<1>3. QED BY <1>1, <1>2, SeqDef

LEMMA NextTyped ==
  ASSUME NEW exs \in Seq(DOMAIN ExOwner)
  PROVE  NextOf(exs) \in Seq(DOMAIN ExOwner) /\ After(exs) \in Seq(DOMAIN ExOwner)
<1>1. CASE exs = <<>>
  BY <1>1 DEF NextOf, After
<1>2. CASE exs # <<>>
  BY <1>2, HeadTailProperties DEF NextOf, After
<1>3. QED BY <1>1, <1>2

SameData == UNCHANGED <<exVars, store, received>>

LEMMA SameDataTyped == ASSUME DataTypes, SameData PROVE DataTypes'
  BY DEF DataTypes, SameData, exVars

LEMMA ForgetTyped ==
  ASSUME DataTypes, Forget PROVE DataTypes'
<1>1. received'.type = "DENIED" /\ received'.items = 0
  BY DEF Forget, Withdrawn, Answer
<1>2. received'.items \in Items(received'.type)
  BY <1>1 DEF Items
<1>3. QED BY <1>2 DEF DataTypes, Forget, exVars

LEMMA DeniedTyped ==
  ASSUME TypeInv, num_remaining_objects' \in Count, discovery_denied \/ values_denied
  PROVE  Typed /\ DataTypes'
<1>1. PICK type \in ParameterTypes : Dispatch(type)
  BY DEF discovery_denied, values_denied, ParameterTypes
<1>2. UNCHANGED link /\ Silent /\ type # "NONE" /\ (KeepContinued \/ EndContinued)
  BY DEF discovery_denied, values_denied, ParameterTypes
<1>3. Forget \/ SameData
  BY DEF discovery_denied, values_denied, paramVars, SameData
<1>4. Typed
  BY <1>1, <1>2, Answering
<1>5. DataTypes'
  BY <1>3, ForgetTyped, SameDataTyped DEF TypeInv
<1>6. QED BY <1>4, <1>5

(* A continued call that answers nothing.                                   *)
LEMMA ContinuedDeniedTyped ==
  ASSUME TypeInv,
         \/ continue_discover_parameters_denied \/ continue_param_ex_denied
         \/ continue_read_param_denied \/ continue_param_ex_ended
  PROVE  Typed /\ DataTypes'
<1>1. NoMoreData /\ (EndContinued \/ KeepContinued)
  BY DEF continue_discover_parameters_denied, continue_param_ex_denied, continue_read_param_denied,
         continue_param_ex_ended
<1>2. Forget \/ SameData
  BY DEF continue_discover_parameters_denied, continue_param_ex_denied, continue_read_param_denied,
         continue_param_ex_ended, paramVars, SameData
<1>3. Typed
  BY <1>1, Ending
<1>4. DataTypes'
  BY <1>2, ForgetTyped, SameDataTyped DEF TypeInv
<1>5. QED BY <1>3, <1>4

LEMMA CoreTyped ==
  ASSUME TypeInv, num_remaining_objects' \in Count, CoreProcess
  PROVE  Typed
<1> USE DEF AnswerTypes, Items
<1>0. <<>> \in Seq(Errors) /\ \A code \in Errors : <<code>> \in Seq(Errors)
  OBVIOUS
<1>1. CASE handle_ping
  <2>1. /\ Dispatch("PING") /\ UNCHANGED link /\ KeepContinued
        /\ Silent \/ Respond("PING", 0, 0, <<>>)
    BY <1>1 DEF handle_ping
  <2>2. "PING" \in AnswerTypes /\ 0 \in Items("PING")
    BY DEF ParameterTypes
  <2>3. QED BY <1>0, <2>1, <2>2, Answering
<1>2. CASE handle_get_device_info
  <2>1. /\ Dispatch("GET_DEVICE_INFO") /\ Respond("GET_DEVICE_INFO", 0, 0, <<>>)
        /\ KeepContinued /\ key_valid' \in BOOLEAN /\ key_presented' = key_valid'
        /\ connected' = connected
    BY <1>2 DEF handle_get_device_info
  <2>2. connected' \in BOOLEAN /\ key_presented' \in BOOLEAN
    BY <2>1 DEF TypeInv, HeaderTypes
  <2>3. prompt.tid \in Tid /\ prompt.classic \in BOOLEAN /\ HeaderTypes'
    BY <2>1, <2>2, DispatchHeader
  <2>4. "GET_DEVICE_INFO" \in AnswerTypes /\ 0 \in Items("GET_DEVICE_INFO")
    BY DEF ParameterTypes
  <2>5. BufferTypes'
    BY <1>0, <2>1, <2>3, <2>4, RespondTypes DEF TypeInv
  <2>6. QED BY <2>3, <2>5 DEF Typed
<1>3. CASE handle_undecodable_header
  <2>1. /\ AtPrompt /\ prompt # NoPrompt /\ classic' = prompt.classic
        /\ Fail(<<"DECODING_FAILED">>, "DECODING_FAILED")
        /\ UNCHANGED <<link, hdr, continued>>
    BY <1>3 DEF handle_undecodable_header, NoPrompt
  <2>2. prompt.classic \in BOOLEAN
    BY <2>1, PromptHeader DEF TypeInv, ParamInv
  <2>3. HeaderTypes'
    BY <2>1, <2>2 DEF TypeInv, HeaderTypes, link, continued
  <2>4. BufferTypes'
    <3>1. "DECODING_FAILED" \in Errors
      BY DEF Errors
    <3>2. QED BY <1>0, <2>1, <3>1, FailTypes DEF TypeInv
  <2>5. QED BY <2>3, <2>4 DEF Typed
<1>4. CASE handle_undecodable_payload
  <2>1. /\ Dispatch("BAD_PAYLOAD") /\ UNCHANGED link /\ KeepContinued
        /\ Fail(<<"DECODING_FAILED">>, "DECODING_FAILED")
    BY <1>4 DEF handle_undecodable_payload
  <2>2. "DECODING_FAILED" \in Errors
    BY DEF Errors
  <2>3. QED BY <1>0, <2>1, <2>2, Answering
<1>5. CASE handle_unhandled_type
  <2>1. /\ Dispatch("UNHANDLED") /\ UNCHANGED link /\ KeepContinued
        /\ Fail(<<"NOT_IMPLEMENTED">>, "NOT_IMPLEMENTED")
    BY <1>5 DEF handle_unhandled_type
  <2>2. "NOT_IMPLEMENTED" \in Errors
    BY DEF Errors
  <2>3. QED BY <1>0, <2>1, <2>2, Answering
<1>6. CASE process_no_prompt
  <2>1. Silent /\ UNCHANGED <<link, prompt, classic, hdr, continued>>
    BY <1>6 DEF process_no_prompt
  <2>2. BufferTypes'
    BY <2>1, SilentTypes DEF TypeInv
  <2>3. HeaderTypes'
    BY <2>1 DEF TypeInv, HeaderTypes, link, continued
  <2>4. QED BY <2>2, <2>3 DEF Typed
<1>7. QED
  BY <1>1, <1>2, <1>3, <1>4, <1>5, <1>6 DEF CoreProcess, CoreHandlers

LEMMA FirstMessageTyped ==
  ASSUME TypeInv, num_remaining_objects' \in Count,
         pvtCrParam_discover_parameters \/ pvtCrParam_read_param
  PROVE  Typed /\ DataTypes'
<1>1. CoreType /\ DataTypes
  BY DEF TypeInv, ParamInv
<1>2. CASE pvtCrParam_discover_parameters
  <2> DEFINE type  == "DISCOVER_PARAMETERS"
             ids   == prompt.arg.ids
             asked == AskedBy(ids)
             chunk == Chunk(asked, 0, REACH_COUNT_PARAM_DESC_IN_RESPONSE)
  <2>1. PICK infos \in Descriptions(chunk) :
          /\ received' = Answer(type, infos)
          /\ IF infos = <<>>
               THEN Silent /\ KeepContinued
               ELSE /\ Respond(type, Len(asked) - Len(infos), infos, <<>>)
                    /\ Begin(type, ids, Len(infos) = REACH_COUNT_PARAM_DESC_IN_RESPONSE)
    BY <1>2 DEF pvtCrParam_discover_parameters
  <2>2. Dispatch(type) /\ UNCHANGED <<link, exVars, store>>
    BY <1>2 DEF pvtCrParam_discover_parameters
  <2>3. ids \in Lists
    BY <1>1, <2>2, PromptFields DEF Dispatch, NoPrompt, Lasting
  <2>4. chunk \in Seq(Nat)
    BY <2>3, AskedIsSequence, FirstChunk, ParameterAssumption
  <2> HIDE DEF chunk, ids, asked
  <2>5. infos \in Seq(Table)
    BY <2>4, DescriptionsOfChunk
  <2>6. infos \in Items(type) /\ type \in AnswerTypes /\ <<>> \in Seq(Errors)
    BY <2>5 DEF Items, AnswerTypes, ParameterTypes
  <2>7. KeepContinued \/ \E t : BeginContinued(t)
    BY <2>1 DEF Begin
  <2>8. PICK left \in {Len(asked) - Len(infos)} : TRUE
    OBVIOUS
  <2>9. Silent \/ Respond(type, left, infos, <<>>)
    BY <2>1, <2>8
  <2>10. Typed
    <3>1. CASE Silent
      BY <2>2, <2>7, <3>1, Answering
    <3>2. CASE Respond(type, left, infos, <<>>)
      BY <2>2, <2>6, <2>7, <3>2, AnsweringWith
    <3>3. QED BY <2>9, <3>1, <3>2
  <2>11. received'.type = type /\ received'.items = infos
    BY <2>1 DEF Answer
  <2>12. DataTypes'
    BY <1>1, <2>2, <2>6, <2>11 DEF DataTypes, exVars
  <2>13. QED BY <2>10, <2>12
<1>3. CASE pvtCrParam_read_param
  <2> DEFINE type  == "READ_PARAMETERS"
             ids   == prompt.arg.ids
             asked == AskedBy(ids)
             chunk == Chunk(asked, 0, REACH_COUNT_PARAM_READ_VALUES)
  <2>1. PICK values \in Readings(chunk) :
          /\ received' = Answer(type, values)
          /\ Respond(type, Len(asked) - Len(values), values, ReadErrors(values))
          /\ Begin(type, ids, Len(values) = REACH_COUNT_PARAM_READ_VALUES)
    BY <1>3 DEF pvtCrParam_read_param
  <2>2. Dispatch(type) /\ UNCHANGED <<link, exVars, store>>
    BY <1>3 DEF pvtCrParam_read_param
  <2>3. ids \in Lists
    BY <1>1, <2>2, PromptFields DEF Dispatch, NoPrompt, Lasting
  <2>4. chunk \in Seq(Nat)
    BY <2>3, AskedIsSequence, FirstChunk, ParameterAssumption
  <2> HIDE DEF chunk, ids, asked
  <2>5. values \in Seq([id: Nat, value: Values \cup {Unset}]) /\ IsSequence(values)
    BY <1>1, <2>4, ReadingsTyped, ReadingsOfChunk DEF DataTypes
  <2>6. values \in Items(type) /\ type \in AnswerTypes
    BY <2>5 DEF Items, AnswerTypes, ParameterTypes
  <2>7. KeepContinued \/ \E t : BeginContinued(t)
    BY <2>1 DEF Begin
  <2>8. PICK left \in {Len(asked) - Len(values)}, codes \in Seq(Errors) : codes = ReadErrors(values)
    BY <2>5, ReadErrorsTyped
  <2>9. Respond(type, left, values, codes)
    BY <2>1, <2>8
  <2>10. Typed
    BY <2>2, <2>6, <2>7, <2>9, AnsweringWith
  <2>11. received'.type = type /\ received'.items = values
    BY <2>1 DEF Answer
  <2>12. DataTypes'
    BY <1>1, <2>2, <2>6, <2>11 DEF DataTypes, exVars
  <2>13. QED BY <2>10, <2>12
<1>4. QED BY <1>2, <1>3

(* The part of a list that a continued message is about.                    *)
LEMMA NextChunk ==
  ASSUME ParamInv, NEW type \in Listed, AtContinued(type), NEW size \in Nat \ {0}
  PROVE  /\ Chunk(Asked, requested_index, size) \in Seq(Nat)
         /\ received = Answer(received.type, received.items)
         /\ ~Denied => received.type = type
         /\ Denied => received = Withdrawn /\ type # "READ_PARAMETERS"
<1>1. /\ requested \in Lists /\ requested_index \in Nat
      /\ received = Answer(received.type, received.items)
      /\ Denied => received = Withdrawn /\ type # "READ_PARAMETERS"
  BY DEF ParamInv, ParamType, AtContinued, Discoveries, INVALID
<1>2. ~Denied => received.type = type
  BY DEF ParamInv, ListIndex, AtContinued, Listed
<1>3. Asked \in Seq(Nat)
  BY <1>1, AskedIsSequence DEF Asked
<1>4. Chunk(Asked, requested_index, size) \in Seq(Nat)
  BY <1>1, <1>3, ChunkTyped
<1>5. QED BY <1>1, <1>2, <1>4

(* The answer of a continued transaction, with more of it.                  *)
LEMMA ReceiveTyped ==
  ASSUME DataTypes, ParamType, NEW type \in Lasting, ~Denied => received.type = type,
         NEW items \in Items(type), Receive(items)
  PROVE  received'.items \in Items(received'.type)
<1>1. CASE Denied
  <2>1. received' = received
    BY <1>1 DEF Receive, ParamType
  <2>2. QED BY <2>1 DEF DataTypes
<1>2. CASE ~Denied
  <2>1. /\ received.type = type /\ received = Answer(type, received.items)
        /\ received.items \in Items(type) /\ received # Withdrawn
    BY <1>2 DEF ParamType, DataTypes, Denied, Withdrawn, Answer
  <2>2. received'.type = type /\ received'.items = received.items \o items
    BY <2>1 DEF Receive, Answer
  <2>3. PICK S : Items(type) = Seq(S)
    BY DEF Items, Lasting
  <2>4. received.items \o items \in Items(type)
    BY <2>1, <2>3, ConcatProperties
  <2>5. QED BY <2>2, <2>4
<1>3. QED BY <1>1, <1>2

LEMMA NextMessageTyped ==
  ASSUME TypeInv, CoreType', continue_discover_parameters \/ continue_read_param
  PROVE  Typed /\ DataTypes'
<1>1. ParamInv /\ ParamType /\ DataTypes
  BY DEF TypeInv, ParamInv
<1>2. CASE continue_discover_parameters
  <2> DEFINE type  == "DISCOVER_PARAMETERS"
             size  == REACH_COUNT_PARAM_DESC_IN_RESPONSE
             chunk == Chunk(Asked, requested_index, size)
  <2>1. PICK infos \in Descriptions(chunk) :
          /\ Receive(infos)
          /\ IF infos = <<>>
               THEN NoMoreData /\ EndContinued
               ELSE ContinueReporting(type, Left(Len(infos), size),
                                      Len(infos) < Len(chunk), infos, <<>>)
    BY <1>2 DEF continue_discover_parameters
  <2>2. AtContinued(type) /\ UNCHANGED <<exVars, store>>
    BY <1>2 DEF continue_discover_parameters
  <2>3. chunk \in Seq(Nat) /\ type \in Lasting /\ (~Denied => received.type = type)
    BY <1>1, <2>2, NextChunk, ParameterAssumption DEF Listed, Lasting
  <2> HIDE DEF chunk
  <2>4. infos \in Items(type) /\ <<>> \in Seq(Errors)
    BY <2>3, DescriptionsOfChunk DEF Items
  <2>5. PICK left \in {Left(Len(infos), size)}, ends \in {Len(infos) < Len(chunk)} : TRUE
    OBVIOUS
  <2>6. Typed
    <3>1. CASE infos = <<>>
      BY <2>1, <3>1, Ending
    <3>2. CASE infos # <<>>
      <4>1. ContinueReporting(type, left, ends, infos, <<>>)
        BY <2>1, <2>5, <3>2
      <4>2. QED BY <2>2, <2>3, <2>4, <4>1, Continuing
    <3>3. QED BY <3>1, <3>2
  <2>7. received'.items \in Items(received'.type)
    BY <1>1, <2>1, <2>3, <2>4, ReceiveTyped
  <2>8. DataTypes'
    BY <1>1, <2>2, <2>7 DEF DataTypes, exVars
  <2>9. QED BY <2>6, <2>8
<1>3. CASE continue_read_param
  <2> DEFINE type  == "READ_PARAMETERS"
             size  == REACH_COUNT_PARAM_READ_VALUES
             chunk == Chunk(Asked, requested_index, size)
  <2>1. PICK values \in Readings(chunk) :
          /\ Receive(values)
          /\ IF values = <<>>
               THEN NoMoreData /\ EndContinued
               ELSE ContinueReporting(type, Left(Len(values), size), FALSE, values,
                                      ReadErrors(values))
    BY <1>3 DEF continue_read_param
  <2>2. AtContinued(type) /\ UNCHANGED <<exVars, store>>
    BY <1>3 DEF continue_read_param
  <2>3. chunk \in Seq(Nat) /\ type \in Lasting /\ (~Denied => received.type = type)
    BY <1>1, <2>2, NextChunk, ParameterAssumption DEF Listed, Lasting
  <2> HIDE DEF chunk
  <2>4. values \in Items(type) /\ IsSequence(values)
    BY <1>1, <2>3, ReadingsTyped, ReadingsOfChunk DEF DataTypes, Items
  <2>5. PICK left \in {Left(Len(values), size)}, codes \in Seq(Errors) :
          codes = ReadErrors(values)
    BY <2>4, ReadErrorsTyped
  <2>6. Typed
    <3>1. CASE values = <<>>
      BY <2>1, <3>1, Ending
    <3>2. CASE values # <<>>
      <4>1. ContinueReporting(type, left, FALSE, values, codes)
        BY <2>1, <2>5, <3>2
      <4>2. QED BY <2>2, <2>3, <2>4, <4>1, Continuing
    <3>3. QED BY <3>1, <3>2
  <2>7. received'.items \in Items(received'.type)
    BY <1>1, <2>1, <2>3, <2>4, ReceiveTyped
  <2>8. DataTypes'
    BY <1>1, <2>2, <2>7 DEF DataTypes, exVars
  <2>9. QED BY <2>6, <2>8
<1>4. QED BY <1>2, <1>3

LEMMA FirstExtensionTyped ==
  ASSUME TypeInv, num_remaining_objects' \in Count, pvtCrParam_discover_parameters_ex
  PROVE  Typed /\ DataTypes'
<1> DEFINE type  == "DISCOVER_PARAM_EX"
           ids   == prompt.arg.ids
           total == ExCount(ids)
           exs   == IF ids = <<>> THEN AllExtensions ELSE extensions
<1>1. /\ Dispatch(type) /\ UNCHANGED <<link, store>>
      /\ num_ex_this_pid' = IF ids = <<>> THEN 0 ELSE Len(ExtensionsOf(ids[1]))
      /\ IF total = 0
           THEN /\ Respond(type, 0, <<>>, <<>>)
                /\ KeepContinued
                /\ received' = Answer(type, <<>>)
                /\ UNCHANGED extensions
           ELSE /\ Respond(type, total - 1, NextOf(exs), <<>>)
                /\ IF total > 1 THEN BeginContinued(type) ELSE KeepContinued
                /\ received' = Answer(type, NextOf(exs))
                /\ extensions' = After(exs)
  BY DEF pvtCrParam_discover_parameters_ex
<1>2. DataTypes
  BY DEF TypeInv
<1>3. exs \in Seq(DOMAIN ExOwner)
  BY <1>2, AllTyped DEF DataTypes
<1> HIDE DEF exs
<1>4. /\ NextOf(exs) \in Seq(DOMAIN ExOwner) /\ After(exs) \in Seq(DOMAIN ExOwner)
      /\ <<>> \in Seq(DOMAIN ExOwner)
  BY <1>3, NextTyped
<1>5. PICK left \in {IF total = 0 THEN 0 ELSE total - 1},
           items \in Seq(DOMAIN ExOwner) :
        /\ Respond(type, left, items, <<>>) /\ received' = Answer(type, items)
        /\ KeepContinued \/ BeginContinued(type)
        /\ extensions' \in Seq(DOMAIN ExOwner)
  <2> HIDE DEF ids, total
  <2>1. CASE total = 0
    BY <1>1, <1>2, <1>4, <2>1 DEF DataTypes
  <2>2. CASE total # 0
    BY <1>1, <1>4, <2>2
  <2>3. QED BY <2>1, <2>2
<1>6. items \in Items(type) /\ type \in AnswerTypes /\ <<>> \in Seq(Errors)
  BY <1>5 DEF Items, AnswerTypes, ParameterTypes
<1>7. Typed
  BY <1>1, <1>5, <1>6, AnsweringWith
<1>8. num_ex_this_pid' \in 0 .. Len(ExOwner)
  <2>1. 0 \in 0 .. Len(ExOwner)
    BY ParameterAssumption, LenProperties
  <2>2. QED BY <1>1, <2>1, ExtensionsTyped
<1>9. received'.type = type /\ received'.items = items
  BY <1>5 DEF Answer
<1>10. DataTypes'
  BY <1>1, <1>2, <1>5, <1>6, <1>8, <1>9 DEF DataTypes
<1>11. QED BY <1>7, <1>10

LEMMA SendTyped ==
  ASSUME TypeInv, CoreType', AtContinued("DISCOVER_PARAM_EX"),
         NEW exs \in Seq(DOMAIN ExOwner), SendExtension(exs), store' = store
  PROVE  Typed /\ DataTypes'
<1> DEFINE type == "DISCOVER_PARAM_EX"
<1>1. /\ ContinueReporting(type, num_remaining_objects - 1, FALSE, NextOf(exs), <<>>)
      /\ Receive(NextOf(exs)) /\ extensions' = After(exs) /\ num_ex_this_pid' = 0
  BY DEF SendExtension
<1>2. DataTypes /\ ParamType /\ (~Denied => received.type = type)
  BY DEF TypeInv, ParamInv, ExtensionIndex, AtContinued
<1>3. PICK items \in Seq(DOMAIN ExOwner), left \in {num_remaining_objects - 1} : items = NextOf(exs)
  BY NextTyped
<1>4. items \in Items(type) /\ type \in Lasting /\ <<>> \in Seq(Errors)
  BY <1>3 DEF Items, Lasting
<1>5. ContinueReporting(type, left, FALSE, items, <<>>)
  BY <1>1, <1>3
<1>6. Typed
  BY <1>4, <1>5, Continuing
<1>7. received'.items \in Items(received'.type)
  BY <1>1, <1>2, <1>3, <1>4, ReceiveTyped
<1>8. extensions' \in Seq(DOMAIN ExOwner) /\ num_ex_this_pid' \in 0 .. Len(ExOwner)
  BY <1>1, NextTyped, ParameterAssumption, LenProperties
<1>9. DataTypes'
  BY <1>2, <1>7, <1>8 DEF DataTypes
<1>10. QED BY <1>6, <1>9

LEMMA NextExtensionTyped ==
  ASSUME TypeInv, CoreType', continue_same_param_ex \/ continue_next_param_ex
  PROVE  Typed /\ DataTypes'
<1>1. DataTypes
  BY DEF TypeInv
<1>2. CASE continue_same_param_ex
  <2>1. PICK exs \in Seq(DOMAIN ExOwner) : exs = extensions
    BY <1>1 DEF DataTypes
  <2>2. AtContinued("DISCOVER_PARAM_EX") /\ SendExtension(exs) /\ store' = store
    BY <1>2, <2>1 DEF continue_same_param_ex, AtExtension
  <2>3. QED BY <2>2, SendTyped
<1>3. CASE continue_next_param_ex
  <2> DEFINE left == requested_index + 1 < Len(requested)
             next == requested[requested_index + 2]
             exs  == IF left /\ num_ex_this_pid = 0 THEN ExtensionsOf(next) ELSE <<>>
  <2>1. /\ AtContinued("DISCOVER_PARAM_EX") /\ store' = store
        /\ IF exs # <<>>
             THEN SendExtension(exs)
             ELSE /\ NoMoreData /\ EndContinued
                  /\ UNCHANGED <<exVars, received>>
    BY <1>3 DEF continue_next_param_ex, AtExtension
  <2>2. PICK found \in Seq(DOMAIN ExOwner) : found = exs
    <3>1. <<>> \in Seq(DOMAIN ExOwner) /\ ExtensionsOf(next) \in Seq(DOMAIN ExOwner)
      BY ExtensionsTyped
    <3>2. QED BY <3>1
  <2> HIDE DEF exs
  <2>3. CASE exs # <<>>
    BY <2>1, <2>2, <2>3, SendTyped
  <2>4. CASE exs = <<>>
    <3>1. Typed
      BY <2>1, <2>4, Ending
    <3>2. SameData
      BY <2>1, <2>4 DEF SameData
    <3>3. QED BY <1>1, <3>1, <3>2, SameDataTyped
  <2>5. QED BY <2>3, <2>4
<1>4. QED BY <1>2, <1>3

LEMMA WriteTyped ==
  ASSUME TypeInv, num_remaining_objects' \in Count, pvtCrParam_write_param
  PROVE  Typed /\ DataTypes'
<1> DEFINE type   == "WRITE_PARAMETERS"
           values == prompt.arg.values
<1>1. /\ Dispatch(type) /\ KeepContinued /\ UNCHANGED <<link, exVars, received>>
      /\ \/ Fail(<<"INVALID_PARAMETER">>, "INVALID_PARAMETER") /\ UNCHANGED store
         \/ Respond(type, 0, 0, <<>>) /\ store' = Written(values, Len(values))
         \/ \E n \in 1 .. Len(values) :
              Fail(<<"WRITE_FAILED">>, "WRITE_FAILED") /\ store' = Written(values, n - 1)
  BY DEF pvtCrParam_write_param
<1>2. DataTypes /\ CoreType
  BY DEF TypeInv, ParamInv
<1>3. PICK list \in Seq([id: Nat, value: Values]) : list = values
  <2>1. values \in Writes
    BY <1>1, <1>2, PromptFields DEF Dispatch, NoPrompt
  <2>2. QED BY <2>1, ParameterAssumption
<1>4. Len(list) \in Nat
  BY LenProperties
<1>5. Typed
  <2>1. /\ <<"INVALID_PARAMETER">> \in Seq(Errors) /\ <<"WRITE_FAILED">> \in Seq(Errors)
        /\ "INVALID_PARAMETER" \in Errors /\ "WRITE_FAILED" \in Errors
        /\ <<>> \in Seq(Errors)
    BY DEF Errors
  <2>2. type \in AnswerTypes /\ 0 \in Items(type)
    BY DEF AnswerTypes, ParameterTypes, Items
  <2>3. CASE Fail(<<"INVALID_PARAMETER">>, "INVALID_PARAMETER")
    BY <1>1, <2>1, <2>3, Answering
  <2>4. CASE Respond(type, 0, 0, <<>>)
    BY <1>1, <2>1, <2>2, <2>4, AnsweringWith
  <2>5. CASE Fail(<<"WRITE_FAILED">>, "WRITE_FAILED")
    BY <1>1, <2>1, <2>5, Answering
  <2>6. QED BY <1>1, <2>3, <2>4, <2>5
<1>6. store' \in [Table -> Values]
  <2> HIDE DEF values
  <2>1. CASE store' = store
    BY <1>2, <2>1 DEF DataTypes
  <2>2. ASSUME NEW n \in 0 .. Len(list), store' = Written(list, n) PROVE store' \in [Table -> Values]
    BY <1>2, <2>2, WrittenTyped DEF DataTypes
  <2>3. Len(list) \in 0 .. Len(list) /\ \A n \in 1 .. Len(list) : n - 1 \in 0 .. Len(list)
    BY <1>4
  <2>4. QED BY <1>1, <1>3, <2>1, <2>2, <2>3
<1>7. DataTypes'
  BY <1>1, <1>2, <1>6 DEF DataTypes, exVars
<1>8. QED BY <1>5, <1>7

LEMMA ApplicationTyped ==
  ASSUME TypeInv, CoreApplication(ParameterPrompts) \/ revoke_access PROVE Typed
<1>1. CASE cr_store_coded_prompt(ParameterPrompts) \/ set_disconnected \/ set_connected
  <2>1. Silent /\ UNCHANGED <<classic, hdr>>
    BY <1>1 DEF cr_store_coded_prompt, set_disconnected, set_connected
  <2>2. BufferTypes'
    BY <2>1, SilentTypes DEF TypeInv
  <2>3. \/ UNCHANGED <<continued_message_type, owner>>
        \/ continued_message_type' = INVALID /\ owner' = NoOwner
    BY <1>1 DEF cr_store_coded_prompt, set_disconnected, set_connected, continued, EndContinued
  <2>4. NoOwner \in [tid: Tid \cup {0}, classic: BOOLEAN]
    BY DEF NoOwner
  <2>5. connected' \in BOOLEAN /\ key_valid' \in BOOLEAN /\ key_presented' \in BOOLEAN
    BY <1>1 DEF TypeInv, HeaderTypes, link, cr_store_coded_prompt, set_disconnected, set_connected
  <2>6. HeaderTypes'
    BY <2>1, <2>3, <2>4, <2>5 DEF TypeInv, HeaderTypes
  <2>7. QED BY <2>2, <2>6 DEF Typed
<1>2. CASE cr_get_coded_response_buffer
  <2>1. HeaderTypes'
    BY <1>2 DEF cr_get_coded_response_buffer, TypeInv, HeaderTypes, link, continued
  <2>2. BufferTypes'
    BY <1>2 DEF cr_get_coded_response_buffer, TypeInv, BufferTypes
  <2>3. QED BY <2>1, <2>2 DEF Typed
<1>3. CASE revoke_access
  <2>1. HeaderTypes'
    BY <1>3 DEF revoke_access, TypeInv, HeaderTypes, link, continued
  <2>2. BufferTypes'
    BY <1>3, SilentTypes DEF revoke_access, TypeInv
  <2>3. QED BY <2>1, <2>2 DEF Typed
<1>4. QED BY <1>1, <1>2, <1>3 DEF CoreApplication

LEMMA TypeInvInit == Init => TypeInv
<1> SUFFICES ASSUME Init PROVE TypeInv
  OBVIOUS
<1>1. HeaderTypes
  BY DEF Init, CoreInit, HeaderTypes, NoOwner
<1>2. BufferTypes
  BY DEF Init, CoreInit, BufferTypes
<1>3. store \in [Table -> Values]
  BY ParameterAssumption DEF Init
<1>4. received.items \in Items(received.type)
  BY DEF Init, Answer, Items
<1>5. extensions \in Seq(DOMAIN ExOwner) /\ num_ex_this_pid \in 0 .. Len(ExOwner)
  BY AllTyped, ParameterAssumption, LenProperties DEF Init
<1>6. QED BY <1>1, <1>2, <1>3, <1>4, <1>5, InitParamInv DEF DataTypes, TypeInv

LEMMA TypeInvStep == TypeInv /\ [Next]_vars => TypeInv'
<1> SUFFICES ASSUME TypeInv, [Next]_vars PROVE TypeInv'
  OBVIOUS
<1>1. CASE UNCHANGED vars
  <2>1. ParamInv'
    BY <1>1, StutterParamInv DEF TypeInv
  <2>2. HeaderTypes'
    BY <1>1 DEF vars, coreVars, continued, link, TypeInv, HeaderTypes
  <2>3. BufferTypes'
    BY <1>1 DEF vars, coreVars, buffers, TypeInv, BufferTypes
  <2>4. DataTypes'
    BY <1>1 DEF vars, paramVars, exVars, TypeInv, DataTypes
  <2>5. QED BY <2>1, <2>2, <2>3, <2>4 DEF TypeInv
<1>2. CASE Next
  <2>1. ParamInv'
    BY <1>2, StepParamInv DEF TypeInv
  <2>2. CoreType' /\ num_remaining_objects' \in Count
    BY <2>1 DEF ParamInv, CoreType
  <2>3. CASE CoreProcess /\ UNCHANGED paramVars
    <3>1. SameData
      BY <2>3 DEF paramVars, SameData
    <3>2. DataTypes'
      BY <3>1, SameDataTyped DEF TypeInv
    <3>3. QED BY <2>1, <2>2, <2>3, <3>2, CoreTyped DEF Typed, TypeInv
  <2>4. CASE pvtCrParam_discover_parameters \/ pvtCrParam_read_param
    BY <2>1, <2>2, <2>4, FirstMessageTyped DEF Typed, TypeInv
  <2>5. CASE continue_discover_parameters \/ continue_read_param
    BY <2>1, <2>2, <2>5, NextMessageTyped DEF Typed, TypeInv
  <2>6. CASE pvtCrParam_discover_parameters_ex
    BY <2>1, <2>2, <2>6, FirstExtensionTyped DEF Typed, TypeInv
  <2>7. CASE continue_same_param_ex \/ continue_next_param_ex
    BY <2>1, <2>2, <2>7, NextExtensionTyped DEF Typed, TypeInv
  <2>8. CASE pvtCrParam_write_param
    BY <2>1, <2>2, <2>8, WriteTyped DEF Typed, TypeInv
  <2>9. CASE Application
    <3>1. SameData
      BY <2>9 DEF Application, paramVars, SameData
    <3>2. DataTypes'
      BY <3>1, SameDataTyped DEF TypeInv
    <3>3. QED BY <2>1, <2>9, <3>2, ApplicationTyped DEF Application, Typed, TypeInv
  <2>10. CASE discovery_denied \/ values_denied
    BY <2>1, <2>2, <2>10, DeniedTyped DEF Typed, TypeInv
  <2>11. CASE \/ continue_discover_parameters_denied \/ continue_param_ex_denied
              \/ continue_read_param_denied \/ continue_param_ex_ended
    BY <2>1, <2>11, ContinuedDeniedTyped DEF Typed, TypeInv
  <2>12. QED
    BY <1>2, <2>3, <2>4, <2>5, <2>6, <2>7, <2>8, <2>9, <2>10, <2>11, Zenon DEF Next, cr_process
<1>3. QED BY <1>1, <1>2

(* The variables keep their types: what is sent is an answer of its type or *)
(* a report and describes parameters and extensions of the table only, a    *)
(* value that is written stays one of the values, and what is continued has *)
(* the header of some client's prompt.  The count of a discovery that goes  *)
(* on after it was denied may wrap; it stays a count.                       *)
THEOREM ParametersTyped == Spec => []TypeOK
<1>1. TypeInv => TypeOK
  <2> SUFFICES ASSUME TypeInv PROVE TypeOK
    OBVIOUS
  <2>1. continued_message_type \in {INVALID} \cup (ParameterTypes \ {"WRITE_PARAMETERS"})
    BY DEF TypeInv, ParamInv, CoreType, Lasting, ParameterTypes
  <2>2. received.type \in (ParameterTypes \ {"WRITE_PARAMETERS"}) \cup {"DENIED"}
    BY DEF TypeInv, ParamInv, ParamType, Lasting, ParameterTypes
  <2>3. HeaderTypes /\ BufferTypes /\ DataTypes /\ CoreType /\ ParamType
    BY DEF TypeInv, ParamInv
  <2>4. QED BY <2>1, <2>2, <2>3 DEF HeaderTypes, BufferTypes, DataTypes, CoreType, ParamType, Count, TypeOK
<1>2. QED BY <1>1, TypeInvInit, TypeInvStep, PTL DEF Spec

=============================================================================
