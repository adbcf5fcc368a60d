---------------------------- MODULE RemoteLogProofs ----------------------------
(***************************************************************************)
(* Theorems of the log and of what it sends, for every set of lines, masks, *)
(* payloads and builds, and every bound on the calls in progress.  They     *)
(* need that a classic client has no access to the command line: with such  *)
(* a client the log calls itself (see the README).                          *)
(***************************************************************************)
EXTENDS RemoteLog, SequenceTheorems, TLAPS

ClassicHasNoAccess == \A client \in Clients : client.classic => ~client.access

Notes == [type: Types, payload: Text \cup Payloads]

Encoding == {"ENCODE", "ENCODE_PAYLOAD", "SEND"}

(* A line is a message of the command line, and no notification is.         *)
Calls ==
  { call \in [do: {"LOG", "RESPOND", "NOTIFY"} \cup Encoding, mask: SUBSET Masks, note: Notes] :
      /\ call.do \in {"LOG", "RESPOND"} => call.note = CliLine(call.note.payload)
      /\ call.do = "NOTIFY" => call.note.type # "CLI_NOTIFICATION" }

Waiting(call) == call.do \in {"LOG", "NOTIFY"}

(* The buffers hold what the call is sending.                               *)
InHand(call) ==
  /\ call.do \in Encoding => connected
  /\ call.do # "LOG" /\ call.note.type = "CLI_NOTIFICATION" => sLog_rcliBuf = call.note.payload
  /\ call.do \in {"ENCODE", "ENCODE_PAYLOAD"} => sCr_raw_notification = call.note
  /\ call.do = "SEND" /\ ~classic => sCr_coded_notification = call.note

(* A call that is sending has called the log.                               *)
Interrupted == Len(calls) > 1 /\ calls[2].do \in Encoding

(* What is still to come of a call.                                         *)
Owing ==
  [call \in Calls |->
     IF Waiting(call) THEN OwedBy(call) ELSE IF connected THEN <<call.note>> ELSE <<>>]

(* and of the first so many calls.                                          *)
First1(s, f) == IF s = <<>> THEN <<>> ELSE f[Head(s)]
First2(s, f) == IF s = <<>> THEN <<>> ELSE f[Head(s)] \o First1(Tail(s), f)
First3(s, f) == IF s = <<>> THEN <<>> ELSE f[Head(s)] \o First2(Tail(s), f)
First4(s, f) == IF s = <<>> THEN <<>> ELSE f[Head(s)] \o First3(Tail(s), f)

(* Only the innermost call has begun, or it is a line for no client, logged *)
(* by the one call that has.                                                *)
Stack ==
  /\ calls \in Seq(Calls) /\ Len(calls) <= 4
  /\ Len(calls) = 4 => Interrupted
  /\ \A i \in 1 .. Len(calls) : Waiting(calls[i]) \/ i = 1 \/ (i = 2 /\ Interrupted)
  /\ Interrupted => calls[1].do = "LOG" /\ ~Echoed(calls[1].mask)

LogInv ==
  /\ classic => ~access_granted
  /\ Stack
  /\ \A i \in 1 .. Len(calls) : InHand(calls[i])
  /\ owed = First4(calls, Owing)

-----------------------------------------------------------------------------
(* Lemmas about sequences of calls.                                         *)

LEMMA OwingType == Owing \in [Calls -> Seq(Notes)]
<1>1. \A call \in Calls : call.note \in Notes
  BY DEF Calls
<1>2. QED BY <1>1 DEF Owing, OwedBy

(* A call put before others.                                                *)
LEMMA Before ==
  ASSUME NEW S, NEW a \in S, NEW s \in Seq(S)
  PROVE  /\ <<a>> \o s \in Seq(S) /\ <<a>> \o s # <<>>
         /\ Len(<<a>> \o s) = Len(s) + 1 /\ Len(s) \in Nat
         /\ Head(<<a>> \o s) = a /\ Tail(<<a>> \o s) = s
         /\ (<<a>> \o s)[1] = a
         /\ \A i \in 1 .. Len(s) : (<<a>> \o s)[i + 1] = s[i]
<1> DEFINE t == <<a>> \o s
<1>1. <<a>> \in Seq(S) /\ Len(<<a>>) = 1 /\ <<a>>[1] = a
  OBVIOUS
<1>2. Len(s) \in Nat
  BY LenProperties
<1>3. /\ t \in Seq(S) /\ Len(t) = 1 + Len(s)
      /\ \A i \in 1 .. 1 + Len(s) : t[i] = IF i <= 1 THEN <<a>>[i] ELSE s[i - 1]
  BY <1>1, ConcatProperties
<1> HIDE DEF t
<1>4. t # <<>> /\ t[1] = a /\ \A i \in 1 .. Len(s) : t[i + 1] = s[i]
  BY <1>1, <1>2, <1>3, EmptySeq
<1>5. Head(t) = a
  BY <1>3, <1>4
<1>6. Tail(t) = s
  <2>1. /\ Tail(t) \in Seq(S) /\ Len(Tail(t)) = Len(s)
        /\ \A i \in 1 .. Len(Tail(t)) : Tail(t)[i] = t[i + 1]
    BY <1>2, <1>3, <1>4, HeadTailProperties
  <2>2. QED BY <1>4, <2>1, SeqEqual
<1>7. QED BY <1>2, <1>3, <1>4, <1>5, <1>6 DEF t

LEMMA ShortTail ==
  ASSUME NEW s \in Seq(Calls), s # <<>>, NEW n \in Nat, Len(s) <= n + 1
  PROVE  Tail(s) \in Seq(Calls) /\ Len(Tail(s)) <= n
<1>1. Tail(s) \in Seq(Calls) /\ Len(Tail(s)) = Len(s) - 1 /\ Len(s) \in Nat
  BY HeadTailProperties, LenProperties
<1>2. QED BY <1>1

LEMMA Short1 ==
  ASSUME NEW f \in [Calls -> Seq(Notes)], NEW s \in Seq(Calls), Len(s) <= 1
  PROVE  First2(s, f) = First1(s, f)
<1>1. CASE s = <<>>
  BY <1>1 DEF First1, First2
<1>2. CASE s # <<>>
  <2>1. Head(s) \in Calls
    BY <1>2, HeadTailProperties
  <2>2. Tail(s) = <<>>
    <3>1. Len(s) <= 0 + 1
      BY LenProperties
    <3> DEFINE t == Tail(s)
    <3>2. t \in Seq(Calls) /\ Len(t) <= 0
      BY <1>2, <3>1, ShortTail
    <3> HIDE DEF t
    <3>3. Len(t) \in Nat
      BY <3>2, LenProperties
    <3>4. Len(t) = 0
      BY <3>2, <3>3
    <3>5. t = <<>>
      BY <3>2, <3>4, EmptySeq
    <3>6. QED BY <3>5 DEF t
  <2>3. f[Head(s)] \o <<>> = f[Head(s)]
    BY <2>1, ConcatEmptySeq
  <2>4. QED BY <1>2, <2>2, <2>3 DEF First1, First2
<1>3. QED BY <1>1, <1>2

LEMMA Short2 ==
  ASSUME NEW f \in [Calls -> Seq(Notes)], NEW s \in Seq(Calls), Len(s) <= 2
  PROVE  First3(s, f) = First2(s, f)
<1>1. s # <<>> => Tail(s) \in Seq(Calls) /\ Len(Tail(s)) <= 1
  BY ShortTail
<1>2. s # <<>> => First2(Tail(s), f) = First1(Tail(s), f)
  BY <1>1, Short1
<1>3. QED BY <1>2 DEF First2, First3

LEMMA Short3 ==
  ASSUME NEW f \in [Calls -> Seq(Notes)], NEW s \in Seq(Calls), Len(s) <= 3
  PROVE  First4(s, f) = First3(s, f)
<1>1. s # <<>> => Tail(s) \in Seq(Calls) /\ Len(Tail(s)) <= 2
  BY ShortTail
<1>2. s # <<>> => First3(Tail(s), f) = First2(Tail(s), f)
  BY <1>1, Short2
<1>3. QED BY <1>2 DEF First3, First4

(* What is still to come, taken apart into the innermost call's and the     *)
(* others'.                                                                 *)
LEMMA OwedApart ==
  ASSUME NEW f \in [Calls -> Seq(Notes)], NEW a \in Calls, NEW s \in Seq(Calls), Len(s) <= 3
  PROVE  First4(<<a>> \o s, f) = f[a] \o First4(s, f)
<1>1. First4(<<a>> \o s, f) = f[a] \o First3(s, f)
  BY Before DEF First4
<1>2. QED BY <1>1, Short3

-----------------------------------------------------------------------------
(* What a step of the calls in progress does to them.                       *)

Others == Tail(calls)

(* The innermost call, and the others, which have not begun unless it is    *)
(* one that another has logged.                                            *)
LEMMA Innermost ==
  ASSUME LogInv, calls # <<>>
  PROVE  /\ Top \in Calls /\ Top = calls[1] /\ Others \in Seq(Calls)
         /\ Len(Others) \in Nat /\ Len(Others) <= 3
         /\ Len(calls) = Len(Others) + 1
         /\ \A i \in 1 .. Len(Others) : Others[i] = calls[i + 1]
         /\ calls = <<Top>> \o Others
         /\ InHand(Top)
<1>1. calls \in Seq(Calls) /\ Len(calls) <= 4
  BY DEF LogInv, Stack
<1>2. Len(calls) \in Nat /\ Len(calls) # 0
  BY <1>1, LenProperties, EmptySeq
<1>3. /\ Top \in Calls /\ Tail(calls) \in Seq(Calls) /\ Len(Tail(calls)) = Len(calls) - 1
      /\ \A i \in 1 .. Len(Tail(calls)) : Tail(calls)[i] = calls[i + 1]
  BY <1>1, HeadTailProperties DEF Top
<1>4. Top = calls[1]
  BY DEF Top
<1>5. calls = <<Top>> \o Tail(calls)
  <2>1. /\ <<Top>> \o Tail(calls) \in Seq(Calls)
        /\ Len(<<Top>> \o Tail(calls)) = Len(calls)
        /\ (<<Top>> \o Tail(calls))[1] = Top
        /\ \A i \in 1 .. Len(Tail(calls)) : (<<Top>> \o Tail(calls))[i + 1] = Tail(calls)[i]
    BY <1>2, <1>3, Before
  <2> DEFINE t == <<Top>> \o Tail(calls)
  <2> HIDE DEF t
  <2>2. t \in Seq(Calls) /\ Len(t) = Len(calls) /\ t[1] = calls[1]
        /\ \A i \in 1 .. Len(calls) - 1 : t[i + 1] = calls[i + 1]
    BY <1>2, <1>3, <1>4, <2>1 DEF t
  <2>3. \A i \in 1 .. Len(calls) : t[i] = calls[i]
    <3> TAKE i \in 1 .. Len(calls)
    <3>1. CASE i = 1
      BY <2>2, <3>1
    <3>2. CASE i # 1
      <4>1. i - 1 \in 1 .. Len(calls) - 1 /\ (i - 1) + 1 = i
        BY <1>2, <3>2
      <4>2. QED BY <2>2, <4>1
    <3>3. QED BY <3>1, <3>2
  <2>4. t = calls
    BY <1>1, <2>2, <2>3, SeqEqual
  <2>5. QED BY <2>4 DEF t
<1>6. QED BY <1>1, <1>2, <1>3, <1>4, <1>5 DEF LogInv, Others

(* The calls that wait behind one that has begun.                           *)
LEMMA OthersWait ==
  ASSUME LogInv, calls # <<>>, ~Interrupted
  PROVE  /\ Len(Others) <= 2
         /\ \A i \in 1 .. Len(Others) : Waiting(Others[i])
<1>1. /\ Len(Others) \in Nat /\ Len(Others) <= 3 /\ Len(calls) = Len(Others) + 1
      /\ \A i \in 1 .. Len(Others) : Others[i] = calls[i + 1]
  BY Innermost
<1>2. Len(calls) # 4
  BY DEF LogInv, Stack
<1>3. \A i \in 1 .. Len(Others) : Waiting(calls[i + 1])
  BY <1>1 DEF LogInv, Stack
<1>4. QED BY <1>1, <1>2, <1>3

(* A call that waits asks nothing of the buffers.                           *)
LEMMA WaitingInHand ==
  ASSUME NEW call \in Calls, Waiting(call) PROVE InHand(call) /\ InHand(call)'
  BY DEF Calls, Waiting, InHand, Encoding

LEMMA SameOwing == ASSUME UNCHANGED settings PROVE Owing' = Owing
  BY DEF settings, Owing, OwedBy, Printed, Echoed, i3_log_get_remote_cli_enable

(* The invariant but for what is owed.                                      *)
CallsInv ==
  /\ classic => ~access_granted
  /\ Stack
  /\ \A i \in 1 .. Len(calls) : InHand(calls[i])

(* The innermost call returns.                                             *)
LEMMA Returned ==
  ASSUME LogInv, calls # <<>>, calls' = Others, UNCHANGED <<settings, buffers>>
  PROVE  CallsInv'
<1>1. /\ calls' \in Seq(Calls) /\ Len(calls') \in Nat /\ Len(calls') <= 3
      /\ Len(calls) = Len(calls') + 1
      /\ \A i \in 1 .. Len(calls') : calls'[i] = calls[i + 1]
  BY Innermost
<1>2. \A i \in 1 .. Len(calls') : i + 1 \in 1 .. Len(calls)
  BY <1>1
<1>3. \A i \in 1 .. Len(calls') : InHand(calls[i])'
  <2> TAKE i \in 1 .. Len(calls')
  <2>1. InHand(calls[i + 1]) /\ calls'[i] = calls[i + 1]
    BY <1>1, <1>2 DEF LogInv
  <2>2. QED BY <2>1 DEF InHand, settings, buffers
<1>4. \A i \in 1 .. Len(calls') : Waiting(calls'[i]) \/ i = 1
  BY <1>1, <1>2 DEF LogInv, Stack
<1>5. ~Interrupted'
  <2>1. Len(calls') > 1 => Waiting(calls'[2])
    BY <1>1, <1>4
  <2>2. QED BY <2>1 DEF Interrupted, Waiting, Encoding
<1>6. Stack'
  <2>1. \A i \in 1 .. Len(calls') : Waiting(calls[i])' \/ i = 1 \/ (i = 2 /\ Interrupted')
    BY <1>4 DEF Waiting
  <2>2. Len(calls') <= 4 /\ Len(calls') # 4
    <3>1. Len(Others) \in Nat /\ Len(Others) <= 3
      BY Innermost
    <3>2. Len(Others) <= 4 /\ Len(Others) # 4
      BY <3>1
    <3>3. QED BY <3>2
  <2>3. QED BY <1>1, <1>5, <2>1, <2>2 DEF Stack
<1>7. QED BY <1>3, <1>6 DEF CallsInv, LogInv, settings

(* It goes on, as next.                                                     *)
LEMMA WentOn ==
  ASSUME LogInv, calls # <<>>, ~Interrupted, NEW next \in Calls, InHand(next)',
         calls' = <<next>> \o Others, UNCHANGED settings
  PROVE  CallsInv'
<1>1. /\ Others \in Seq(Calls) /\ Len(Others) \in Nat /\ Len(Others) <= 2
      /\ \A i \in 1 .. Len(Others) : Waiting(Others[i])
  BY Innermost, OthersWait
<1>2. /\ calls' \in Seq(Calls) /\ Len(calls') = Len(Others) + 1
      /\ calls'[1] = next
      /\ \A i \in 1 .. Len(Others) : calls'[i + 1] = Others[i]
  BY <1>1, Before
<1>3. \A i \in 1 .. Len(calls') :
        i = 1 \/ (i - 1 \in 1 .. Len(Others) /\ calls'[i] = Others[i - 1])
  <2> TAKE i \in 1 .. Len(calls')
  <2>1. i # 1 => i - 1 \in 1 .. Len(Others) /\ (i - 1) + 1 = i
    BY <1>1, <1>2
  <2>2. QED BY <1>2, <2>1
<1>4. \A i \in 1 .. Len(calls') : Waiting(calls'[i]) \/ i = 1
  BY <1>1, <1>3
<1>5. \A i \in 1 .. Len(calls') : InHand(calls[i])'
  <2> TAKE i \in 1 .. Len(calls')
  <2>1. CASE i = 1
    BY <1>2, <2>1
  <2>2. CASE i # 1
    <3>1. Waiting(calls'[i]) /\ calls'[i] \in Calls
      BY <1>2, <1>4, <2>2, LenProperties, ElementOfSeq
    <3>2. QED BY <3>1 DEF Calls, Waiting, InHand, Encoding
  <2>3. QED BY <2>1, <2>2
<1>6. ~Interrupted'
  BY <1>1, <1>2, <1>4 DEF Interrupted, Waiting, Encoding
<1>7. Stack'
  BY <1>1, <1>2, <1>4, <1>6 DEF Stack, Waiting
<1>8. QED BY <1>5, <1>7 DEF CallsInv, LogInv, settings

(* It goes on after it has logged a line for no client.                     *)
LEMMA Logged ==
  ASSUME LogInv, calls # <<>>, ~Interrupted,
         NEW log \in Calls, log.do = "LOG", ~Echoed(log.mask),
         NEW next \in Calls, next.do \in Encoding, InHand(next)',
         calls' = <<log>> \o (<<next>> \o Others), UNCHANGED settings
  PROVE  CallsInv'
<1> DEFINE rest == <<next>> \o Others
<1>1. /\ Others \in Seq(Calls) /\ Len(Others) \in Nat /\ Len(Others) <= 2
      /\ \A i \in 1 .. Len(Others) : Waiting(Others[i])
  BY Innermost, OthersWait
<1>2. /\ rest \in Seq(Calls) /\ Len(rest) = Len(Others) + 1 /\ rest[1] = next
      /\ \A i \in 1 .. Len(Others) : rest[i + 1] = Others[i]
  BY <1>1, Before
<1> HIDE DEF rest
<1>3. /\ calls' \in Seq(Calls) /\ Len(calls') = Len(rest) + 1 /\ calls'[1] = log
      /\ \A i \in 1 .. Len(rest) : calls'[i + 1] = rest[i]
  <2>1. calls' = <<log>> \o rest
    BY DEF rest
  <2>2. /\ <<log>> \o rest \in Seq(Calls) /\ Len(<<log>> \o rest) = Len(rest) + 1
        /\ (<<log>> \o rest)[1] = log
        /\ \A i \in 1 .. Len(rest) : (<<log>> \o rest)[i + 1] = rest[i]
    BY <1>2, Before
  <2>3. QED BY <2>1, <2>2
<1>4. Len(calls') = Len(Others) + 2 /\ Len(calls') \in Nat
  BY <1>1, <1>2, <1>3
<1>5. calls'[2] = next
  <2>1. 1 \in 1 .. Len(rest) /\ 1 + 1 = 2
    BY <1>1, <1>2
  <2>2. QED BY <1>2, <1>3, <2>1
<1>6. \A i \in 1 .. Len(calls') : i \in {1, 2} \/ Waiting(calls'[i])
  <2> TAKE i \in 1 .. Len(calls')
  <2>1. ASSUME i \notin {1, 2} PROVE Waiting(calls'[i])
    <3>1. i - 2 \in 1 .. Len(Others) /\ i - 1 \in 1 .. Len(rest)
          /\ (i - 2) + 1 = i - 1 /\ (i - 1) + 1 = i
      BY <1>1, <1>2, <1>4, <2>1
    <3>2. rest[i - 1] = Others[i - 2]
      BY <1>2, <3>1
    <3>3. calls'[i] = rest[i - 1]
      BY <1>3, <3>1
    <3>4. QED BY <1>1, <3>1, <3>2, <3>3
  <2>2. QED BY <2>1
<1>7. \A i \in 1 .. Len(calls') : InHand(calls[i])'
  <2> TAKE i \in 1 .. Len(calls')
  <2>1. CASE i = 2
    BY <1>5, <2>1
  <2>2. CASE i # 2
    <3>1. Waiting(calls'[i]) /\ calls'[i] \in Calls
      BY <1>3, <1>6, <2>2, LenProperties, ElementOfSeq DEF Waiting
    <3>2. QED BY <3>1 DEF Calls, Waiting, InHand, Encoding
  <2>3. QED BY <2>1, <2>2
<1>8. Interrupted'
  BY <1>1, <1>4, <1>5 DEF Interrupted
<1>9. ~Echoed(log.mask)'
  BY DEF settings, Echoed, i3_log_get_remote_cli_enable
<1>10. Stack'
  <2>1. (calls[1].do = "LOG" /\ ~Echoed(calls[1].mask))'
    BY <1>3, <1>9 DEF Echoed, i3_log_get_remote_cli_enable
  <2>2. QED BY <1>1, <1>3, <1>4, <1>6, <1>8, <2>1 DEF Stack
<1>11. QED BY <1>7, <1>10 DEF CallsInv, LogInv, settings

-----------------------------------------------------------------------------
(* What a step leaves owed.                                                 *)

(* The client gets no more than it is owed, and all of it before the call   *)
(* returns.                                                                *)
Kept ==
  /\ ~classic /\ sent' # <<>> => owed # <<>> /\ sent' = <<Head(owed)>>
  /\ calls' = <<>> => owed' = <<>>

(* A step that sends nothing keeps to what is owed if the invariant holds.  *)
LEMMA AllKept ==
  ASSUME CallsInv', owed' = First4(calls', Owing'), sent' = <<>> PROVE LogInv' /\ Kept
<1>1. calls' = <<>> => owed' = <<>>
  BY DEF First4
<1>2. QED BY <1>1 DEF CallsInv, LogInv, Kept

(* What is owed is the innermost call's, then the others'.                  *)
LEMMA OwedOfTop ==
  ASSUME LogInv, calls # <<>> PROVE owed = Owing[Top] \o First4(Others, Owing)
<1>1. /\ Top \in Calls /\ Others \in Seq(Calls) /\ Len(Others) <= 3
      /\ calls = <<Top>> \o Others
  BY Innermost
<1>2. First4(<<Top>> \o Others, Owing) = Owing[Top] \o First4(Others, Owing)
  BY <1>1, OwingType, OwedApart
<1>3. QED BY <1>1, <1>2 DEF LogInv

LEMMA FirstType ==
  ASSUME NEW f \in [Calls -> Seq(Notes)], NEW s \in Seq(Calls) PROVE First4(s, f) \in Seq(Notes)
<1>1. \A t \in Seq(Calls) : t # <<>> => f[Head(t)] \in Seq(Notes) /\ Tail(t) \in Seq(Calls)
  BY HeadTailProperties
<1>2. <<>> \in Seq(Notes) /\ \A u, v \in Seq(Notes) : u \o v \in Seq(Notes)
  BY ConcatProperties
<1>3. \A t \in Seq(Calls) : First1(t, f) \in Seq(Notes)
  BY <1>1, <1>2 DEF First1
<1>4. \A t \in Seq(Calls) : First2(t, f) \in Seq(Notes)
  BY <1>1, <1>2, <1>3 DEF First2
<1>5. \A t \in Seq(Calls) : First3(t, f) \in Seq(Notes)
  BY <1>1, <1>2, <1>4 DEF First3
<1>6. QED BY <1>1, <1>2, <1>5 DEF First4

(* The innermost call returns with nothing to send.                         *)
LEMMA ReturnKept ==
  ASSUME LogInv, calls # <<>>, Owing[Top] = <<>>,
         calls' = Others, UNCHANGED <<settings, buffers, owed>>, sent' = <<>>
  PROVE  LogInv' /\ Kept
<1>1. CallsInv'
  BY Returned DEF Others
<1>2. First4(Others, Owing) \in Seq(Notes)
  BY Innermost, OwingType, FirstType
<1>3. owed = First4(Others, Owing)
  BY <1>2, OwedOfTop, ConcatEmptySeq
<1>4. Owing' = Owing
  BY SameOwing
<1>5. owed' = First4(calls', Owing')
  BY <1>3, <1>4
<1>6. QED BY <1>1, <1>5, AllKept

(* It goes on, with as much to send.                                        *)
LEMMA GoOnKept ==
  ASSUME LogInv, calls # <<>>, ~Interrupted, NEW next \in Calls, InHand(next)',
         Owing[next] = Owing[Top],
         Proceed(<<>>, <<next>>), UNCHANGED <<settings, owed>>, sent' = <<>>
  PROVE  LogInv' /\ Kept
<1>1. calls' = <<next>> \o Others
  <2>1. calls' = (<<>> \o <<next>>) \o Others
    BY DEF Proceed, Others
  <2>2. <<>> \o <<next>> = <<next>>
    OBVIOUS
  <2>3. QED BY <2>1, <2>2
<1>2. CallsInv'
  BY <1>1, WentOn
<1>3. First4(<<next>> \o Others, Owing) = Owing[next] \o First4(Others, Owing)
  BY Innermost, OwingType, OwedApart
<1>4. Owing' = Owing
  BY SameOwing
<1>5. owed' = First4(calls', Owing')
  BY <1>1, <1>3, <1>4, OwedOfTop
<1>6. QED BY <1>2, <1>5, AllKept

(* It goes on, with as much to send, after it has logged a line for no      *)
(* client.                                                                 *)
LEMMA LogKept ==
  ASSUME LogInv, calls # <<>>, ~Interrupted,
         NEW log \in Calls, log.do = "LOG", ~Echoed(log.mask),
         NEW next \in Calls, next.do \in Encoding, InHand(next)',
         Owing[next] = Owing[Top],
         Proceed(<<log>>, <<next>>), UNCHANGED <<settings, owed>>, sent' = <<>>
  PROVE  LogInv' /\ Kept
<1>1. Others \in Seq(Calls) /\ Len(Others) <= 2 /\ Len(Others) \in Nat
  BY Innermost, OthersWait
<1>2. calls' = <<log>> \o (<<next>> \o Others)
  <2>1. calls' = (<<log>> \o <<next>>) \o Others
    BY DEF Proceed, Others
  <2>2. <<log>> \in Seq(Calls) /\ <<next>> \in Seq(Calls)
    OBVIOUS
  <2>3. QED BY <1>1, <2>1, <2>2, ConcatAssociative
<1>3. CallsInv'
  BY <1>2, Logged
<1> DEFINE rest == <<next>> \o Others
<1>4. rest \in Seq(Calls) /\ Len(rest) <= 3
  <2>1. rest \in Seq(Calls) /\ Len(rest) = Len(Others) + 1
    BY <1>1, Before
  <2>2. QED BY <1>1, <2>1
<1>5. First4(rest, Owing) = Owing[next] \o First4(Others, Owing)
  BY Innermost, OwingType, OwedApart
<1> HIDE DEF rest
<1>6. First4(<<log>> \o rest, Owing) = Owing[log] \o First4(rest, Owing)
  BY <1>4, OwingType, OwedApart
<1>7. Owing[log] = <<>>
  BY DEF Owing, OwedBy, Waiting
<1>8. First4(<<log>> \o rest, Owing) = First4(rest, Owing)
  <2>1. First4(rest, Owing) \in Seq(Notes)
    BY <1>4, OwingType, FirstType
  <2>2. QED BY <1>6, <1>7, <2>1, ConcatEmptySeq
<1>9. Owing' = Owing
  BY SameOwing
<1>10. owed' = First4(calls', Owing')
  BY <1>2, <1>5, <1>8, <1>9, OwedOfTop DEF rest
<1>11. QED BY <1>3, <1>10, AllKept

-----------------------------------------------------------------------------
(* The calls in progress.                                                  *)

(* A trace of one of these masks goes to no client; in classic format no    *)
(* line does.                                                              *)
LEMMA QuietLog ==
  ASSUME LogInv, NEW mask, mask \in {{"WIRE"}, {"AHSOKA"}} \/ (classic /\ mask = {"ERROR"}),
         NEW line \in Own
  PROVE  Log(mask, line) \in Calls /\ ~Echoed(mask)
<1>1. mask \in SUBSET Masks
  BY DEF Masks
<1>2. CliLine(line) \in Notes
  BY DEF CliLine, Note, Notes, Types, Text
<1>3. Log(mask, line) \in Calls
  BY <1>1, <1>2 DEF Log, Calls, CliLine, Note
<1>4. ~Echoed(mask)
  BY DEF LogInv, Echoed, i3_log_get_remote_cli_enable, Unsuppressed
<1>5. QED BY <1>3, <1>4

(* What begins, or goes on, with a message.                                 *)
LEMMA NextSending ==
  ASSUME NEW call \in Calls, NEW do \in Encoding
  PROVE  /\ Sending(do, call.note) \in Calls
         /\ Sending(do, call.note).do = do /\ Sending(do, call.note).note = call.note
         /\ connected => Owing[Sending(do, call.note)] = <<call.note>>
<1> DEFINE next == Sending(do, call.note)
<1>1. next.do = do /\ next.note = call.note
  BY DEF Sending
<1>2. next \in Calls
  BY DEF Sending, Calls, Encoding
<1>3. ~Waiting(next)
  BY <1>1 DEF Waiting, Encoding
<1> HIDE DEF next
<1>4. connected => Owing[next] = <<call.note>>
  BY <1>1, <1>2, <1>3 DEF Owing
<1>5. QED BY <1>1, <1>2, <1>4 DEF next

(* What has begun is not interrupted when it is the innermost call.         *)
LEMMA BegunNotInterrupted ==
  ASSUME LogInv, calls # <<>>, Top.do # "LOG" \/ Echoed(Top.mask) PROVE ~Interrupted
  BY DEF LogInv, Stack, Top

(* One lemma for each action of the calls in progress.                      *)
LEMMA LogLocallyStep == ASSUME LogInv, log_locally PROVE LogInv' /\ Kept
<1>1. calls # <<>> /\ Top.do = "LOG" /\ ~(Printed(Top.mask) /\ Echoed(Top.mask))
      /\ calls' = Others /\ UNCHANGED <<settings, buffers, owed>> /\ sent' = <<>>
  BY DEF log_locally, Others
<1>2. Owing[Top] = <<>>
  <2>1. Top \in Calls
    BY <1>1, Innermost
  <2>2. QED BY <1>1, <2>1 DEF Owing, OwedBy, Waiting
<1>3. QED BY <1>1, <1>2, ReturnKept

LEMMA NotConnectedStep == ASSUME LogInv, not_connected PROVE LogInv' /\ Kept
<1>1. calls # <<>> /\ Top.do \in {"RESPOND", "NOTIFY"} /\ ~connected
      /\ calls' = Others /\ UNCHANGED <<settings, buffers, owed>> /\ sent' = <<>>
  BY DEF not_connected, Others
<1>2. Owing[Top] = <<>>
  <2>1. Top \in Calls
    BY <1>1, Innermost
  <2>2. QED BY <1>1, <2>1 DEF Owing, OwedBy, Waiting
<1>3. QED BY <1>1, <1>2, ReturnKept

LEMMA LogRemotelyStep == ASSUME LogInv, log_remotely PROVE LogInv' /\ Kept
<1>1. /\ calls # <<>> /\ Top.do = "LOG" /\ Printed(Top.mask) /\ Echoed(Top.mask)
      /\ sLog_rcliBuf' = Top.note.payload
      /\ Proceed(<<>>, <<Sending("RESPOND", Top.note)>>)
      /\ sent' = <<>> /\ UNCHANGED <<settings, owed>>
  BY DEF log_remotely
<1>2. Top \in Calls /\ ~Interrupted
  BY <1>1, Innermost, BegunNotInterrupted
<1>3. PICK next : next = Sending("RESPOND", Top.note)
  OBVIOUS
<1>4. next \in Calls /\ next.do = "RESPOND" /\ next.note = Top.note
  BY <1>1, <1>2, <1>3 DEF Sending, Calls
<1>5. InHand(next)'
  BY <1>1, <1>4 DEF InHand, Encoding
<1>6. Owing[next] = Owing[Top]
  BY <1>1, <1>2, <1>4 DEF Owing, OwedBy, Waiting
<1>7. Proceed(<<>>, <<next>>)
  BY <1>1, <1>3
<1>8. QED BY <1>1, <1>2, <1>4, <1>5, <1>6, <1>7, GoOnKept

LEMMA RespondStep == ASSUME LogInv, pvtCr_cli_respond PROVE LogInv' /\ Kept
<1>1. /\ calls # <<>> /\ Top.do = "RESPOND" /\ connected
      /\ sCr_raw_notification' = CliLine(sLog_rcliBuf)
      /\ Proceed(<<Log({"WIRE"}, "trace")>>, <<Sending("ENCODE", Top.note)>>)
      /\ sent' = <<>> /\ UNCHANGED <<settings, sLog_rcliBuf, owed>>
  BY DEF pvtCr_cli_respond
<1>2. Top \in Calls /\ ~Interrupted /\ InHand(Top)
  BY <1>1, Innermost, BegunNotInterrupted
<1>3. Top.note = CliLine(Top.note.payload) /\ Top.note = CliLine(sLog_rcliBuf)
  <2>1. Top.note = CliLine(Top.note.payload)
    BY <1>1, <1>2 DEF Calls
  <2>2. Top.note.type = "CLI_NOTIFICATION"
    BY <2>1 DEF CliLine, Note
  <2>3. QED BY <1>1, <1>2, <2>1, <2>2 DEF InHand
<1>4. PICK next, log : next = Sending("ENCODE", Top.note) /\ log = Log({"WIRE"}, "trace")
  OBVIOUS
<1>5. next \in Calls /\ next.do = "ENCODE" /\ next.note = Top.note /\ Owing[next] = <<Top.note>>
  BY <1>1, <1>2, <1>4, NextSending DEF Encoding
<1>6. InHand(next)'
  BY <1>1, <1>2, <1>3, <1>5 DEF InHand, Encoding, CliLine, Note, settings
<1>7. Owing[Top] = <<Top.note>>
  BY <1>1, <1>2 DEF Owing, Waiting
<1>8. log \in Calls /\ log.do = "LOG" /\ ~Echoed(log.mask)
  BY <1>4, QuietLog DEF Own, Log
<1>9. Proceed(<<log>>, <<next>>)
  BY <1>1, <1>4
<1>10. next.do \in Encoding
  BY <1>5 DEF Encoding
<1>11. QED BY <1>1, <1>2, <1>5, <1>6, <1>7, <1>8, <1>9, <1>10, LogKept

LEMMA NotifyStep == ASSUME LogInv, pvtCr_notify PROVE LogInv' /\ Kept
<1>1. /\ calls # <<>> /\ Top.do = "NOTIFY" /\ connected
      /\ sCr_raw_notification' = Top.note
      /\ Proceed(<<>>, <<Sending("ENCODE", Top.note)>>)
      /\ sent' = <<>> /\ UNCHANGED <<settings, owed>>
  BY DEF pvtCr_notify
<1>2. Top \in Calls /\ ~Interrupted
  BY <1>1, Innermost, BegunNotInterrupted
<1>3. PICK next : next = Sending("ENCODE", Top.note)
  OBVIOUS
<1>4. next \in Calls /\ next.do = "ENCODE" /\ next.note = Top.note /\ Owing[next] = <<Top.note>>
  BY <1>1, <1>2, <1>3, NextSending DEF Encoding
<1>5. Top.note.type # "CLI_NOTIFICATION"
  BY <1>1, <1>2 DEF Calls
<1>6. InHand(next)'
  BY <1>1, <1>4, <1>5 DEF InHand, Encoding, settings
<1>7. Owing[next] = Owing[Top]
  BY <1>1, <1>2, <1>4 DEF Owing, OwedBy, Waiting
<1>8. Proceed(<<>>, <<next>>)
  BY <1>1, <1>3
<1>9. QED BY <1>1, <1>2, <1>4, <1>6, <1>7, <1>8, GoOnKept

LEMMA EncodeClassicStep == ASSUME LogInv, encode_classic PROVE LogInv' /\ Kept
<1>1. /\ calls # <<>> /\ Top.do = "ENCODE" /\ classic
      /\ Proceed(<<Log({"ERROR"}, "Notifications no longer supported")>>,
                 <<Sending("SEND", Top.note)>>)
      /\ sent' = <<>> /\ UNCHANGED <<settings, buffers, owed>>
  BY DEF encode_classic
<1>2. Top \in Calls /\ ~Interrupted /\ InHand(Top)
  BY <1>1, Innermost, BegunNotInterrupted
<1>3. connected
  BY <1>1, <1>2 DEF InHand, Encoding
<1>4. PICK next, log : /\ next = Sending("SEND", Top.note)
                       /\ log = Log({"ERROR"}, "Notifications no longer supported")
  OBVIOUS
<1>5. next \in Calls /\ next.do = "SEND" /\ next.note = Top.note /\ Owing[next] = <<Top.note>>
  BY <1>2, <1>3, <1>4, NextSending DEF Encoding
<1>6. InHand(next)'
  BY <1>1, <1>2, <1>3, <1>5 DEF InHand, settings, buffers
<1>7. Owing[Top] = <<Top.note>>
  BY <1>1, <1>2, <1>3 DEF Owing, Waiting
<1>8. log \in Calls /\ log.do = "LOG" /\ ~Echoed(log.mask)
  BY <1>1, <1>4, QuietLog DEF Own, Log
<1>9. Proceed(<<log>>, <<next>>)
  BY <1>1, <1>4
<1>10. next.do \in Encoding
  BY <1>5 DEF Encoding
<1>11. QED BY <1>1, <1>2, <1>5, <1>6, <1>7, <1>8, <1>9, <1>10, LogKept

LEMMA EncodeHeaderStep == ASSUME LogInv, encode_header PROVE LogInv' /\ Kept
<1>1. /\ calls # <<>> /\ Top.do = "ENCODE"
      /\ Proceed(<<Log({"AHSOKA"}, "trace")>>, <<Sending("ENCODE_PAYLOAD", Top.note)>>)
      /\ sent' = <<>> /\ UNCHANGED <<settings, buffers, owed>>
  BY DEF encode_header
<1>2. Top \in Calls /\ ~Interrupted /\ InHand(Top)
  BY <1>1, Innermost, BegunNotInterrupted
<1>3. connected
  BY <1>1, <1>2 DEF InHand, Encoding
<1>4. PICK next, log : next = Sending("ENCODE_PAYLOAD", Top.note) /\ log = Log({"AHSOKA"}, "trace")
  OBVIOUS
<1>5. /\ next \in Calls /\ next.do = "ENCODE_PAYLOAD" /\ next.note = Top.note
      /\ Owing[next] = <<Top.note>>
  BY <1>2, <1>3, <1>4, NextSending DEF Encoding
<1>6. InHand(next)'
  BY <1>1, <1>2, <1>3, <1>5 DEF InHand, settings, buffers
<1>7. Owing[Top] = <<Top.note>>
  BY <1>1, <1>2, <1>3 DEF Owing, Waiting
<1>8. log \in Calls /\ log.do = "LOG" /\ ~Echoed(log.mask)
  BY <1>4, QuietLog DEF Own, Log
<1>9. Proceed(<<log>>, <<next>>)
  BY <1>1, <1>4
<1>10. next.do \in Encoding
  BY <1>5 DEF Encoding
<1>11. QED BY <1>1, <1>2, <1>5, <1>6, <1>7, <1>8, <1>9, <1>10, LogKept

LEMMA EncodePayloadStep == ASSUME LogInv, encode_payload PROVE LogInv' /\ Kept
<1>1. /\ calls # <<>> /\ Top.do = "ENCODE_PAYLOAD"
      /\ sCr_coded_notification' = sCr_raw_notification
      /\ Proceed(<<>>, <<Sending("SEND", Top.note)>>)
      /\ sent' = <<>> /\ UNCHANGED <<settings, sLog_rcliBuf, sCr_raw_notification, owed>>
  BY DEF encode_payload
<1>2. Top \in Calls /\ ~Interrupted /\ InHand(Top)
  BY <1>1, Innermost, BegunNotInterrupted
<1>3. connected
  BY <1>1, <1>2 DEF InHand, Encoding
<1>4. PICK next : next = Sending("SEND", Top.note)
  OBVIOUS
<1>5. next \in Calls /\ next.do = "SEND" /\ next.note = Top.note /\ Owing[next] = <<Top.note>>
  BY <1>2, <1>3, <1>4, NextSending DEF Encoding
<1>6. InHand(next)'
  BY <1>1, <1>2, <1>3, <1>5 DEF InHand, settings
<1>7. Owing[next] = Owing[Top]
  BY <1>1, <1>2, <1>3, <1>5 DEF Owing, Waiting
<1>8. Proceed(<<>>, <<next>>)
  BY <1>1, <1>4
<1>9. QED BY <1>1, <1>2, <1>5, <1>6, <1>7, <1>8, GoOnKept

LEMMA SendStep == ASSUME LogInv, crcb_send_coded_response PROVE LogInv' /\ Kept
<1>1. /\ calls # <<>> /\ Top.do = "SEND" /\ sent' = <<sCr_coded_notification>>
      /\ calls' = Others /\ UNCHANGED <<settings, buffers>>
      /\ owed' = IF owed = <<>> THEN owed ELSE Tail(owed)
  BY DEF crcb_send_coded_response, Others
<1>2. Top \in Calls /\ InHand(Top) /\ Others \in Seq(Calls)
  BY <1>1, Innermost DEF Others
<1>3. CallsInv'
  BY <1>1, Returned DEF Others
<1>4. connected /\ (~classic => sCr_coded_notification = Top.note)
  BY <1>1, <1>2 DEF InHand, Encoding
<1>5. Owing[Top] = <<Top.note>>
  BY <1>1, <1>2, <1>4 DEF Owing, Waiting
<1> DEFINE rest == First4(Others, Owing)
<1>6. rest \in Seq(Notes) /\ Top.note \in Notes
  BY <1>2, OwingType, FirstType DEF Calls
<1>7. owed = <<Top.note>> \o rest
  BY <1>1, <1>5, OwedOfTop
<1> HIDE DEF rest
<1>8. owed # <<>> /\ Head(owed) = Top.note /\ Tail(owed) = rest
  BY <1>6, <1>7, Before
<1>9. owed' = First4(calls', Owing')
  BY <1>1, <1>8, SameOwing DEF rest
<1>10. Kept
  <2>1. ~classic => owed # <<>> /\ sent' = <<Head(owed)>>
    BY <1>1, <1>4, <1>8
  <2>2. calls' = <<>> => owed' = <<>>
    BY <1>9 DEF First4
  <2>3. QED BY <2>1, <2>2 DEF Kept
<1>11. QED BY <1>3, <1>9, <1>10 DEF CallsInv, LogInv

-----------------------------------------------------------------------------
(* What the application calls.                                              *)

(* Sequences written out.                                                   *)
LEMMA Written ==
  ASSUME NEW S, NEW a \in S, NEW b \in S, NEW c \in S
  PROVE  /\ <<a>> \o <<b>> = <<a, b>>
         /\ <<a>> \o <<b, c>> = <<a, b, c>>
         /\ (<<a>> \o <<b>>) \o <<c>> = <<a, b, c>>
         /\ (<<a>> \o <<>>) \o <<b>> = <<a, b>>
<1>1. <<a>> \in Seq(S) /\ <<b>> \in Seq(S) /\ <<c>> \in Seq(S)
      /\ <<a, b>> \in Seq(S) /\ <<b, c>> \in Seq(S) /\ <<a, b, c>> \in Seq(S)
  OBVIOUS
<1>2. Len(<<b>>) = 1 /\ Len(<<a, b>>) = 2 /\ Len(<<b, c>>) = 2 /\ Len(<<a, b, c>>) = 3
  OBVIOUS
<1>3. ASSUME NEW x \in S, NEW s \in Seq(S), NEW t \in Seq(S), Len(t) = Len(s) + 1,
             t[1] = x, \A i \in 1 .. Len(s) : t[i + 1] = s[i]
      PROVE  <<x>> \o s = t
  <2> DEFINE u == <<x>> \o s
  <2>1. u \in Seq(S) /\ Len(u) = Len(s) + 1 /\ Len(s) \in Nat
    BY Before
  <2>2. u[1] = x /\ \A i \in 1 .. Len(s) : u[i + 1] = s[i]
    BY Before
  <2> HIDE DEF u
  <2>3. ASSUME NEW i \in 1 .. Len(u) PROVE u[i] = t[i]
    <3>1. CASE i = 1
      BY <1>3, <2>2, <3>1
    <3>2. CASE i # 1
      <4>1. i - 1 \in 1 .. Len(s) /\ (i - 1) + 1 = i
        BY <2>1, <3>2
      <4>2. QED BY <1>3, <2>2, <4>1
    <3>3. QED BY <3>1, <3>2
  <2>4. u = t
    BY <1>3, <2>1, <2>3, SeqEqual
  <2>5. QED BY <2>4 DEF u
<1>4. ASSUME NEW x \in S, NEW y \in S PROVE <<x>> \o <<y>> = <<x, y>>
  <2> DEFINE s == <<y>>
             t == <<x, y>>
  <2>1. s \in Seq(S) /\ t \in Seq(S) /\ Len(t) = Len(s) + 1 /\ t[1] = x
    OBVIOUS
  <2>2. \A i \in 1 .. Len(s) : t[i + 1] = s[i]
    OBVIOUS
  <2> HIDE DEF s, t
  <2>3. <<x>> \o s = t
    BY <1>3, <2>1, <2>2
  <2>4. QED BY <2>3 DEF s, t
<1>5. <<a>> \o <<b, c>> = <<a, b, c>>
  <2> DEFINE s == <<b, c>>
             t == <<a, b, c>>
  <2>1. s \in Seq(S) /\ t \in Seq(S) /\ Len(t) = Len(s) + 1 /\ t[1] = a
    OBVIOUS
  <2>2. \A i \in 1 .. Len(s) : t[i + 1] = s[i]
    OBVIOUS
  <2> HIDE DEF s, t
  <2>3. <<a>> \o s = t
    BY <1>3, <2>1, <2>2
  <2>4. QED BY <2>3 DEF s, t
<1>6. <<b>> \o <<c>> = <<b, c>> /\ <<a>> \o <<b>> = <<a, b>>
  BY <1>4
<1>7. (<<a>> \o <<b>>) \o <<c>> = <<a, b, c>>
  <2>1. (<<a>> \o <<b>>) \o <<c>> = <<a>> \o (<<b>> \o <<c>>)
    <3> DEFINE s == <<a>>
               t == <<b>>
               u == <<c>>
    <3>1. s \in Seq(S) /\ t \in Seq(S) /\ u \in Seq(S)
      BY <1>1
    <3> HIDE DEF s, t, u
    <3>2. (s \o t) \o u = s \o (t \o u)
      BY <3>1, ConcatAssociative
    <3>3. QED BY <3>2 DEF s, t, u
  <2>2. QED BY <1>5, <1>6, <2>1
<1>8. (<<a>> \o <<>>) \o <<b>> = <<a, b>>
  BY <1>1, <1>6, ConcatEmptySeq
<1>9. QED BY <1>6, <1>5, <1>7, <1>8

(* What one, two or three calls that wait owe, in order.                    *)
LEMMA MadeOwes ==
  ASSUME NEW a \in Calls, Waiting(a)
  PROVE  /\ First4(<<a>>, Owing) = OwedByAll(<<a>>)
         /\ \A b \in Calls : Waiting(b) => First4(<<a, b>>, Owing) = OwedByAll(<<a, b>>)
         /\ \A b, c \in Calls : Waiting(b) /\ Waiting(c)
              => First4(<<a, b, c>>, Owing) = OwedByAll(<<a, b, c>>)
<1>1. \A call \in Calls : Waiting(call) => Owing[call] = OwedBy(call)
  BY DEF Owing
<1>2. \A call \in Calls : Owing[call] \in Seq(Notes)
  BY OwingType
<1>3. \A x \in Calls : First4(<<x>>, Owing) = Owing[x]
  <2> TAKE x \in Calls
  <2> DEFINE s == <<x>>
  <2>1. s \in Seq(Calls) /\ Len(s) <= 1 /\ Len(s) <= 2 /\ Len(s) <= 3 /\ s # <<>> /\ Head(s) = x
    OBVIOUS
  <2> HIDE DEF s
  <2>2. First4(s, Owing) = First1(s, Owing)
    BY <2>1, OwingType, Short1, Short2, Short3
  <2>3. QED BY <2>1, <2>2 DEF First1, s
<1>4. \A x, y \in Calls : First4(<<x, y>>, Owing) = Owing[x] \o Owing[y]
  <2> TAKE x, y \in Calls
  <2>1. <<y>> \in Seq(Calls) /\ Len(<<y>>) <= 3
    OBVIOUS
  <2>2. <<x, y>> = <<x>> \o <<y>>
    BY Written
  <2>3. First4(<<x>> \o <<y>>, Owing) = Owing[x] \o First4(<<y>>, Owing)
    BY <2>1, OwingType, OwedApart
  <2>4. QED BY <1>3, <2>2, <2>3
<1>5. \A x, y, z \in Calls : First4(<<x, y, z>>, Owing) = (Owing[x] \o Owing[y]) \o Owing[z]
  <2> TAKE x, y, z \in Calls
  <2>1. <<y, z>> \in Seq(Calls) /\ Len(<<y, z>>) <= 3
    OBVIOUS
  <2>2. <<x, y, z>> = <<x>> \o <<y, z>>
    BY Written
  <2>3. First4(<<x>> \o <<y, z>>, Owing) = Owing[x] \o First4(<<y, z>>, Owing)
    BY <2>1, OwingType, OwedApart
  <2>4. PICK r \in Seq(Notes), s \in Seq(Notes), t \in Seq(Notes) :
          Owing[x] = r /\ Owing[y] = s /\ Owing[z] = t
    BY <1>2
  <2>5. r \o (s \o t) = (r \o s) \o t
    BY ConcatAssociative
  <2>6. QED BY <1>4, <2>2, <2>3, <2>4, <2>5
<1>6. /\ OwedByAll(<<a>>) = OwedBy(a)
      /\ \A b : OwedByAll(<<a, b>>) = OwedBy(a) \o OwedBy(b)
      /\ \A b, c : OwedByAll(<<a, b, c>>) = OwedBy(a) \o OwedBy(b) \o OwedBy(c)
  BY DEF OwedByAll
<1>7. First4(<<a>>, Owing) = OwedByAll(<<a>>)
  BY <1>1, <1>3, <1>6
<1>8. ASSUME NEW b \in Calls, Waiting(b) PROVE First4(<<a, b>>, Owing) = OwedByAll(<<a, b>>)
  BY <1>1, <1>4, <1>6, <1>8
<1>9. ASSUME NEW b \in Calls, NEW c \in Calls, Waiting(b), Waiting(c)
      PROVE  First4(<<a, b, c>>, Owing) = OwedByAll(<<a, b, c>>)
  <2>1. Owing[a] = OwedBy(a) /\ Owing[b] = OwedBy(b) /\ Owing[c] = OwedBy(c)
    BY <1>1, <1>9
  <2>2. First4(<<a, b, c>>, Owing) = (Owing[a] \o Owing[b]) \o Owing[c]
    BY <1>5
  <2>3. OwedByAll(<<a, b, c>>) = (OwedBy(a) \o OwedBy(b)) \o OwedBy(c)
    BY <1>6
  <2>4. QED BY <2>1, <2>2, <2>3
<1>10. QED BY <1>7, <1>8, <1>9

LEMMA BelowFour == ASSUME NEW n \in Nat, n <= 3 PROVE n <= 4 /\ n # 4
  OBVIOUS

(* The application makes calls, which wait.                                 *)
LEMMA MakeKept ==
  ASSUME LogInv, NEW made \in Seq(Calls), Len(made) <= 3,
         \A i \in 1 .. Len(made) : Waiting(made[i]),
         First4(made, Owing) = OwedByAll(made),
         Make(made), UNCHANGED settings
  PROVE  LogInv' /\ Kept
<1>1. calls' = made /\ owed' = OwedByAll(made) /\ sent' = <<>>
  BY DEF Make
<1>0. Len(made) \in Nat
  BY LenProperties
<1>2. \A i \in 1 .. Len(made) : made[i] \in Calls
  BY ElementOfSeq
<1>3. \A i \in 1 .. Len(made) : InHand(made[i])'
  BY <1>2 DEF Calls, Waiting, InHand, Encoding
<1>4. ~Interrupted'
  <2>1. Len(made) > 1 => Waiting(made[2])
    BY <1>0
  <2>2. QED BY <1>1, <2>1 DEF Interrupted, Waiting, Encoding
<1>5. Stack'
  <2>1. \A i \in 1 .. Len(calls') : Waiting(calls[i])'
    BY <1>1 DEF Waiting
  <2>2. Len(made) <= 4 /\ Len(made) # 4
    BY <1>0, BelowFour
  <2>3. QED BY <1>1, <1>4, <2>1, <2>2 DEF Stack
<1>6. \A i \in 1 .. Len(calls') : InHand(calls[i])'
  BY <1>1, <1>3 DEF InHand
<1>7. CallsInv'
  BY <1>5, <1>6 DEF CallsInv, LogInv, settings
<1>8. owed' = First4(calls', Owing')
  BY <1>1, SameOwing
<1>9. QED BY <1>1, <1>7, <1>8, AllKept

(* The calls that the application makes.                                    *)
LEMMA MadeCalls ==
  /\ \A mask \in SUBSET Masks, line \in Text :
       Log(mask, line) \in Calls /\ Waiting(Log(mask, line))
  /\ \A type \in Types \ {"CLI_NOTIFICATION"}, payload \in Text \cup Payloads :
       LET call == Sending("NOTIFY", Note(type, payload)) IN call \in Calls /\ Waiting(call)
<1>1. ASSUME NEW mask \in SUBSET Masks, NEW line \in Text
      PROVE  Log(mask, line) \in Calls /\ Waiting(Log(mask, line))
  BY DEF Log, Calls, CliLine, Note, Notes, Types, Waiting
<1>2. ASSUME NEW type \in Types \ {"CLI_NOTIFICATION"}, NEW payload \in Text \cup Payloads
      PROVE  /\ Sending("NOTIFY", Note(type, payload)) \in Calls
             /\ Waiting(Sending("NOTIFY", Note(type, payload)))
  BY DEF Sending, Calls, Note, Notes, Waiting
<1>3. QED BY <1>1, <1>2

LEMMA Make1 ==
  ASSUME LogInv, NEW a \in Calls, Waiting(a), Make(<<a>>), UNCHANGED settings
  PROVE  LogInv' /\ Kept
<1> DEFINE made == <<a>>
<1>1. made \in Seq(Calls) /\ Len(made) <= 3 /\ \A i \in 1 .. Len(made) : Waiting(made[i])
  OBVIOUS
<1>2. First4(made, Owing) = OwedByAll(made) /\ Make(made)
  BY MadeOwes
<1> HIDE DEF made
<1>3. QED BY <1>1, <1>2, MakeKept

LEMMA Make2 ==
  ASSUME LogInv, NEW a \in Calls, NEW b \in Calls, Waiting(a), Waiting(b),
         Make(<<a, b>>), UNCHANGED settings
  PROVE  LogInv' /\ Kept
<1> DEFINE made == <<a, b>>
<1>1. made \in Seq(Calls) /\ Len(made) <= 3 /\ \A i \in 1 .. Len(made) : Waiting(made[i])
  OBVIOUS
<1>2. First4(made, Owing) = OwedByAll(made) /\ Make(made)
  BY MadeOwes
<1> HIDE DEF made
<1>3. QED BY <1>1, <1>2, MakeKept

LEMMA Make3 ==
  ASSUME LogInv, NEW a \in Calls, NEW b \in Calls, NEW c \in Calls,
         Waiting(a), Waiting(b), Waiting(c), Make(<<a, b, c>>), UNCHANGED settings
  PROVE  LogInv' /\ Kept
<1> DEFINE made == <<a, b, c>>
<1>1. made \in Seq(Calls) /\ Len(made) <= 3 /\ \A i \in 1 .. Len(made) : Waiting(made[i])
  OBVIOUS
<1>2. First4(made, Owing) = OwedByAll(made) /\ Make(made)
  BY MadeOwes
<1> HIDE DEF made
<1>3. QED BY <1>1, <1>2, MakeKept

LEMMA LogStep == ASSUME LogInv, i3_log, UNCHANGED settings PROVE LogInv' /\ Kept
<1>1. PICK mask \in LineMasks, line \in Lines : Make(<<Log(mask, line)>>)
  BY DEF i3_log
<1>2. Log(mask, line) \in Calls /\ Waiting(Log(mask, line))
  BY MadeCalls, RemoteLogAssumption DEF Text
<1>3. QED BY <1>1, <1>2, Make1

LEMMA ReportStep == ASSUME LogInv, cr_report_error, UNCHANGED settings PROVE LogInv' /\ Kept
<1> DEFINE report == Sending("NOTIFY", Note("ERROR_REPORT", "Error message"))
           full   == Log({"WARN"}, "Logged Error full report")
           error  == Log({"ERROR"}, "Error message")
           none   == Log({"ERROR"}, "report disabled")
<1>1. {"WARN"} \in SUBSET Masks /\ {"ERROR"} \in SUBSET Masks
      /\ "Logged Error full report" \in Text /\ "Error message" \in Text
      /\ "report disabled" \in Text /\ "ERROR_REPORT" \in Types \ {"CLI_NOTIFICATION"}
  BY DEF Masks, Text, Own, Types
<1>2. /\ report \in Calls /\ Waiting(report) /\ full \in Calls /\ Waiting(full)
      /\ error \in Calls /\ Waiting(error) /\ none \in Calls /\ Waiting(none)
  BY <1>1, MadeCalls
<1>3. Make(<<report, full, error>>) \/ Make(<<none>>)
  BY DEF cr_report_error
<1> HIDE DEF report, full, error, none
<1>4. QED BY <1>2, <1>3, Make1, Make3

LEMMA NotifyingStep == ASSUME LogInv, notify, UNCHANGED settings PROVE LogInv' /\ Kept
<1>1. PICK type \in {"PARAMETER_NOTIFICATION", "STREAM_DATA_NOTIFICATION"}, payload \in Payloads :
        Make(<<Sending("NOTIFY", Note(type, payload))>>)
  BY DEF notify
<1> DEFINE call == Sending("NOTIFY", Note(type, payload))
<1>2. call \in Calls /\ Waiting(call)
  BY MadeCalls DEF Types
<1> HIDE DEF call
<1>3. Make(<<call>>)
  BY <1>1 DEF call
<1>4. QED BY <1>2, <1>3, Make1

LEMMA CommandStep ==
  ASSUME LogInv, handle_cli_notification PROVE LogInv' /\ Kept
<1> DEFINE first  == Log({"ALWAYS"}, "Remote command")
           second == Log({"WARN"}, "response disabled")
<1>1. PICK mask \in LineMasks, line \in Lines :
        Make(<<first>> \o (IF i3_log_get_remote_cli_enable THEN <<>> ELSE <<second>>)
               \o <<Log(mask, line)>>)
  BY DEF handle_cli_notification
<1> DEFINE third == Log(mask, line)
<1>2. UNCHANGED settings
  BY DEF handle_cli_notification
<1>3. /\ first \in Calls /\ Waiting(first) /\ second \in Calls /\ Waiting(second)
      /\ third \in Calls /\ Waiting(third)
  <2>1. {"ALWAYS"} \in SUBSET Masks /\ {"WARN"} \in SUBSET Masks /\ mask \in SUBSET Masks
        /\ "Remote command" \in Text /\ "response disabled" \in Text /\ line \in Text
    BY RemoteLogAssumption DEF Masks, Text, Own
  <2>2. QED BY <2>1, MadeCalls
<1>4. Make(<<first>> \o (IF i3_log_get_remote_cli_enable THEN <<>> ELSE <<second>>) \o <<third>>)
  BY <1>1
<1> HIDE DEF first, second, third
<1>5. CASE i3_log_get_remote_cli_enable
  <2>1. <<first>> \o <<>> \o <<third>> = <<first, third>>
    BY <1>3, Written
  <2>2. Make(<<first, third>>)
    BY <1>4, <1>5, <2>1
  <2>3. QED BY <1>2, <1>3, <2>2, Make2
<1>6. CASE ~i3_log_get_remote_cli_enable
  <2>1. <<first>> \o <<second>> \o <<third>> = <<first, second, third>>
    BY <1>3, Written
  <2>2. Make(<<first, second, third>>)
    BY <1>4, <1>6, <2>1
  <2>3. QED BY <1>2, <1>3, <2>2, Make3
<1>7. QED BY <1>5, <1>6

(* A setting is changed when no call is in progress.                        *)
LEMMA SettingStep ==
  ASSUME LogInv, calls = <<>>, UNCHANGED <<calls, owed>>, sent' = <<>>,
         (classic => ~access_granted)'
  PROVE  LogInv' /\ Kept
<1>1. calls' = <<>> /\ owed' = <<>>
  BY DEF LogInv, First4
<1>2. Stack'
  BY <1>1, EmptySeq DEF Stack, Interrupted
<1>3. CallsInv'
  BY <1>1, <1>2 DEF CallsInv
<1>4. owed' = First4(calls', Owing')
  BY <1>1 DEF First4
<1>5. QED BY <1>3, <1>4, AllKept

-----------------------------------------------------------------------------
(* The theorems.                                                           *)

LEMMA InitLogInv == ASSUME Init PROVE LogInv
  BY EmptySeq DEF Init, LogInv, Stack, Interrupted, First4

LEMMA StepLogInv == ASSUME ClassicHasNoAccess, LogInv, Next PROVE LogInv' /\ Kept
<1>1. CASE log_locally
  BY <1>1, LogLocallyStep
<1>2. CASE log_remotely
  BY <1>2, LogRemotelyStep
<1>3. CASE not_connected
  BY <1>3, NotConnectedStep
<1>4. CASE pvtCr_cli_respond
  BY <1>4, RespondStep
<1>5. CASE pvtCr_notify
  BY <1>5, NotifyStep
<1>6. CASE encode_classic
  BY <1>6, EncodeClassicStep
<1>7. CASE encode_header
  BY <1>7, EncodeHeaderStep
<1>8. CASE encode_payload
  BY <1>8, EncodePayloadStep
<1>9. CASE crcb_send_coded_response
  BY <1>9, SendStep
<1>10. CASE (i3_log \/ cr_report_error \/ notify) /\ UNCHANGED settings
  BY <1>10, LogStep, ReportStep, NotifyingStep
<1>11. CASE handle_cli_notification
  BY <1>11, CommandStep
<1>12. CASE i3_log_set_mask
  BY <1>12, SettingStep DEF i3_log_set_mask, AtRest, LogInv
<1>13. CASE i3_log_set_remote_cli_enable
  BY <1>13, SettingStep DEF i3_log_set_remote_cli_enable, AtRest, LogInv
<1>14. CASE cr_set_comm_link_connected
  BY <1>14, SettingStep DEF cr_set_comm_link_connected, AtRest, LogInv
<1>15. CASE handle_get_device_info
  BY <1>15, SettingStep DEF handle_get_device_info, AtRest, ClassicHasNoAccess
<1>16. QED
  BY <1>1, <1>2, <1>3, <1>4, <1>5, <1>6, <1>7, <1>8, <1>9, <1>10, <1>11, <1>12, <1>13, <1>14,
     <1>15 DEF Next, Call, Application

LEMMA StutterLogInv == ASSUME LogInv, UNCHANGED vars PROVE LogInv'
<1>1. UNCHANGED <<settings, buffers, calls, owed>>
  BY DEF vars
<1>2. \A i \in 1 .. Len(calls) : InHand(calls[i])'
  BY <1>1 DEF LogInv, InHand, settings, buffers
<1>3. Stack'
  BY <1>1 DEF LogInv, Stack, Interrupted, Echoed, i3_log_get_remote_cli_enable, settings
<1>4. QED BY <1>1, <1>2, <1>3, SameOwing DEF LogInv, settings, buffers

(* At every moment only the innermost call has begun, or a line for no      *)
(* client interrupts it, and what the buffers hold is what it is sending.   *)
THEOREM LogInvAlways ==
  ASSUME ClassicHasNoAccess PROVE Spec => []LogInv
<1>1. Init => LogInv
  BY InitLogInv
<1>2. LogInv /\ [Next]_vars => LogInv'
  BY StepLogInv, StutterLogInv
<1>3. QED BY <1>1, <1>2, PTL DEF Spec

(* If a classic client has no access to the command line, no line and no    *)
(* message is overwritten in its buffer before it is sent or encoded.       *)
THEOREM BuffersAreKept ==
  ASSUME ClassicHasNoAccess PROVE Spec => []BufferSentBeforeReused
<1>1. LogInv => BufferSentBeforeReused
  BY LenProperties DEF LogInv, Stack, InHand, BufferSentBeforeReused
<1>2. QED BY <1>1, LogInvAlways, PTL

(* Under the same condition an Ahsoka client gets what the application's    *)
(* calls owe it, in order, all of it before the call returns, and nothing   *)
(* else.                                                                   *)
THEOREM ClientGetsWhatIsOwed ==
  ASSUME ClassicHasNoAccess PROVE Spec => SentAsOwed
<1>1. LogInv /\ [Next]_vars => [Kept]_vars
  BY StepLogInv
<1>2. QED BY <1>1, LogInvAlways, PTL DEF Spec, SentAsOwed, Kept

-----------------------------------------------------------------------------
(* The types, for every client: the log may call itself, as deep as the     *)
(* bound allows.                                                           *)

TypedNotes ==
  [type: {"CLI_NOTIFICATION"}, payload: Text]
    \cup [type: {"ERROR_REPORT"}, payload: {"Error message"}]
    \cup [type: {"PARAMETER_NOTIFICATION", "STREAM_DATA_NOTIFICATION"}, payload: Payloads]

(* The calls there may be while the buffer for the client holds this: one   *)
(* that answers with it finds a line there.                                *)
TypedCalls(line) ==
  { call \in [do: {"LOG", "RESPOND", "NOTIFY"} \cup Encoding, mask: SUBSET Masks,
              note: TypedNotes] :
      /\ call.do \in {"LOG", "RESPOND"} => call.note.type = "CLI_NOTIFICATION"
      /\ call.do = "RESPOND" => line \in Text }

SettingTypes ==
  /\ build \in Builds
  /\ connected \in BOOLEAN /\ access_granted \in BOOLEAN /\ classic \in BOOLEAN
  /\ sLogMask \in LogMasks \cup {{}}
  /\ sUseRemoteCLI \in BOOLEAN

BufferTypes ==
  /\ sLog_rcliBuf \in Text \cup {"NONE"}
  /\ sCr_raw_notification \in TypedNotes \cup {Nothing}
  /\ sCr_coded_notification \in TypedNotes \cup {Nothing}

CallTypes == calls \in Seq(TypedCalls(sLog_rcliBuf)) /\ Len(calls) <= CallDepth

SentTypes == sent \in Seq(TypedNotes \cup {Nothing}) /\ owed \in Seq(TypedNotes)

LogTypes == SettingTypes /\ BufferTypes /\ CallTypes /\ SentTypes

LEMMA TypedIsNote ==
  \A note \in TypedNotes \cup {Nothing} : IsNote(note)
  BY DEF TypedNotes, IsNote, Types

LEMMA LogTypesAreTypes == ASSUME LogTypes PROVE TypeOK
<1>1. ASSUME NEW i \in DOMAIN calls
      PROVE  /\ calls[i].do \in {"LOG", "RESPOND", "NOTIFY", "ENCODE", "ENCODE_PAYLOAD", "SEND"}
             /\ calls[i].mask \in SUBSET Masks
             /\ IsNote(calls[i].note)
  <2>1. calls[i] \in TypedCalls(sLog_rcliBuf)
    BY ElementOfSeq, LenProperties DEF LogTypes, CallTypes
  <2>2. QED BY <2>1, TypedIsNote DEF TypedCalls, Encoding
<1>2. \A i \in DOMAIN sent : IsNote(sent[i])
  BY ElementOfSeq, LenProperties, TypedIsNote DEF LogTypes, SentTypes
<1>3. \A i \in DOMAIN owed : IsNote(owed[i])
  BY ElementOfSeq, LenProperties, TypedIsNote DEF LogTypes, SentTypes
<1>4. QED
  BY <1>1, <1>2, <1>3, TypedIsNote
     DEF LogTypes, SettingTypes, BufferTypes, CallTypes, TypeOK

(* The innermost call, and the others.                                      *)
LEMMA TypedTop ==
  ASSUME LogTypes, calls # <<>>
  PROVE  /\ Top \in TypedCalls(sLog_rcliBuf)
         /\ Tail(calls) \in Seq(TypedCalls(sLog_rcliBuf))
         /\ Len(Tail(calls)) = Len(calls) - 1 /\ Len(calls) \in Nat
         /\ Len(Tail(calls)) <= CallDepth
<1>1. calls \in Seq(TypedCalls(sLog_rcliBuf)) /\ Len(calls) <= CallDepth
  BY DEF LogTypes, CallTypes
<1>2. /\ Top \in TypedCalls(sLog_rcliBuf)
      /\ Tail(calls) \in Seq(TypedCalls(sLog_rcliBuf))
      /\ Len(Tail(calls)) = Len(calls) - 1
  BY <1>1, HeadTailProperties DEF Top
<1>3. Len(calls) \in Nat
  BY <1>1, LenProperties
<1>4. QED BY <1>1, <1>2, <1>3, RemoteLogAssumption

LEMMA TypedProceed ==
  ASSUME NEW line, NEW first \in Seq(TypedCalls(line)), NEW rest \in Seq(TypedCalls(line)),
         Tail(calls) \in Seq(TypedCalls(line)), Proceed(first, rest)
  PROVE  calls' \in Seq(TypedCalls(line)) /\ Len(calls') <= CallDepth
<1> DEFINE S == TypedCalls(line)
           t == Tail(calls)
<1>1. t \in Seq(S) /\ first \in Seq(S) /\ rest \in Seq(S)
  OBVIOUS
<1>2. /\ Len(first \o rest) + Len(t) <= CallDepth
      /\ calls' = (first \o rest) \o t
  BY DEF Proceed
<1> HIDE DEF S, t
<1>3. first \o rest \in Seq(S)
  BY <1>1, ConcatProperties
<1>4. /\ (first \o rest) \o t \in Seq(S)
      /\ Len((first \o rest) \o t) = Len(first \o rest) + Len(t)
  BY <1>1, <1>3, ConcatProperties
<1>5. QED BY <1>2, <1>4 DEF S

(* A call that a call in progress makes or becomes.                         *)
LEMMA TypedNext ==
  ASSUME NEW line
  PROVE  /\ \A mask \in SUBSET Masks, text \in Text :
              /\ Log(mask, text) \in TypedCalls(line)
              /\ <<Log(mask, text)>> \in Seq(TypedCalls(line))
         /\ \A do \in {"NOTIFY"} \cup Encoding, note \in TypedNotes :
              /\ Sending(do, note) \in TypedCalls(line)
              /\ <<Sending(do, note)>> \in Seq(TypedCalls(line))
<1>1. ASSUME NEW mask \in SUBSET Masks, NEW text \in Text
      PROVE  Log(mask, text) \in TypedCalls(line)
  BY DEF Log, CliLine, Note, TypedCalls, TypedNotes
<1>2. ASSUME NEW do \in {"NOTIFY"} \cup Encoding, NEW note \in TypedNotes
      PROVE  Sending(do, note) \in TypedCalls(line)
  BY DEF Sending, TypedCalls, Encoding
<1>3. \A call \in TypedCalls(line) : <<call>> \in Seq(TypedCalls(line))
  OBVIOUS
<1>4. QED BY <1>1, <1>2, <1>3

LEMMA TypedReturn ==
  ASSUME LogTypes, calls # <<>>, calls' = Tail(calls), UNCHANGED settings,
         BufferTypes', sLog_rcliBuf' = sLog_rcliBuf, SentTypes'
  PROVE  LogTypes'
<1>1. SettingTypes'
  BY DEF LogTypes, SettingTypes, settings
<1>2. CallTypes'
  BY TypedTop DEF CallTypes
<1>3. QED BY <1>1, <1>2 DEF LogTypes

LEMMA TypedGoOn ==
  ASSUME LogTypes, calls # <<>>, NEW first \in Seq(TypedCalls(sLog_rcliBuf)),
         NEW do \in Encoding, Proceed(first, <<Sending(do, Top.note)>>), UNCHANGED settings,
         BufferTypes', sLog_rcliBuf' = sLog_rcliBuf, UNCHANGED owed, sent' = <<>>
  PROVE  LogTypes'
<1>1. SettingTypes'
  BY DEF LogTypes, SettingTypes, settings
<1>2. Top.note \in TypedNotes
  BY TypedTop DEF TypedCalls
<1>3. <<Sending(do, Top.note)>> \in Seq(TypedCalls(sLog_rcliBuf))
  BY <1>2, TypedNext
<1>4. calls' \in Seq(TypedCalls(sLog_rcliBuf)) /\ Len(calls') <= CallDepth
  BY <1>3, TypedTop, TypedProceed
<1>5. CallTypes'
  BY <1>4 DEF CallTypes
<1>6. SentTypes'
  BY DEF LogTypes, SentTypes
<1>7. QED BY <1>1, <1>5, <1>6 DEF LogTypes

LEMMA LogRemotelyTypes == ASSUME LogTypes, log_remotely PROVE LogTypes'
<1>1. /\ calls # <<>> /\ Top.do = "LOG" /\ sLog_rcliBuf' = Top.note.payload
      /\ Proceed(<<>>, <<Sending("RESPOND", Top.note)>>)
      /\ sent' = <<>> /\ UNCHANGED owed
      /\ UNCHANGED <<settings, sCr_raw_notification, sCr_coded_notification>>
  BY DEF log_remotely
<1>2. PICK line \in Text : line = Top.note.payload
  BY <1>1, TypedTop DEF TypedCalls, TypedNotes
<1>3. TypedCalls(sLog_rcliBuf) \subseteq TypedCalls(line)
  BY DEF TypedCalls
<1>4. Tail(calls) \in Seq(TypedCalls(line))
  <2>1. PICK t \in Seq(TypedCalls(sLog_rcliBuf)) : t = Tail(calls)
    BY <1>1, TypedTop
  <2>2. t \in Seq(TypedCalls(line))
    BY <1>3, <2>1
  <2>3. QED BY <2>1, <2>2
<1>5. Sending("RESPOND", Top.note) \in TypedCalls(line)
  <2>1. Top.note \in TypedNotes /\ Top.note.type = "CLI_NOTIFICATION"
    BY <1>1, TypedTop DEF TypedCalls
  <2>2. QED BY <2>1 DEF Sending, TypedCalls
<1>6. calls' \in Seq(TypedCalls(line)) /\ Len(calls') <= CallDepth
  <2>1. /\ <<>> \in Seq(TypedCalls(line))
        /\ <<Sending("RESPOND", Top.note)>> \in Seq(TypedCalls(line))
    BY <1>5
  <2>2. QED BY <1>1, <1>4, <2>1, TypedProceed
<1>7. CallTypes'
  BY <1>1, <1>2, <1>6 DEF CallTypes
<1>8. SettingTypes' /\ BufferTypes' /\ SentTypes'
  BY <1>1, <1>2 DEF LogTypes, SettingTypes, BufferTypes, SentTypes, settings
<1>9. QED BY <1>7, <1>8 DEF LogTypes

LEMMA SendingTypes ==
  ASSUME LogTypes, pvtCr_cli_respond \/ pvtCr_notify \/ encode_classic \/ encode_header
                     \/ encode_payload
  PROVE  LogTypes'
<1>1. {"WIRE"} \in SUBSET Masks /\ {"ERROR"} \in SUBSET Masks /\ {"AHSOKA"} \in SUBSET Masks
      /\ "trace" \in Text /\ "Notifications no longer supported" \in Text
  BY DEF Masks, Text, Own
<1>2. /\ <<Log({"WIRE"}, "trace")>> \in Seq(TypedCalls(sLog_rcliBuf))
      /\ <<Log({"AHSOKA"}, "trace")>> \in Seq(TypedCalls(sLog_rcliBuf))
      /\ <<Log({"ERROR"}, "Notifications no longer supported")>>
           \in Seq(TypedCalls(sLog_rcliBuf))
      /\ <<>> \in Seq(TypedCalls(sLog_rcliBuf))
  <2>1. \A mask \in SUBSET Masks, text \in Text :
          <<Log(mask, text)>> \in Seq(TypedCalls(sLog_rcliBuf))
    BY TypedNext
  <2>2. <<>> \in Seq(TypedCalls(sLog_rcliBuf))
    OBVIOUS
  <2>3. QED BY <1>1, <2>1, <2>2
<1>3. "ENCODE" \in Encoding /\ "ENCODE_PAYLOAD" \in Encoding /\ "SEND" \in Encoding
  BY DEF Encoding
<1>4. CASE pvtCr_cli_respond
  <2>1. /\ calls # <<>> /\ Top.do = "RESPOND"
        /\ sCr_raw_notification' = CliLine(sLog_rcliBuf)
        /\ Proceed(<<Log({"WIRE"}, "trace")>>, <<Sending("ENCODE", Top.note)>>)
        /\ sent' = <<>> /\ sLog_rcliBuf' = sLog_rcliBuf
        /\ UNCHANGED settings /\ UNCHANGED sCr_coded_notification /\ UNCHANGED owed
    BY <1>4 DEF pvtCr_cli_respond
  <2>2. sLog_rcliBuf \in Text
    BY <2>1, TypedTop DEF TypedCalls
  <2>3. BufferTypes'
    BY <2>1, <2>2 DEF LogTypes, BufferTypes, CliLine, Note, TypedNotes
  <2>4. QED BY <1>2, <1>3, <2>1, <2>3, TypedGoOn
<1>5. CASE pvtCr_notify
  <2>1. /\ calls # <<>> /\ sCr_raw_notification' = Top.note
        /\ Proceed(<<>>, <<Sending("ENCODE", Top.note)>>)
        /\ sent' = <<>> /\ sLog_rcliBuf' = sLog_rcliBuf
        /\ UNCHANGED settings /\ UNCHANGED sCr_coded_notification /\ UNCHANGED owed
    BY <1>5 DEF pvtCr_notify
  <2>2. BufferTypes'
    BY <2>1, TypedTop DEF LogTypes, BufferTypes, TypedCalls
  <2>3. QED BY <1>2, <1>3, <2>1, <2>2, TypedGoOn
<1>6. CASE encode_classic
  <2>1. /\ calls # <<>> /\ sent' = <<>>
        /\ Proceed(<<Log({"ERROR"}, "Notifications no longer supported")>>,
                   <<Sending("SEND", Top.note)>>)
        /\ UNCHANGED settings /\ UNCHANGED buffers /\ UNCHANGED owed
    BY <1>6 DEF encode_classic
  <2>2. BufferTypes' /\ sLog_rcliBuf' = sLog_rcliBuf
    BY <2>1 DEF LogTypes, BufferTypes, buffers
  <2>3. QED BY <1>2, <1>3, <2>1, <2>2, TypedGoOn
<1>7. CASE encode_header
  <2>1. /\ calls # <<>> /\ sent' = <<>>
        /\ Proceed(<<Log({"AHSOKA"}, "trace")>>, <<Sending("ENCODE_PAYLOAD", Top.note)>>)
        /\ UNCHANGED settings /\ UNCHANGED buffers /\ UNCHANGED owed
    BY <1>7 DEF encode_header
  <2>2. BufferTypes' /\ sLog_rcliBuf' = sLog_rcliBuf
    BY <2>1 DEF LogTypes, BufferTypes, buffers
  <2>3. QED BY <1>2, <1>3, <2>1, <2>2, TypedGoOn
<1>8. CASE encode_payload
  <2>1. /\ calls # <<>> /\ sCr_coded_notification' = sCr_raw_notification
        /\ Proceed(<<>>, <<Sending("SEND", Top.note)>>)
        /\ sent' = <<>> /\ sLog_rcliBuf' = sLog_rcliBuf
        /\ UNCHANGED settings /\ UNCHANGED sCr_raw_notification /\ UNCHANGED owed
    BY <1>8 DEF encode_payload
  <2>2. BufferTypes'
    BY <2>1 DEF LogTypes, BufferTypes
  <2>3. QED BY <1>2, <1>3, <2>1, <2>2, TypedGoOn
<1>9. QED BY <1>4, <1>5, <1>6, <1>7, <1>8

LEMMA ReturningTypes ==
  ASSUME LogTypes, log_locally \/ not_connected \/ crcb_send_coded_response
  PROVE  LogTypes'
<1>1. calls # <<>> /\ calls' = Tail(calls) /\ UNCHANGED settings /\ UNCHANGED buffers
  BY DEF log_locally, not_connected, crcb_send_coded_response
<1>2. BufferTypes' /\ sLog_rcliBuf' = sLog_rcliBuf
  BY <1>1 DEF LogTypes, BufferTypes, buffers
<1>3. CASE log_locally \/ not_connected
  <2>1. sent' = <<>> /\ UNCHANGED owed
    BY <1>3 DEF log_locally, not_connected
  <2>2. SentTypes'
    BY <2>1 DEF LogTypes, SentTypes
  <2>3. QED BY <1>1, <1>2, <2>2, TypedReturn
<1>4. CASE crcb_send_coded_response
  <2>1. sent' = <<sCr_coded_notification>> /\ owed' = IF owed = <<>> THEN owed ELSE Tail(owed)
    BY <1>4 DEF crcb_send_coded_response
  <2>2. owed' \in Seq(TypedNotes)
    BY <2>1, HeadTailProperties DEF LogTypes, SentTypes
  <2>3. SentTypes'
    BY <2>1, <2>2 DEF LogTypes, BufferTypes, SentTypes
  <2>4. QED BY <1>1, <1>2, <2>3, TypedReturn
<1>5. QED BY <1>3, <1>4

LEMMA OwedTypes ==
  ASSUME NEW line, NEW a \in TypedCalls(line)
  PROVE  /\ OwedByAll(<<a>>) \in Seq(TypedNotes)
         /\ \A b \in TypedCalls(line) : OwedByAll(<<a, b>>) \in Seq(TypedNotes)
         /\ \A b, c \in TypedCalls(line) : OwedByAll(<<a, b, c>>) \in Seq(TypedNotes)
<1>1. \A call \in TypedCalls(line) : OwedBy(call) \in Seq(TypedNotes)
  BY DEF TypedCalls, OwedBy
<1>2. /\ OwedByAll(<<a>>) = OwedBy(a)
      /\ \A b : OwedByAll(<<a, b>>) = OwedBy(a) \o OwedBy(b)
      /\ \A b, c : OwedByAll(<<a, b, c>>) = OwedBy(a) \o OwedBy(b) \o OwedBy(c)
  BY DEF OwedByAll
<1>3. \A b \in TypedCalls(line) : OwedBy(a) \o OwedBy(b) \in Seq(TypedNotes)
  BY <1>1, ConcatProperties
<1>4. \A b, c \in TypedCalls(line) : OwedBy(a) \o OwedBy(b) \o OwedBy(c) \in Seq(TypedNotes)
  BY <1>1, <1>3, ConcatProperties
<1>5. QED BY <1>1, <1>2, <1>3, <1>4

LEMMA TypedMake ==
  ASSUME LogTypes, UNCHANGED settings, NEW made \in Seq(TypedCalls(sLog_rcliBuf)),
         Len(made) <= 3, OwedByAll(made) \in Seq(TypedNotes), Make(made)
  PROVE  LogTypes'
<1>1. calls' = made /\ owed' = OwedByAll(made) /\ sent' = <<>> /\ UNCHANGED buffers
  BY DEF Make
<1>2. SettingTypes' /\ BufferTypes'
  BY <1>1 DEF LogTypes, SettingTypes, BufferTypes, settings, buffers
<1>3. Len(made) <= CallDepth
  BY RemoteLogAssumption, LenProperties
<1>4. CallTypes'
  BY <1>1, <1>3 DEF CallTypes, buffers
<1>5. SentTypes'
  BY <1>1 DEF SentTypes
<1>6. QED BY <1>2, <1>4, <1>5 DEF LogTypes

LEMMA TypedMakes ==
  ASSUME LogTypes, UNCHANGED settings, NEW a \in TypedCalls(sLog_rcliBuf)
  PROVE  /\ Make(<<a>>) => LogTypes'
         /\ \A b \in TypedCalls(sLog_rcliBuf) : Make(<<a, b>>) => LogTypes'
         /\ \A b, c \in TypedCalls(sLog_rcliBuf) : Make(<<a, b, c>>) => LogTypes'
<1> DEFINE S == TypedCalls(sLog_rcliBuf)
<1>1. ASSUME Make(<<a>>) PROVE LogTypes'
  <2> DEFINE made == <<a>>
  <2>1. made \in Seq(S) /\ Len(made) <= 3 /\ OwedByAll(made) \in Seq(TypedNotes) /\ Make(made)
    BY <1>1, OwedTypes
  <2> HIDE DEF made
  <2>2. QED BY <2>1, TypedMake
<1>2. ASSUME NEW b \in S, Make(<<a, b>>) PROVE LogTypes'
  <2> DEFINE made == <<a, b>>
  <2>1. made \in Seq(S) /\ Len(made) <= 3
    OBVIOUS
  <2>2. OwedByAll(made) \in Seq(TypedNotes)
    BY OwedTypes
  <2>3. Make(made)
    BY <1>2
  <2> HIDE DEF made
  <2>4. QED BY <2>1, <2>2, <2>3, TypedMake
<1>3. ASSUME NEW b \in S, NEW c \in S, Make(<<a, b, c>>) PROVE LogTypes'
  <2> DEFINE made == <<a, b, c>>
  <2>1. made \in Seq(S) /\ Len(made) <= 3
    OBVIOUS
  <2>2. OwedByAll(made) \in Seq(TypedNotes)
    BY OwedTypes
  <2>3. Make(made)
    BY <1>3
  <2> HIDE DEF made
  <2>4. QED BY <2>1, <2>2, <2>3, TypedMake
<1>4. QED BY <1>1, <1>2, <1>3

LEMMA CallingTypes ==
  ASSUME LogTypes, UNCHANGED settings, i3_log \/ cr_report_error \/ notify PROVE LogTypes'
<1>1. CASE i3_log
  <2>1. PICK mask \in LineMasks, line \in Lines : Make(<<Log(mask, line)>>)
    BY <1>1 DEF i3_log
  <2>2. Log(mask, line) \in TypedCalls(sLog_rcliBuf)
    BY TypedNext, RemoteLogAssumption DEF Text
  <2>3. QED BY <2>1, <2>2, TypedMakes
<1>2. CASE cr_report_error
  <2> DEFINE report == Sending("NOTIFY", Note("ERROR_REPORT", "Error message"))
             full   == Log({"WARN"}, "Logged Error full report")
             error  == Log({"ERROR"}, "Error message")
             none   == Log({"ERROR"}, "report disabled")
  <2>1. /\ {"WARN"} \in SUBSET Masks /\ {"ERROR"} \in SUBSET Masks
        /\ "Logged Error full report" \in Text /\ "Error message" \in Text
        /\ "report disabled" \in Text /\ Note("ERROR_REPORT", "Error message") \in TypedNotes
    BY DEF Masks, Text, Own, Note, TypedNotes
  <2>2. /\ report \in TypedCalls(sLog_rcliBuf) /\ full \in TypedCalls(sLog_rcliBuf)
        /\ error \in TypedCalls(sLog_rcliBuf) /\ none \in TypedCalls(sLog_rcliBuf)
    BY <2>1, TypedNext
  <2>3. Make(<<report, full, error>>) \/ Make(<<none>>)
    BY <1>2 DEF cr_report_error
  <2> HIDE DEF report, full, error, none
  <2>4. QED BY <2>2, <2>3, TypedMakes
<1>3. CASE notify
  <2>1. PICK type \in {"PARAMETER_NOTIFICATION", "STREAM_DATA_NOTIFICATION"},
             payload \in Payloads :
          Make(<<Sending("NOTIFY", Note(type, payload))>>)
    BY <1>3 DEF notify
  <2> DEFINE call == Sending("NOTIFY", Note(type, payload))
  <2>2. Note(type, payload) \in TypedNotes
    BY DEF Note, TypedNotes
  <2>3. call \in TypedCalls(sLog_rcliBuf)
    BY <2>2, TypedNext
  <2> HIDE DEF call
  <2>4. Make(<<call>>)
    BY <2>1 DEF call
  <2>5. QED BY <2>3, <2>4, TypedMakes
<1>4. QED BY <1>1, <1>2, <1>3

LEMMA CommandTypes == ASSUME LogTypes, handle_cli_notification PROVE LogTypes'
<1> DEFINE first  == Log({"ALWAYS"}, "Remote command")
           second == Log({"WARN"}, "response disabled")
<1>1. PICK mask \in LineMasks, line \in Lines :
        Make(<<first>> \o (IF i3_log_get_remote_cli_enable THEN <<>> ELSE <<second>>)
               \o <<Log(mask, line)>>)
  BY DEF handle_cli_notification
<1> DEFINE third == Log(mask, line)
<1>2. UNCHANGED settings
  BY DEF handle_cli_notification
<1>3. /\ first \in TypedCalls(sLog_rcliBuf) /\ second \in TypedCalls(sLog_rcliBuf)
      /\ third \in TypedCalls(sLog_rcliBuf)
  <2>1. {"ALWAYS"} \in SUBSET Masks /\ {"WARN"} \in SUBSET Masks /\ mask \in SUBSET Masks
        /\ "Remote command" \in Text /\ "response disabled" \in Text /\ line \in Text
    BY RemoteLogAssumption DEF Masks, Text, Own
  <2>2. QED BY <2>1, TypedNext
<1>4. Make(<<first>> \o (IF i3_log_get_remote_cli_enable THEN <<>> ELSE <<second>>) \o <<third>>)
  BY <1>1
<1> HIDE DEF first, second, third
<1>5. CASE i3_log_get_remote_cli_enable
  <2>1. <<first>> \o <<>> \o <<third>> = <<first, third>>
    BY <1>3, Written
  <2>2. Make(<<first, third>>)
    BY <1>4, <1>5, <2>1
  <2>3. QED BY <1>2, <1>3, <2>2, TypedMakes
<1>6. CASE ~i3_log_get_remote_cli_enable
  <2>1. <<first>> \o <<second>> \o <<third>> = <<first, second, third>>
    BY <1>3, Written
  <2>2. Make(<<first, second, third>>)
    BY <1>4, <1>6, <2>1
  <2>3. QED BY <1>2, <1>3, <2>2, TypedMakes
<1>7. QED BY <1>5, <1>6

LEMMA SettingTypesStep ==
  ASSUME LogTypes,
         \/ i3_log_set_mask \/ i3_log_set_remote_cli_enable
         \/ cr_set_comm_link_connected \/ handle_get_device_info
  PROVE  LogTypes'
<1>1. sent' = <<>> /\ UNCHANGED <<buffers, calls, owed>>
  BY DEF i3_log_set_mask, i3_log_set_remote_cli_enable, cr_set_comm_link_connected,
         handle_get_device_info
<1>2. BufferTypes' /\ CallTypes' /\ SentTypes'
  BY <1>1 DEF LogTypes, BufferTypes, CallTypes, SentTypes, buffers
<1>3. SettingTypes'
  <2>1. CASE i3_log_set_mask
    BY <2>1 DEF i3_log_set_mask, LogTypes, SettingTypes
  <2>2. CASE i3_log_set_remote_cli_enable
    BY <2>2 DEF i3_log_set_remote_cli_enable, LogTypes, SettingTypes
  <2>3. CASE cr_set_comm_link_connected
    BY <2>3 DEF cr_set_comm_link_connected, LogTypes, SettingTypes
  <2>4. CASE handle_get_device_info
    <3>1. \A client \in Clients : client.classic \in BOOLEAN /\ client.access \in BOOLEAN
      BY RemoteLogAssumption
    <3>2. PICK client \in Clients : classic' = client.classic /\ access_granted' = client.access
      BY <2>4 DEF handle_get_device_info
    <3>3. classic' \in BOOLEAN /\ access_granted' \in BOOLEAN
      BY <3>1, <3>2
    <3>4. QED BY <2>4, <3>3 DEF handle_get_device_info, LogTypes, SettingTypes
  <2>5. QED BY <2>1, <2>2, <2>3, <2>4
<1>4. QED BY <1>2, <1>3 DEF LogTypes

LEMMA LogTypesStep == ASSUME LogTypes, [Next]_vars PROVE LogTypes'
<1>1. CASE log_remotely
  BY <1>1, LogRemotelyTypes
<1>2. CASE log_locally \/ not_connected \/ crcb_send_coded_response
  BY <1>2, ReturningTypes
<1>3. CASE pvtCr_cli_respond \/ pvtCr_notify \/ encode_classic \/ encode_header \/ encode_payload
  BY <1>3, SendingTypes
<1>4. CASE (i3_log \/ cr_report_error \/ notify) /\ UNCHANGED settings
  BY <1>4, CallingTypes
<1>5. CASE handle_cli_notification
  BY <1>5, CommandTypes
<1>6. CASE \/ i3_log_set_mask \/ i3_log_set_remote_cli_enable
           \/ cr_set_comm_link_connected \/ handle_get_device_info
  BY <1>6, SettingTypesStep
<1>7. CASE UNCHANGED vars
  BY <1>7 DEF vars, settings, buffers, LogTypes, SettingTypes, BufferTypes, CallTypes, SentTypes
<1>8. QED
  BY <1>1, <1>2, <1>3, <1>4, <1>5, <1>6, <1>7 DEF Next, Call, Application

(* Whatever client is connected, the variables keep their types: in         *)
(* particular a call that sends the line finds one in the buffer, and what  *)
(* is sent is a message that somebody asked to have sent, or nothing.      *)
THEOREM LogTyped == Spec => []TypeOK
<1>1. Init => LogTypes
  <2> HAVE Init
  <2>1. SettingTypes /\ BufferTypes /\ SentTypes
    <3>1. SettingTypes /\ BufferTypes
      BY DEF Init, SettingTypes, BufferTypes
    <3>2. sent = <<>> /\ owed = <<>>
      BY DEF Init
    <3>3. SentTypes
      BY <3>2 DEF SentTypes
    <3>4. QED BY <3>1, <3>3
  <2>2. calls = <<>> /\ Len(calls) = 0
    BY EmptySeq DEF Init
  <2>3. CallTypes
    BY <2>2, RemoteLogAssumption DEF CallTypes
  <2>4. QED BY <2>1, <2>3 DEF LogTypes
<1>2. LogTypes /\ [Next]_vars => LogTypes'
  BY LogTypesStep
<1>3. LogTypes => TypeOK
  BY LogTypesAreTypes
<1>4. QED BY <1>1, <1>2, <1>3, PTL DEF Spec

=============================================================================
