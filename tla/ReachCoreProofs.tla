---------------------------- MODULE ReachCoreProofs ----------------------------
(***************************************************************************)
(* Lemmas that the services' proofs share: induction over the turns of a    *)
(* loop, in a form without operators as parameters, and the numbers of a    *)
(* finite set in order.                                                    *)
(***************************************************************************)
EXTENDS ReachCore, FiniteSetTheorems, WellFoundedInduction, SequenceTheorems, TLAPS

-----------------------------------------------------------------------------
(* Induction.                                                              *)

(* A set of natural numbers has a least one.                                *)
LEMMA LeastNatural ==
  ASSUME NEW T, T \subseteq Nat, T # {}
  PROVE  \E x \in T : \A y \in T : x <= y
<1> DEFINE R == OpToRel(<, Nat)
<1>1. \A x, y \in Nat : x < y => <<x, y>> \in R
  BY DEF OpToRel
<1>2. IsWellFoundedOn(R, Nat)
  BY NatLessThanWellFounded
<1> HIDE DEF R
<1>3. PICK x \in T : \A y \in T : ~ (<<y, x>> \in R)
  <2>1. \E x \in T : \A y \in T : ~ (<<y, x>> \in R)
    BY <1>2, WFMin
  <2>2. QED BY <2>1
<1>4. \A y \in T : y \in Nat /\ x \in Nat
  OBVIOUS
<1>5. \A y \in T : ~(y < x)
  BY <1>1, <1>3, <1>4
<1>6. \A y \in T : x <= y
  BY <1>4, <1>5
<1>7. QED BY <1>6

(* What holds before the first turn, and after a turn whenever before it,   *)
(* holds after every turn.                                                 *)
LEMMA EveryTurn ==
  ASSUME NEW n \in Nat, NEW P, 0 \in P, \A m \in 1 .. n : m - 1 \in P => m \in P
  PROVE  \A m \in 0 .. n : m \in P
<1> SUFFICES ASSUME ~(0 .. n \subseteq P) PROVE FALSE
  OBVIOUS
<1> DEFINE T == { m \in 0 .. n : m \notin P }
<1>1. T \subseteq Nat /\ T # {}
  OBVIOUS
<1>2. PICK x \in T : \A y \in T : x <= y
  <2> HIDE DEF T
  <2>1. QED BY <1>1, LeastNatural
<1>3. x \in 1 .. n /\ x \notin P
  OBVIOUS
<1>4. x - 1 \in 0 .. n /\ ~(x <= x - 1)
  BY <1>3
<1>5. x - 1 \in P
  BY <1>2, <1>4
<1>6. QED BY <1>3, <1>5

-----------------------------------------------------------------------------
(* The numbers of a set in order.                                          *)

UpTo(S, n) == { m \in S : m <= n }

Ordinal(S, n) == Cardinality(UpTo(S, n))

LEMMA OrdinalType ==
  ASSUME NEW S, S \subseteq Nat, IsFiniteSet(S), NEW n \in S
  PROVE  IsFiniteSet(UpTo(S, n)) /\ Ordinal(S, n) \in 1 .. Cardinality(S)
<1>1. n \in Nat
  OBVIOUS
<1>2. UpTo(S, n) \in SUBSET S /\ n \in UpTo(S, n)
  BY <1>1 DEF UpTo
<1>3. IsFiniteSet(UpTo(S, n)) /\ Cardinality(UpTo(S, n)) <= Cardinality(S)
  BY <1>2, FS_Subset
<1>4. Cardinality(UpTo(S, n)) \in Nat /\ Cardinality(S) \in Nat
  BY <1>3, FS_CardinalityType
<1>5. Cardinality(UpTo(S, n)) # 0
  BY <1>2, <1>3, FS_EmptySet
<1>6. QED BY <1>3, <1>4, <1>5 DEF Ordinal

(* A greater number has a greater ordinal.                                    *)
LEMMA OrdinalIncreases ==
  ASSUME NEW S, S \subseteq Nat, IsFiniteSet(S), NEW m \in S, NEW n \in S, m < n
  PROVE  Ordinal(S, m) < Ordinal(S, n)
<1>1. m \in Nat /\ n \in Nat /\ \A l \in S : l \in Nat
  OBVIOUS
<1>2. \A l \in S : l <= m => l <= n
  BY <1>1
<1>3. n <= n /\ ~(n <= m)
  BY <1>1
<1>4. UpTo(S, m) \in SUBSET UpTo(S, n) /\ n \in UpTo(S, n) /\ n \notin UpTo(S, m)
  BY <1>2, <1>3 DEF UpTo
<1>5. IsFiniteSet(UpTo(S, n))
  BY OrdinalType
<1>6. /\ Cardinality(UpTo(S, m)) <= Cardinality(UpTo(S, n))
      /\ Cardinality(UpTo(S, m)) # Cardinality(UpTo(S, n))
  BY <1>4, <1>5, FS_Subset
<1>7. IsFiniteSet(UpTo(S, m))
  BY OrdinalType
<1>8. Cardinality(UpTo(S, m)) \in Nat /\ Cardinality(UpTo(S, n)) \in Nat
  BY <1>5, <1>7, FS_CardinalityType
<1>9. QED BY <1>6, <1>8 DEF Ordinal

LEMMA OrdinalOrder ==
  ASSUME NEW S, S \subseteq Nat, IsFiniteSet(S), NEW m \in S, NEW n \in S
  PROVE  m <= n <=> Ordinal(S, m) <= Ordinal(S, n)
<1>1. m \in Nat /\ n \in Nat
  OBVIOUS
<1>2. Ordinal(S, m) \in Nat /\ Ordinal(S, n) \in Nat
  <2>1. Ordinal(S, m) \in 1 .. Cardinality(S) /\ Ordinal(S, n) \in 1 .. Cardinality(S)
    BY OrdinalType
  <2>2. Cardinality(S) \in Nat
    BY FS_CardinalityType
  <2>3. QED BY <2>1, <2>2
<1>3. m < n => Ordinal(S, m) < Ordinal(S, n)
  BY OrdinalIncreases
<1>4. n < m => Ordinal(S, n) < Ordinal(S, m)
  BY OrdinalIncreases
<1>5. QED BY <1>1, <1>2, <1>3, <1>4

(* Every rank is some number's.                                            *)
LEMMA OrdinalExists ==
  ASSUME NEW S, S \subseteq Nat, IsFiniteSet(S), NEW k \in 1 .. Cardinality(S)
  PROVE  \E n \in S : Ordinal(S, n) = k
<1> DEFINE P == {0} \cup { r \in 1 .. Cardinality(S) : \E n \in S : Ordinal(S, n) = r }
<1>1. Cardinality(S) \in Nat
  BY FS_CardinalityType
<1>2. ASSUME NEW n \in S PROVE n \in Nat /\ Ordinal(S, n) \in Nat /\ Ordinal(S, n) >= 1
  <2>1. Ordinal(S, n) \in 1 .. Cardinality(S)
    BY OrdinalType
  <2>2. QED BY <1>1, <2>1
<1>3. 0 \in P
  OBVIOUS
<1>4. ASSUME NEW r \in 1 .. Cardinality(S), r - 1 \in P PROVE r \in P
  <2> DEFINE Below == { m \in S : Ordinal(S, m) <= r - 1 }
             Rest  == S \ Below
  <2>1. IsFiniteSet(Below) /\ Cardinality(Below) = r - 1
    <3>1. CASE r - 1 = 0
      <4>1. ASSUME NEW m \in Below PROVE FALSE
        <5>1. Ordinal(S, m) <= 0 /\ Ordinal(S, m) \in Nat /\ Ordinal(S, m) >= 1
          BY <1>2, <3>1
        <5>2. QED BY <5>1
      <4>2. QED BY <3>1, <4>1, FS_EmptySet
    <3>2. CASE r - 1 # 0
      <4>1. PICK n \in S : Ordinal(S, n) = r - 1
        BY <1>4, <3>2
      <4>2. ASSUME NEW m \in S PROVE m <= n <=> Ordinal(S, m) <= r - 1
        <5>1. m <= n <=> Ordinal(S, m) <= Ordinal(S, n)
          BY OrdinalOrder
        <5>2. QED BY <4>1, <5>1
      <4>3. Below = UpTo(S, n)
        BY <4>2 DEF UpTo
      <4>4. QED BY <4>1, <4>3, OrdinalType DEF Ordinal
    <3>3. QED BY <3>1, <3>2
  <2>2. Rest # {} /\ Rest \subseteq Nat
    <3>1. Below # S
      BY <1>1, <2>1
    <3>2. QED BY <3>1
  <2>3. PICK x \in Rest : \A y \in Rest : x <= y
    <3> HIDE DEF Rest
    <3>1. QED BY <2>2, LeastNatural
  <2>4. ASSUME NEW m \in S PROVE m <= x <=> m \in Below \cup {x}
    <3>1. x \in S /\ x \notin Below /\ x \in Nat /\ m \in Nat
      BY <1>2
    <3>2. CASE m \in Below
      <4>1. Ordinal(S, m) <= Ordinal(S, x)
        BY <1>2, <3>1, <3>2
      <4>2. QED BY <3>1, <3>2, <4>1, OrdinalOrder
    <3>3. CASE m \notin Below
      BY <2>3, <3>1, <3>3
    <3>4. QED BY <3>2, <3>3
  <2>5. UpTo(S, x) = Below \cup {x}
    BY <2>4 DEF UpTo
  <2>6. x \notin Below
    OBVIOUS
  <2>7. Ordinal(S, x) = r
    <3> HIDE DEF Below
    <3>1. Cardinality(Below \cup {x}) = Cardinality(Below) + 1
      BY <2>1, <2>6, FS_AddElement
    <3>2. QED BY <2>1, <2>5, <3>1 DEF Ordinal
  <2>8. QED BY <2>7
<1>5. k \in P
  <2> HIDE DEF P
  <2>1. QED BY <1>1, <1>3, <1>4, EveryTurn
<1>6. QED BY <1>5

(* The sequence has the elements of the set, each once, the least first.    *)
LEMMA InOrderIs ==
  ASSUME NEW S, S \subseteq Nat, IsFiniteSet(S)
  PROVE  /\ InOrder(S) \in [1 .. Cardinality(S) -> S]
         /\ DOMAIN InOrder(S) = 1 .. Cardinality(S)
         /\ Len(InOrder(S)) = Cardinality(S)
         /\ InOrder(S) \in Seq(S)
         /\ \A i, j \in 1 .. Cardinality(S) : i < j => InOrder(S)[i] < InOrder(S)[j]
         /\ \A n \in S : \E i \in 1 .. Cardinality(S) : InOrder(S)[i] = n
<1>0. Cardinality(S) \in Nat
  BY FS_CardinalityType
<1>1. InOrder(S) = [k \in 1 .. Cardinality(S) |-> CHOOSE n \in S : Ordinal(S, n) = k]
  BY DEF InOrder, UpTo, Ordinal
<1>2. ASSUME NEW k \in 1 .. Cardinality(S)
      PROVE  /\ InOrder(S)[k] \in S /\ InOrder(S)[k] \in Nat
             /\ Ordinal(S, InOrder(S)[k]) = k
  <2>1. InOrder(S)[k] = CHOOSE n \in S : Ordinal(S, n) = k
    BY <1>1
  <2>2. \E n \in S : Ordinal(S, n) = k
    BY OrdinalExists
  <2>3. QED BY <2>1, <2>2
<1>3. InOrder(S) \in [1 .. Cardinality(S) -> S]
  BY <1>1, <1>2
<1>4. ASSUME NEW i \in 1 .. Cardinality(S), NEW j \in 1 .. Cardinality(S), i < j
      PROVE  InOrder(S)[i] < InOrder(S)[j]
  <2>1. ~(InOrder(S)[j] <= InOrder(S)[i])
    <3>1. InOrder(S)[i] \in S /\ InOrder(S)[j] \in S
      BY <1>2
    <3>2. ~(Ordinal(S, InOrder(S)[j]) <= Ordinal(S, InOrder(S)[i]))
      BY <1>2, <1>4
    <3>3. QED BY <3>1, <3>2, OrdinalOrder
  <2>2. QED BY <1>2, <2>1
<1>5. ASSUME NEW n \in S PROVE \E i \in 1 .. Cardinality(S) : InOrder(S)[i] = n
  <2>1. PICK i \in 1 .. Cardinality(S) : i = Ordinal(S, n)
    BY OrdinalType
  <2>2. InOrder(S)[i] \in S /\ Ordinal(S, InOrder(S)[i]) = i /\ i <= i
    BY <1>0, <1>2
  <2>3. n <= InOrder(S)[i]
    BY <2>1, <2>2, OrdinalOrder
  <2>4. InOrder(S)[i] <= n
    BY <2>1, <2>2, OrdinalOrder
  <2>5. n \in Nat /\ InOrder(S)[i] \in Nat
    BY <1>2
  <2>6. QED BY <2>3, <2>4, <2>5
<1>6. InOrder(S) \in Seq(S) /\ Len(InOrder(S)) = Cardinality(S)
  BY <1>0, <1>3, SeqDef, LenProperties
<1>7. QED BY <1>3, <1>4, <1>5, <1>6

-----------------------------------------------------------------------------
(* Sending.                                                                *)

(* What is sent with a message: the reports before it, each of them of a    *)
(* code or, in classic format, what the notification buffer held.          *)
LEMMA ReportedIs ==
  ASSUME NEW format, NEW C, NEW codes \in Seq(C), NEW m, Report(format, codes, <<m>>)
  PROVE  /\ \A i \in DOMAIN sent' :
              \/ sent'[i] = m
              \/ sent'[i] = notification_buffer
              \/ \E code \in C : sent'[i] = ErrorReport(code)
         /\ \/ notification_buffer' = notification_buffer
            \/ \E code \in C : notification_buffer' = ErrorReport(code)
<1>1. /\ Len(codes) \in Nat /\ DOMAIN codes = 1 .. Len(codes)
      /\ codes # <<>> => Len(codes) \in 1 .. Len(codes)
      /\ \A i \in 1 .. Len(codes) : codes[i] \in C
  BY LenProperties, EmptySeq, ElementOfSeq
<1> DEFINE S == {m, notification_buffer} \cup { ErrorReport(code) : code \in C }
           reports == Reports(format, codes)
<1>2. reports \in [1 .. Len(codes) -> S]
  <2>1. ASSUME NEW i \in 1 .. Len(codes)
        PROVE  (IF format THEN notification_buffer ELSE ErrorReport(codes[i])) \in S
    BY <1>1
  <2>2. reports = [i \in 1 .. Len(codes) |->
                     IF format THEN notification_buffer ELSE ErrorReport(codes[i])]
    BY <1>1 DEF Reports
  <2> HIDE DEF S, reports
  <2>3. QED BY <2>1, <2>2
<1>3. reports \in Seq(S)
  <2> HIDE DEF S, reports
  <2>1. QED BY <1>1, <1>2, SeqDef
<1>4. m \in S
  OBVIOUS
<1>5. sent' = reports \o <<m>>
  BY DEF Report
<1>6. sent' \in Seq(S)
  <2> HIDE DEF S, reports
  <2>1. <<m>> \in Seq(S)
    BY <1>4
  <2>2. reports \o <<m>> \in Seq(S)
    BY <1>3, <2>1, ConcatProperties
  <2>3. QED BY <1>5, <2>2
<1>7. \A i \in DOMAIN sent' : sent'[i] \in S
  <2> HIDE DEF S
  <2>1. PICK s \in Seq(S) : s = sent'
    BY <1>6
  <2>2. \A i \in DOMAIN s : s[i] \in S
    BY LenProperties, ElementOfSeq
  <2>3. QED BY <2>1, <2>2
<1>8. \/ notification_buffer' = notification_buffer
      \/ \E code \in C : notification_buffer' = ErrorReport(code)
  BY <1>1 DEF Report
<1>9. QED BY <1>7, <1>8

=============================================================================
