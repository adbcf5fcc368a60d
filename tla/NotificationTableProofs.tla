------------------------ MODULE NotificationTableProofs ------------------------
(***************************************************************************)
(* Theorems of the notification table, for every number of parameters and   *)
(* slots and all lists that clients send.                                  *)
(***************************************************************************)
EXTENDS NotificationTable, ReachCoreProofs

Table == [Slots -> Setup]

(* No parameter has two slots.                                             *)
OneEach(list) ==
  \A s, t \in Active(list) : list[s].parameter_id = list[t].parameter_id => s = t

-----------------------------------------------------------------------------
(* One configuration.                                                      *)

LEMMA LeastIs ==
  ASSUME NEW S, S \subseteq Nat, S # {}
  PROVE  Least(S) \in S
<1>1. \E s \in S : \A t \in S : s <= t
  BY LeastNatural
<1>2. QED BY <1>1 DEF Least

LEMMA SlotsAreNat == Slots \subseteq Nat
  BY NotificationAssumption DEF Slots

(* A configuration goes where its parameter is, or else to a free slot.     *)
LEMMA PlaceIs ==
  ASSUME NEW list, NEW config
  PROVE  \/ /\ Place(list, config) = {}
            /\ \A t \in Slots : sParamNotifyEnabled(list[t])
         \/ \E s \in Slots :
              /\ Place(list, config) = {s}
              /\ \/ sParamNotifyEnabled(list[s]) /\ list[s].parameter_id = config.parameter_id
                 \/ /\ ~sParamNotifyEnabled(list[s])
                    /\ \A t \in Active(list) : list[t].parameter_id # config.parameter_id
<1> DEFINE same == { s \in Active(list) : list[s].parameter_id = config.parameter_id }
           free == Slots \ Active(list)
<1>1. Place(list, config) =
        IF same # {} THEN {Least(same)} ELSE IF free # {} THEN {Least(free)} ELSE {}
  BY DEF Place
<1>2. same \subseteq Slots /\ free \subseteq Slots
  BY DEF Active
<1>3. CASE same # {}
  <2>1. Least(same) \in same
    <3> HIDE DEF same
    <3>1. same \subseteq Nat
      BY <1>2, SlotsAreNat
    <3>2. QED BY <1>3, <3>1, LeastIs
  <2>2. QED BY <1>1, <1>2, <1>3, <2>1 DEF Active
<1>4. CASE same = {} /\ free # {}
  <2>1. Least(free) \in free
    <3> HIDE DEF free
    <3>1. free \subseteq Nat
      BY <1>2, SlotsAreNat
    <3>2. QED BY <1>4, <3>1, LeastIs
  <2>2. QED BY <1>1, <1>2, <1>4, <2>1 DEF Active
<1>5. CASE same = {} /\ free = {}
  BY <1>1, <1>5 DEF Active
<1>6. QED BY <1>3, <1>4, <1>5

(* What enabling does to the table: nothing, or it fills one slot.          *)
LEMMA EnableIs ==
  ASSUME NEW list \in Table, NEW config \in Config
  PROVE  \/ Enable(list, config) = list /\ EnableError(list, config) # "NO_ERROR"
         \/ \E s \in Slots :
              /\ Enable(list, config) = [list EXCEPT ![s] = config]
              /\ Known(config.parameter_id)
              /\ \/ sParamNotifyEnabled(list[s]) /\ list[s].parameter_id = config.parameter_id
                 \/ /\ ~sParamNotifyEnabled(list[s])
                    /\ \A t \in Active(list) : list[t].parameter_id # config.parameter_id
<1>1. list = [s \in Slots |-> list[s]]
  BY DEF Table
<1>2. CASE ~Known(config.parameter_id)
  BY <1>1, <1>2 DEF Enable, EnableError
<1>3. CASE Known(config.parameter_id) /\ Place(list, config) = {}
  BY <1>1, <1>3 DEF Enable, EnableError
<1>4. CASE Known(config.parameter_id) /\ Place(list, config) # {}
  <2>1. PICK s \in Slots :
          /\ Place(list, config) = {s}
          /\ \/ sParamNotifyEnabled(list[s]) /\ list[s].parameter_id = config.parameter_id
             \/ /\ ~sParamNotifyEnabled(list[s])
                /\ \A t \in Active(list) : list[t].parameter_id # config.parameter_id
    BY <1>4, PlaceIs
  <2>2. Enable(list, config) = [list EXCEPT ![s] = config]
    BY <1>1, <1>4, <2>1 DEF Enable
  <2>3. QED BY <1>4, <2>1, <2>2
<1>5. QED BY <1>2, <1>3, <1>4

LEMMA EnableTable ==
  ASSUME NEW list \in Table, NEW config \in Config
  PROVE  /\ Enable(list, config) \in Table
         /\ OneEach(list) => OneEach(Enable(list, config))
         /\ \A id : id # config.parameter_id => Of(Enable(list, config), id) = Of(list, id)
         /\ OneEach(list) /\ config # Off /\ EnableError(list, config) = "NO_ERROR" =>
              Of(Enable(list, config), config.parameter_id) = {config}
<1>1. CASE Enable(list, config) = list /\ EnableError(list, config) # "NO_ERROR"
  BY <1>1
<1>2. ASSUME NEW s \in Slots,
             Enable(list, config) = [list EXCEPT ![s] = config],
             Known(config.parameter_id),
             \/ sParamNotifyEnabled(list[s]) /\ list[s].parameter_id = config.parameter_id
             \/ /\ ~sParamNotifyEnabled(list[s])
                /\ \A t \in Active(list) : list[t].parameter_id # config.parameter_id
      PROVE  /\ Enable(list, config) \in Table
             /\ OneEach(list) => OneEach(Enable(list, config))
             /\ \A id : id # config.parameter_id => Of(Enable(list, config), id) = Of(list, id)
             /\ OneEach(list) /\ config # Off =>
                  Of(Enable(list, config), config.parameter_id) = {config}
  <2> DEFINE new == Enable(list, config)
  <2>1. config \in Setup
    BY <1>2 DEF Known, Config, Setup
  <2>2. new \in Table /\ new[s] = config /\ \A t \in Slots : t # s => new[t] = list[t]
    BY <1>2, <2>1 DEF Table
  <2> HIDE DEF new
  <2>3. \A t \in Slots : t # s => (t \in Active(new) <=> t \in Active(list))
    BY <2>2 DEF Active
  <2>4. OneEach(list) => \A t \in Active(list) : list[t].parameter_id = config.parameter_id => t = s
    BY <1>2 DEF OneEach, Active
  <2>5. OneEach(list) => OneEach(new)
    <3>1. SUFFICES ASSUME OneEach(list), NEW t \in Active(new), NEW u \in Active(new),
                          new[t].parameter_id = new[u].parameter_id
                   PROVE  t = u
      BY DEF OneEach
    <3>2. t \in Slots /\ u \in Slots
      BY DEF Active
    <3>3. CASE t # s /\ u # s
      BY <2>2, <2>3, <3>1, <3>2, <3>3 DEF OneEach
    <3>4. CASE t = s /\ u # s
      BY <2>2, <2>3, <2>4, <3>1, <3>2, <3>4
    <3>5. CASE t # s /\ u = s
      BY <2>2, <2>3, <2>4, <3>1, <3>2, <3>5
    <3>6. QED BY <3>3, <3>4, <3>5
  <2>6. ASSUME NEW id, id # config.parameter_id PROVE Of(new, id) = Of(list, id)
    <3>1. ~(s \in Active(list) /\ list[s].parameter_id = id)
      BY <1>2, <2>6 DEF Active
    <3>2. ~(new[s].parameter_id = id)
      BY <2>2, <2>6
    <3>3. \A t \in Slots : t \in Active(new) /\ new[t].parameter_id = id
                             <=> t \in Active(list) /\ list[t].parameter_id = id
      BY <2>2, <2>3, <3>1, <3>2
    <3>4. \A t \in Slots : new[t].parameter_id = id => new[t] = list[t]
      BY <2>2, <3>2
    <3>5. Active(new) \subseteq Slots /\ Active(list) \subseteq Slots
      BY DEF Active
    <3>6. { t \in Active(new) : new[t].parameter_id = id }
            = { t \in Active(list) : list[t].parameter_id = id }
      BY <3>3, <3>5
    <3>7. \A t \in { t \in Active(new) : new[t].parameter_id = id } : new[t] = list[t]
      BY <3>4, <3>5
    <3>8. QED BY <3>6, <3>7 DEF Of
  <2>7. ASSUME OneEach(list), config # Off PROVE Of(new, config.parameter_id) = {config}
    <3>1. s \in Active(new)
      BY <2>2, <2>7 DEF Active, sParamNotifyEnabled
    <3>2. \A t \in Active(new) : new[t].parameter_id = config.parameter_id => t = s
      BY <2>2, <2>5, <2>7, <3>1 DEF OneEach
    <3>3. { t \in Active(new) : new[t].parameter_id = config.parameter_id } = {s}
      BY <2>2, <3>1, <3>2
    <3>4. QED BY <2>2, <3>3 DEF Of
  <2>8. QED BY <2>2, <2>5, <2>6, <2>7 DEF new
<1>3. QED BY <1>1, <1>2, EnableIs

(* What disabling does: nothing, or it clears one slot of the parameter.    *)
LEMMA DisableTable ==
  ASSUME NEW list \in Table, NEW id
  PROVE  /\ Disable(list, id) \in Table
         /\ OneEach(list) => OneEach(Disable(list, id))
         /\ \A other : other # id => Of(Disable(list, id), other) = Of(list, other)
<1> DEFINE new  == Disable(list, id)
           same == { s \in Slots : list[s].parameter_id = id }
<1>1. Off \in Setup
  BY NotificationAssumption DEF Off, Setup
<1>2. new = [s \in Slots |-> IF same # {} /\ s = Least(same) THEN Off ELSE list[s]]
  BY DEF Disable
<1>3. new \in Table
  BY <1>1, <1>2 DEF Table
<1>4. ASSUME NEW s \in Slots, new[s] # list[s] PROVE new[s] = Off /\ list[s].parameter_id = id
  <2>1. same # {} /\ s = Least(same) /\ new[s] = Off
    BY <1>2, <1>4
  <2>2. Least(same) \in same
    <3>1. same \subseteq Nat
      BY SlotsAreNat
    <3> HIDE DEF same
    <3>2. QED BY <2>1, <3>1, LeastIs
  <2>3. QED BY <2>1, <2>2
<1> HIDE DEF new
<1>5. \A t \in Active(new) : t \in Active(list) /\ new[t] = list[t]
  BY <1>4 DEF Active, sParamNotifyEnabled
<1>6. OneEach(list) => OneEach(new)
  BY <1>5 DEF OneEach
<1>7. ASSUME NEW other, other # id PROVE Of(new, other) = Of(list, other)
  <2>1. \A t \in Active(list) : list[t].parameter_id = other => t \in Active(new) /\ new[t] = list[t]
    BY <1>4, <1>7 DEF Active
  <2>2. { t \in Active(new) : new[t].parameter_id = other }
          = { t \in Active(list) : list[t].parameter_id = other }
    BY <1>5, <2>1
  <2>3. \A t \in { t \in Active(new) : new[t].parameter_id = other } : new[t] = list[t]
    BY <1>5
  <2>4. QED BY <2>2, <2>3 DEF Of
<1>8. QED BY <1>3, <1>6, <1>7 DEF new

-----------------------------------------------------------------------------
(* The loops over the configurations and the ids of a prompt.               *)

(* The tables of the enabling loop follow from one another.                 *)
LEMMA EnabledByIs ==
  ASSUME NEW list, NEW configs, Len(configs) \in Nat
  PROVE  /\ EnabledBy(list, configs)[0] = list
         /\ \A n \in 1 .. Len(configs) :
              EnabledBy(list, configs)[n] = Enable(EnabledBy(list, configs)[n - 1], configs[n])
<1> DEFINE Is(g, m) == g = [n \in 0 .. m |-> IF n = 0 THEN list ELSE Enable(g[n - 1], configs[n])]
           P == { m \in 0 .. Len(configs) : \E g : Is(g, m) }
<1>1. 0 \in P
  <2>1. Is([n \in 0 .. 0 |-> list], 0)
    OBVIOUS
  <2>2. 0 \in 0 .. Len(configs)
    OBVIOUS
  <2> HIDE DEF Is
  <2>3. QED BY <2>1, <2>2
<1>2. ASSUME NEW m \in 1 .. Len(configs), m - 1 \in P PROVE m \in P
  <2>1. PICK g : Is(g, m - 1)
    BY <1>2
  <2> DEFINE h == [n \in 0 .. m |-> IF n = m THEN Enable(g[m - 1], configs[m]) ELSE g[n]]
  <2>2. \A n \in 0 .. m - 1 : h[n] = g[n]
    OBVIOUS
  <2>3. ASSUME NEW n \in 0 .. m
        PROVE  h[n] = IF n = 0 THEN list ELSE Enable(h[n - 1], configs[n])
    <3>1. CASE n = 0
      BY <2>1, <3>1
    <3>2. CASE n = m
      BY <2>2, <3>2
    <3>3. CASE n \in 1 .. m - 1
      BY <2>1, <2>2, <3>3
    <3>4. QED BY <3>1, <3>2, <3>3
  <2>4. Is(h, m)
    BY <2>3
  <2> HIDE DEF h
  <2>5. QED BY <2>4
<1>3. Len(configs) \in P
  <2> HIDE DEF P
  <2>1. \A m \in 0 .. Len(configs) : m \in P
    BY <1>1, <1>2, EveryTurn
  <2>2. QED BY <2>1
<1>4. \E g : g = [n \in 0 .. Len(configs) |-> IF n = 0 THEN list ELSE Enable(g[n - 1], configs[n])]
  BY <1>3
<1>5. EnabledBy(list, configs)
        = [n \in 0 .. Len(configs) |->
             IF n = 0 THEN list ELSE Enable(EnabledBy(list, configs)[n - 1], configs[n])]
  BY <1>4, Zenon DEF EnabledBy
<1> DEFINE after == EnabledBy(list, configs)
<1> HIDE DEF after
<1>6. after = [n \in 0 .. Len(configs) |-> IF n = 0 THEN list ELSE Enable(after[n - 1], configs[n])]
  BY <1>5 DEF after
<1>7. after[0] = list /\ \A n \in 1 .. Len(configs) : after[n] = Enable(after[n - 1], configs[n])
  BY <1>6
<1>8. QED BY <1>7 DEF after

LEMMA DisabledByIs ==
  ASSUME NEW list, NEW ids, Len(ids) \in Nat
  PROVE  \E after :
           /\ after[0] = list
           /\ \A n \in 1 .. Len(ids) : after[n] = Disable(after[n - 1], ids[n])
           /\ DisabledBy(list, ids) = after[Len(ids)]
<1> DEFINE Is(g, m) == g = [n \in 0 .. m |-> IF n = 0 THEN list ELSE Disable(g[n - 1], ids[n])]
           P == { m \in 0 .. Len(ids) : \E g : Is(g, m) }
<1>1. 0 \in P
  <2>1. Is([n \in 0 .. 0 |-> list], 0)
    OBVIOUS
  <2>2. 0 \in 0 .. Len(ids)
    OBVIOUS
  <2> HIDE DEF Is
  <2>3. QED BY <2>1, <2>2
<1>2. ASSUME NEW m \in 1 .. Len(ids), m - 1 \in P PROVE m \in P
  <2>1. PICK g : Is(g, m - 1)
    BY <1>2
  <2> DEFINE h == [n \in 0 .. m |-> IF n = m THEN Disable(g[m - 1], ids[m]) ELSE g[n]]
  <2>2. \A n \in 0 .. m - 1 : h[n] = g[n]
    OBVIOUS
  <2>3. ASSUME NEW n \in 0 .. m
        PROVE  h[n] = IF n = 0 THEN list ELSE Disable(h[n - 1], ids[n])
    <3>1. CASE n = 0
      BY <2>1, <3>1
    <3>2. CASE n = m
      BY <2>2, <3>2
    <3>3. CASE n \in 1 .. m - 1
      BY <2>1, <2>2, <3>3
    <3>4. QED BY <3>1, <3>2, <3>3
  <2>4. Is(h, m)
    BY <2>3
  <2> HIDE DEF h
  <2>5. QED BY <2>4
<1>3. Len(ids) \in P
  <2> HIDE DEF P
  <2>1. \A m \in 0 .. Len(ids) : m \in P
    BY <1>1, <1>2, EveryTurn
  <2>2. QED BY <2>1
<1> DEFINE after == CHOOSE g : g = [n \in 0 .. Len(ids) |->
                                      IF n = 0 THEN list ELSE Disable(g[n - 1], ids[n])]
<1>4. \E g : g = [n \in 0 .. Len(ids) |-> IF n = 0 THEN list ELSE Disable(g[n - 1], ids[n])]
  BY <1>3
<1>5. after = [n \in 0 .. Len(ids) |-> IF n = 0 THEN list ELSE Disable(after[n - 1], ids[n])]
  BY <1>4, Zenon
<1>6. DisabledBy(list, ids) = after[Len(ids)]
  BY DEF DisabledBy
<1> HIDE DEF after
<1>7. after[0] = list /\ \A n \in 1 .. Len(ids) : after[n] = Disable(after[n - 1], ids[n])
  BY <1>5
<1>8. QED BY <1>6, <1>7

(* What every configuration preserves, all of them do.                      *)
LEMMA EnabledTables ==
  ASSUME NEW list \in Table, NEW configs \in Seq(Config)
  PROVE  LET after == EnabledBy(list, configs)
         IN  \A n \in 0 .. Len(configs) :
               /\ after[n] \in Table
               /\ OneEach(list) => OneEach(after[n])
               /\ \A id : (\A i \in 1 .. n : configs[i].parameter_id # id) =>
                            Of(after[n], id) = Of(list, id)
<1> DEFINE after == EnabledBy(list, configs)
           Good(n) == /\ after[n] \in Table
                      /\ OneEach(list) => OneEach(after[n])
                      /\ \A id : (\A i \in 1 .. n : configs[i].parameter_id # id) =>
                                   Of(after[n], id) = Of(list, id)
           P == { n \in 0 .. Len(configs) : Good(n) }
<1>1. Len(configs) \in Nat /\ \A n \in 1 .. Len(configs) : configs[n] \in Config
  BY LenProperties, ElementOfSeq
<1>2. after[0] = list /\ \A n \in 1 .. Len(configs) : after[n] = Enable(after[n - 1], configs[n])
  BY <1>1, EnabledByIs
<1> HIDE DEF after
<1>3. 0 \in P
  BY <1>1, <1>2
<1>4. ASSUME NEW n \in 1 .. Len(configs), n - 1 \in P PROVE n \in P
  <2>1. Good(n - 1)
    BY <1>4
  <2> DEFINE before == after[n - 1]
  <2>2. configs[n] \in Config /\ before \in Table
    BY <1>1, <2>1
  <2>3. after[n] = Enable(before, configs[n])
    BY <1>2
  <2> HIDE DEF before
  <2>4. /\ after[n] \in Table
        /\ OneEach(before) => OneEach(after[n])
        /\ \A id : id # configs[n].parameter_id => Of(after[n], id) = Of(before, id)
    BY <2>2, <2>3, EnableTable
  <2>5. \A i \in 1 .. n - 1 : i \in 1 .. n
    BY <1>1
  <2>6. n \in 1 .. n
    BY <1>1
  <2>7. ASSUME NEW id, \A i \in 1 .. n : configs[i].parameter_id # id
        PROVE  Of(after[n], id) = Of(list, id)
    <3>1. Of(before, id) = Of(list, id)
      BY <2>1, <2>5, <2>7 DEF before
    <3>2. QED BY <2>4, <2>6, <2>7, <3>1
  <2>8. OneEach(list) => OneEach(after[n])
    BY <2>1, <2>4 DEF before
  <2>9. Good(n)
    BY <2>4, <2>7, <2>8
  <2> HIDE DEF Good
  <2>10. QED BY <2>9
<1>5. \A n \in 0 .. Len(configs) : n \in P
  <2> HIDE DEF P
  <2>1. QED BY <1>1, <1>3, <1>4, EveryTurn
<1>6. \A n \in 0 .. Len(configs) : Good(n)
  BY <1>5
<1>7. QED BY <1>6 DEF after

(* A configuration that found a slot is the parameter's one, unless a later *)
(* one is for the same parameter.                                          *)
LEMMA EnabledStays ==
  ASSUME NEW list \in Table, OneEach(list), NEW configs \in Seq(Config),
         \A i \in 1 .. Len(configs) : configs[i] # Off,
         \A i \in 1 .. Len(configs) :
           EnableError(EnabledBy(list, configs)[i - 1], configs[i]) = "NO_ERROR"
  PROVE  \A n \in 0 .. Len(configs) : \A i \in 1 .. n :
           \/ Of(EnabledBy(list, configs)[n], configs[i].parameter_id) = {configs[i]}
           \/ \E j \in i + 1 .. n : configs[j].parameter_id = configs[i].parameter_id
<1> DEFINE after == EnabledBy(list, configs)
           Good(n) == \A i \in 1 .. n :
                        \/ Of(after[n], configs[i].parameter_id) = {configs[i]}
                        \/ \E j \in i + 1 .. n : configs[j].parameter_id = configs[i].parameter_id
           P == { n \in 0 .. Len(configs) : Good(n) }
<1>1. Len(configs) \in Nat /\ \A n \in 1 .. Len(configs) : configs[n] \in Config
  BY LenProperties, ElementOfSeq
<1>2. after[0] = list /\ \A n \in 1 .. Len(configs) : after[n] = Enable(after[n - 1], configs[n])
  BY <1>1, EnabledByIs
<1>3. \A n \in 0 .. Len(configs) : after[n] \in Table /\ OneEach(after[n])
  BY EnabledTables
<1>4. \A n \in 1 .. Len(configs) : EnableError(after[n - 1], configs[n]) = "NO_ERROR"
  OBVIOUS
<1> HIDE DEF after
<1>5. 0 \in P
  BY <1>1
<1>6. ASSUME NEW n \in 1 .. Len(configs), n - 1 \in P PROVE n \in P
  <2>1. Good(n - 1)
    BY <1>6
  <2> DEFINE before == after[n - 1]
  <2>2. n - 1 \in 0 .. Len(configs)
    BY <1>1
  <2>3. /\ configs[n] \in Config /\ before \in Table /\ OneEach(before) /\ configs[n] # Off
        /\ EnableError(before, configs[n]) = "NO_ERROR"
    BY <1>1, <1>3, <1>4, <2>2
  <2>4. after[n] = Enable(before, configs[n])
    BY <1>2
  <2> HIDE DEF before
  <2> DEFINE config == configs[n]
  <2> HIDE DEF config
  <2>5. /\ \A id : id # config.parameter_id => Of(after[n], id) = Of(before, id)
        /\ Of(after[n], config.parameter_id) = {config}
    <3>1. /\ config \in Config /\ before \in Table /\ OneEach(before) /\ config # Off
          /\ EnableError(before, config) = "NO_ERROR"
      BY <2>3 DEF config
    <3>2. after[n] = Enable(before, config)
      BY <2>4 DEF config
    <3>3. /\ \A id : id # config.parameter_id =>
                      Of(Enable(before, config), id) = Of(before, id)
          /\ OneEach(before) /\ config # Off /\ EnableError(before, config) = "NO_ERROR" =>
               Of(Enable(before, config), config.parameter_id) = {config}
      BY <3>1, EnableTable
    <3>4. QED BY <3>1, <3>2, <3>3
  <2>6. ASSUME NEW i \in 1 .. n
        PROVE  \/ Of(after[n], configs[i].parameter_id) = {configs[i]}
               \/ \E j \in i + 1 .. n : configs[j].parameter_id = configs[i].parameter_id
    <3>1. CASE i = n
      BY <2>5, <3>1 DEF config
    <3>2. CASE i # n /\ configs[i].parameter_id = configs[n].parameter_id
      <4>1. n \in i + 1 .. n
        BY <3>2
      <4>2. QED BY <3>2, <4>1
    <3>3. CASE i # n /\ configs[i].parameter_id # configs[n].parameter_id
      <4>1. i \in 1 .. n - 1
        BY <3>3
      <4>2. \/ Of(before, configs[i].parameter_id) = {configs[i]}
            \/ \E j \in i + 1 .. n - 1 : configs[j].parameter_id = configs[i].parameter_id
        BY <2>1, <4>1 DEF before
      <4>3. \A j \in i + 1 .. n - 1 : j \in i + 1 .. n
        BY <1>1
      <4>4. QED BY <2>5, <3>3, <4>2, <4>3 DEF config
    <3>4. QED BY <3>1, <3>2, <3>3
  <2>7. Good(n)
    BY <2>6
  <2> HIDE DEF Good
  <2>8. QED BY <2>7
<1>7. \A n \in 0 .. Len(configs) : n \in P
  <2> HIDE DEF P
  <2>1. QED BY <1>1, <1>5, <1>6, EveryTurn
<1>8. \A n \in 0 .. Len(configs) : Good(n)
  BY <1>7
<1>9. QED BY <1>8 DEF after

LEMMA DisabledTable ==
  ASSUME NEW list \in Table, NEW ids \in Seq(Nat)
  PROVE  /\ DisabledBy(list, ids) \in Table
         /\ OneEach(list) => OneEach(DisabledBy(list, ids))
         /\ \A id : (\A i \in 1 .. Len(ids) : ids[i] # id) =>
                      Of(DisabledBy(list, ids), id) = Of(list, id)
<1>1. Len(ids) \in Nat
  BY LenProperties
<1>2. PICK after : /\ after[0] = list
                   /\ \A n \in 1 .. Len(ids) : after[n] = Disable(after[n - 1], ids[n])
                   /\ DisabledBy(list, ids) = after[Len(ids)]
  BY <1>1, DisabledByIs
<1> DEFINE Good(n) == /\ after[n] \in Table
                      /\ OneEach(list) => OneEach(after[n])
                      /\ \A id : (\A i \in 1 .. n : ids[i] # id) => Of(after[n], id) = Of(list, id)
           P == { n \in 0 .. Len(ids) : Good(n) }
<1>3. 0 \in P
  BY <1>1, <1>2
<1>4. ASSUME NEW n \in 1 .. Len(ids), n - 1 \in P PROVE n \in P
  <2>1. Good(n - 1)
    BY <1>4
  <2> DEFINE before == after[n - 1]
  <2>2. before \in Table
    BY <2>1
  <2>3. after[n] = Disable(before, ids[n])
    BY <1>2
  <2> HIDE DEF before
  <2>4. /\ after[n] \in Table
        /\ OneEach(before) => OneEach(after[n])
        /\ \A id : id # ids[n] => Of(after[n], id) = Of(before, id)
    BY <2>2, <2>3, DisableTable
  <2>5. \A i \in 1 .. n - 1 : i \in 1 .. n
    BY <1>1
  <2>6. n \in 1 .. n
    BY <1>1
  <2>7. ASSUME NEW id, \A i \in 1 .. n : ids[i] # id PROVE Of(after[n], id) = Of(list, id)
    <3>1. Of(before, id) = Of(list, id)
      BY <2>1, <2>5, <2>7 DEF before
    <3>2. QED BY <2>4, <2>6, <2>7, <3>1
  <2>8. OneEach(list) => OneEach(after[n])
    BY <2>1, <2>4 DEF before
  <2>9. Good(n)
    BY <2>4, <2>7, <2>8
  <2> HIDE DEF Good
  <2>10. QED BY <2>9
<1>5. \A n \in 0 .. Len(ids) : n \in P
  <2> HIDE DEF P
  <2>1. QED BY <1>1, <1>3, <1>4, EveryTurn
<1>6. Good(Len(ids))
  BY <1>1, <1>5
<1>7. QED BY <1>2, <1>6

(* The loop comes to the configurations before the first that is all zero.  *)
LEMMA UpToOffIs ==
  ASSUME NEW configs \in Seq(Config)
  PROVE  /\ UpToOff(configs) \in Seq(Config)
         /\ \A i \in 1 .. Len(UpToOff(configs)) :
              /\ i \in 1 .. Len(configs)
              /\ UpToOff(configs)[i] = configs[i]
              /\ UpToOff(configs)[i] # Off
<1> DEFINE offs == { i \in DOMAIN configs : configs[i] = Off }
<1>1. DOMAIN configs = 1 .. Len(configs) /\ Len(configs) \in Nat
  BY LenProperties
<1>2. CASE offs = {}
  BY <1>1, <1>2 DEF UpToOff
<1>3. CASE offs # {}
  <2>1. offs \subseteq Nat
    BY <1>1
  <2>2. Least(offs) \in offs /\ \A i \in offs : Least(offs) <= i
    <3> HIDE DEF offs
    <3>1. \E s \in offs : \A t \in offs : s <= t
      BY <1>3, <2>1, LeastNatural
    <3>2. QED BY <3>1 DEF Least
  <2>3. PICK l \in offs : l = Least(offs)
    BY <2>2
  <2>4. UpToOff(configs) = SubSeq(configs, 1, l - 1)
    BY <1>3, <2>3 DEF UpToOff
  <2>5. l - 1 \in 0 .. Len(configs)
    BY <1>1
  <2>6. /\ SubSeq(configs, 1, l - 1) \in Seq(Config)
        /\ Len(SubSeq(configs, 1, l - 1)) = l - 1
        /\ \A i \in 1 .. l - 1 : SubSeq(configs, 1, l - 1)[i] = configs[i]
    <3>1. \A i \in 1 .. l - 1 : configs[i] \in Config
      BY <1>1, <2>5, ElementOfSeq
    <3>2. QED BY <2>5, <3>1, SubSeqProperties
  <2>7. ASSUME NEW i \in 1 .. l - 1 PROVE i \in 1 .. Len(configs) /\ configs[i] # Off
    <3>1. i \in 1 .. Len(configs) /\ ~(l <= i)
      BY <2>5, <2>7
    <3>2. i \notin offs
      BY <2>2, <2>3, <3>1
    <3>3. QED BY <1>1, <3>1, <3>2
  <2>8. QED BY <2>4, <2>6, <2>7
<1>4. QED BY <1>2, <1>3

-----------------------------------------------------------------------------
(* The invariant.                                                          *)

(* Of the configurations a client has got n, all below parameter p, each is *)
(* in the table, and none is of the same parameter as another.             *)
Got(got, list, n, p) ==
  /\ Len(got) = n
  /\ \A i \in 1 .. n : /\ got[i].parameter_id \in 1 .. p - 1
                       /\ \E s \in Active(list) : got[i] = list[s]
  /\ \A i, j \in 1 .. n : got[i].parameter_id = got[j].parameter_id => i = j

(* A discovery that goes on has sent no more than it found at its beginning *)
(* and, of everything, has gone through the table up to next_param, unless  *)
(* all notifications have been cleared since.                              *)
GoesOn ==
  /\ notify_index <= notify_count
  /\ requested = <<>> /\ Active(notify_list) # {} =>
       /\ notify_count = Cardinality(Active(notify_list))
       /\ Got(received, notify_list, notify_index, next_param)

(* One that was denied has nothing left to send by the time it is granted   *)
(* again, even if a prompt's header has said otherwise in between.          *)
NothingLeft == notify_count = 0 /\ (num_remaining_objects = 0 \/ ~crcb_access_granted)

(* No discovery goes on that owes the client something.                     *)
NothingOwed == continued_message_type = INVALID \/ (hdr \in Tid /\ NothingLeft)

(* A call of cr_process comes to the prompt with a discovery still going on *)
(* only if it was denied.                                                  *)
DiscoveryInv ==
  /\ requested # <<>> => notify_count <= Len(requested)
  /\ phase = "prompt" /\ continued_message_type # INVALID =>
       notify_count = 0 /\ ~crcb_access_granted
  /\ continued_message_type # INVALID => hdr \in Tid /\ (GoesOn \/ NothingLeft)

TableInv == TypeOK /\ OneSlotEach /\ DiscoveryInv

LEMMA OneSlotEachIs == OneSlotEach <=> OneEach(notify_list)
  BY DEF OneSlotEach, OneEach

-----------------------------------------------------------------------------
(* Messages.                                                               *)

Sendable(m) == m = NoMessage \/ IsResponse(m) \/ IsNotification(m)

BuffersOK ==
  /\ response_buffer = NoMessage \/ IsResponse(response_buffer)
  /\ notification_buffer = NoMessage \/ IsNotification(notification_buffer)
  /\ \A i \in DOMAIN sent : Sendable(sent[i])

HeaderOK ==
  /\ connected \in BOOLEAN /\ key_valid \in BOOLEAN /\ classic \in BOOLEAN
  /\ key_presented \in BOOLEAN
  /\ prompt \in NotifyPrompts \cup {NoPrompt}
  /\ hdr \in Tid \cup {0}
  /\ owner \in [tid: Tid \cup {0}, classic: BOOLEAN]
  /\ continued_message_type \in {INVALID, "DISCOVER_NOTIFICATIONS"}
  /\ num_remaining_objects \in Nat
  /\ phase \in {"idle", "prompt", "hung"}

NotifyOK ==
  /\ notify_list \in Table
  /\ requested \in Lists \cup {<<>>}
  /\ notify_count \in Nat /\ notify_index \in Nat
  /\ next_param \in 1 .. NumParams + 1
  /\ received \in Seq(Setup)

LEMMA TypeParts == TypeOK <=> HeaderOK /\ BuffersOK /\ NotifyOK
  BY DEF TypeOK, HeaderOK, BuffersOK, NotifyOK, Sendable, Table

LEMMA NextTypeParts ==
  ASSUME HeaderOK', BuffersOK', NotifyOK'
  PROVE  TypeOK'
  BY DEF TypeOK, HeaderOK, BuffersOK, NotifyOK, Sendable, Table

(* What a stored prompt's fields may be.                                   *)
LEMMA PromptFields ==
  ASSUME TypeOK, prompt # NoPrompt
  PROVE  /\ prompt.tid \in Tid /\ prompt.classic \in BOOLEAN /\ prompt.more \in Nat
         /\ prompt.type \in {"DISCOVER_NOTIFICATIONS", "PARAM_DISABLE_NOTIFY"} =>
              prompt.arg.ids \in Lists
         /\ prompt.type = "PARAM_ENABLE_NOTIFY" =>
              prompt.arg.configs \in Setups /\ prompt.arg.disable_all_first \in BOOLEAN
<1>1. prompt \in NotifyPrompts
  BY DEF TypeOK
<1>2. QED BY <1>1, CoreAssumption DEF NotifyPrompts, CorePrompts, Wire, NoArgs

LEMMA TypedPrompt == ASSUME prompt.type # "NONE" PROVE prompt # NoPrompt
  BY DEF NoPrompt

(* Error reports and the message after them are messages the stack can send. *)
LEMMA ReportOK ==
  ASSUME TypeOK, NEW format \in BOOLEAN, NEW C, NEW codes \in Seq(C), NEW m, Sendable(m),
         Report(format, codes, <<m>>)
  PROVE  /\ \A i \in DOMAIN sent' : Sendable(sent'[i])
         /\ notification_buffer' = NoMessage \/ IsNotification(notification_buffer')
<1>1. Len(codes) \in Nat /\ DOMAIN codes = 1 .. Len(codes) /\ (codes = <<>> <=> Len(codes) = 0)
  BY LenProperties, EmptySeq
<1>2. \A code : IsNotification(ErrorReport(code))
  BY DEF IsNotification, ErrorReport, Message
<1>3. notification_buffer = NoMessage \/ IsNotification(notification_buffer)
  BY DEF TypeOK
<1> DEFINE S == { Reports(format, codes)[i] : i \in 1 .. Len(codes) } \cup {m}
           reports == Reports(format, codes)
<1>4. \A i \in 1 .. Len(codes) : Sendable(reports[i])
  BY <1>1, <1>2, <1>3 DEF Reports, Sendable
<1>5. DOMAIN reports = 1 .. Len(codes) /\ reports = [i \in 1 .. Len(codes) |-> reports[i]]
  BY <1>1 DEF Reports
<1>6. \A x \in S : Sendable(x)
  BY <1>4
<1> HIDE DEF reports
<1>7. reports \in [1 .. Len(codes) -> S]
  BY <1>5 DEF reports
<1>8. reports \in Seq(S) /\ <<m>> \in Seq(S)
  BY <1>1, <1>7, SeqDef
<1> HIDE DEF S
<1>9. sent' \in Seq(S)
  <2>1. sent' = reports \o <<m>>
    BY DEF Report, reports
  <2>2. QED BY <1>8, <2>1, ConcatProperties
<1>10. \A i \in DOMAIN sent' : Sendable(sent'[i])
  BY <1>6, <1>9, LenProperties, ElementOfSeq
<1>11. notification_buffer' = NoMessage \/ IsNotification(notification_buffer')
  BY <1>2, <1>3 DEF Report
<1>12. QED BY <1>10, <1>11

LEMMA EncodeOK ==
  ASSUME TypeOK, NEW type, NEW tid, NEW format \in BOOLEAN, NEW remaining, NEW body,
         NEW C, NEW codes \in Seq(C),
         IsResponse(Message(type, tid, format, remaining, body)),
         Encode(type, tid, format, remaining, body, codes)
  PROVE  BuffersOK'
<1> DEFINE m == Message(type, tid, format, remaining, body)
<1>1. response_buffer' = m /\ Report(format, codes, <<m>>) /\ IsResponse(m)
  BY DEF Encode
<1> HIDE DEF m
<1>2. Sendable(m)
  BY <1>1 DEF Sendable
<1>3. /\ \A i \in DOMAIN sent' : Sendable(sent'[i])
      /\ notification_buffer' = NoMessage \/ IsNotification(notification_buffer')
  BY <1>1, <1>2, ReportOK
<1>4. QED BY <1>1, <1>3 DEF BuffersOK

LEMMA FailOK ==
  ASSUME TypeOK, prompt # NoPrompt, NEW code, Fail(<<code>>, code)
  PROVE  BuffersOK'
<1>1. Report(prompt.classic, Append(<<code>>, code), <<response_buffer>>)
  BY DEF Fail
<1>2. Append(<<code>>, code) \in Seq({code})
  OBVIOUS
<1>3. Sendable(response_buffer) /\ prompt.classic \in BOOLEAN
  BY PromptFields DEF TypeOK, Sendable
<1>4. /\ \A i \in DOMAIN sent' : Sendable(sent'[i])
      /\ notification_buffer' = NoMessage \/ IsNotification(notification_buffer')
  BY <1>1, <1>2, <1>3, ReportOK
<1>5. QED BY <1>4 DEF BuffersOK, Fail, TypeOK

LEMMA SilentOK == ASSUME TypeOK, Silent PROVE BuffersOK'
<1>1. sent' = <<>> /\ DOMAIN sent' = {}
  BY DEF Silent
<1>2. QED BY <1>1 DEF Silent, buffers, BuffersOK, TypeOK

LEMMA RespondOK ==
  ASSUME TypeOK, prompt # NoPrompt, NEW type, NEW remaining \in Nat, NEW body,
         NEW C, NEW codes \in Seq(C),
         \/ type \in {"PING", "GET_DEVICE_INFO"} /\ body = 0
         \/ type \in {"PARAM_ENABLE_NOTIFY", "PARAM_DISABLE_NOTIFY"} /\ body \in SetupResult
         \/ type = "DISCOVER_NOTIFICATIONS" /\ body \in Seq(Setup),
         Respond(type, remaining, body, codes)
  PROVE  BuffersOK' /\ num_remaining_objects' = remaining
<1>1. prompt.tid \in Tid /\ prompt.classic \in BOOLEAN
  BY PromptFields
<1>2. IsResponse(Message(type, prompt.tid, prompt.classic, remaining, body))
  BY <1>1 DEF IsResponse, Message
<1>3. Encode(type, prompt.tid, prompt.classic, remaining, body, codes)
  BY DEF Respond
<1>4. BuffersOK'
  BY <1>1, <1>2, <1>3, EncodeOK
<1>5. QED BY <1>4 DEF Respond

-----------------------------------------------------------------------------
(* The steps of the core.                                                  *)

LEMMA NothingContinued ==
  ASSUME TableInv, AtPrompt
  PROVE  /\ NothingOwed
         /\ continued_message_type # INVALID => notify_count = 0 /\ ~crcb_access_granted
  BY DEF TableInv, DiscoveryInv, AtPrompt, NothingOwed, NothingLeft

(* What Dispatch leaves.                                                   *)
LEMMA Dispatched ==
  ASSUME TableInv, NEW type, type # "NONE", Dispatch(type)
  PROVE  /\ prompt # NoPrompt /\ prompt' = NoPrompt
         /\ classic' \in BOOLEAN /\ hdr' \in Tid /\ phase' = "idle"
         /\ continued_message_type # INVALID => notify_count = 0 /\ ~crcb_access_granted
<1>1. prompt # NoPrompt
  BY TypedPrompt DEF Dispatch
<1>2. QED BY <1>1, PromptFields, NothingContinued DEF Dispatch, TableInv

LEMMA DispatchedHeader ==
  ASSUME TableInv, NEW type, type # "NONE", Dispatch(type),
         connected' \in BOOLEAN, key_valid' \in BOOLEAN, key_presented' \in BOOLEAN,
         num_remaining_objects' \in Nat, KeepContinued,
         notify_count' \in {notify_count, 0},
         key_valid' = key_valid \/ num_remaining_objects' = 0
  PROVE  HeaderOK' /\ NothingOwed' /\ phase' = "idle"
<1>1. HeaderOK
  BY TypeParts DEF TableInv
<1>2. owner' = owner /\ continued_message_type' = continued_message_type
  BY DEF KeepContinued
<1>3. /\ prompt' = NoPrompt /\ classic' \in BOOLEAN /\ hdr' \in Tid /\ phase' = "idle"
      /\ continued_message_type # INVALID => notify_count = 0 /\ ~crcb_access_granted
  BY Dispatched
<1>4. NothingOwed'
  BY <1>2, <1>3 DEF NothingOwed, NothingLeft, crcb_access_granted
<1>5. QED BY <1>1, <1>2, <1>3, <1>4 DEF HeaderOK

(* Without a discovery that owes the client something, all is in order once *)
(* the call is over.                                                       *)
LEMMA NoDiscovery ==
  ASSUME TableInv, NothingOwed', phase' # "prompt" \/ continued_message_type' = INVALID,
         requested' = requested, notify_count' = notify_count
  PROVE  DiscoveryInv'
  BY DEF TableInv, DiscoveryInv, NothingOwed

LEMMA SameTable ==
  ASSUME TableInv, notify_list' = notify_list
  PROVE  OneSlotEach'
  BY DEF TableInv, OneSlotEach

LEMMA SameNotify ==
  ASSUME TableInv, UNCHANGED notifyVars
  PROVE  NotifyOK'
<1>1. NotifyOK
  BY TypeParts DEF TableInv
<1>2. QED BY <1>1 DEF NotifyOK, notifyVars, discoveryVars

(* Everything a handler of the core has to do with the table.               *)
LEMMA HandlerKeeps ==
  ASSUME TableInv, UNCHANGED notifyVars, HeaderOK', BuffersOK', NothingOwed',
         phase' # "prompt" \/ continued_message_type' = INVALID
  PROVE  TableInv'
<1>1. NotifyOK'
  BY SameNotify
<1>2. TypeOK'
  BY <1>1, NextTypeParts
<1>3. OneSlotEach' /\ DiscoveryInv'
  BY SameTable, NoDiscovery DEF notifyVars, discoveryVars
<1>4. QED BY <1>2, <1>3 DEF TableInv

LEMMA HandlersTable ==
  ASSUME TableInv, CoreHandlers, UNCHANGED notifyVars
  PROVE  TableInv'
<1>1. TypeOK /\ HeaderOK /\ notify_count' = notify_count
  BY TypeParts DEF TableInv, notifyVars, discoveryVars
<1>2. CASE handle_ping
  <2>1. Dispatch("PING") /\ KeepContinued /\ UNCHANGED link
    BY <1>2 DEF handle_ping
  <2>2. BuffersOK' /\ num_remaining_objects' = 0
    <3>1. CASE key_valid
      <4>1. Respond("PING", 0, 0, <<>>)
        BY <1>2, <3>1 DEF handle_ping
      <4>2. <<>> \in Seq({})
        OBVIOUS
      <4>3. prompt # NoPrompt
        BY <2>1, Dispatched
      <4>4. QED BY <1>1, <4>1, <4>2, <4>3, RespondOK
    <3>2. CASE ~key_valid
      BY <1>1, <1>2, <3>2, SilentOK DEF handle_ping
    <3>3. QED BY <3>1, <3>2
  <2>3. connected' \in BOOLEAN /\ key_valid' \in BOOLEAN /\ key_presented' \in BOOLEAN
    BY <1>1, <2>1 DEF link, HeaderOK
  <2>4. HeaderOK' /\ NothingOwed' /\ phase' = "idle"
    BY <1>1, <2>1, <2>2, <2>3, DispatchedHeader DEF link
  <2>5. QED BY <2>2, <2>4, HandlerKeeps
<1>3. CASE handle_get_device_info
  <2>1. Dispatch("GET_DEVICE_INFO") /\ Respond("GET_DEVICE_INFO", 0, 0, <<>>) /\ KeepContinued
    BY <1>3 DEF handle_get_device_info
  <2>2. BuffersOK' /\ num_remaining_objects' = 0
    <3>1. <<>> \in Seq({})
      OBVIOUS
    <3>2. prompt # NoPrompt
      BY <2>1, Dispatched
    <3>3. QED BY <1>1, <2>1, <3>1, <3>2, RespondOK
  <2>3. connected' \in BOOLEAN /\ key_valid' \in BOOLEAN /\ key_presented' \in BOOLEAN
    BY <1>1, <1>3 DEF handle_get_device_info, HeaderOK
  <2>4. HeaderOK' /\ NothingOwed' /\ phase' = "idle"
    BY <1>1, <2>1, <2>2, <2>3, DispatchedHeader
  <2>5. QED BY <2>2, <2>4, HandlerKeeps
<1>4. CASE handle_undecodable_header
  <2>1. prompt # NoPrompt
    BY <1>4, TypedPrompt DEF handle_undecodable_header
  <2>2. prompt.classic \in BOOLEAN
    BY <1>1, <2>1, PromptFields
  <2>3. BuffersOK'
    BY <1>1, <1>4, <2>1, FailOK DEF handle_undecodable_header
  <2>4. NothingOwed
    BY <1>4, NothingContinued DEF handle_undecodable_header
  <2>5. /\ prompt' = NoPrompt /\ classic' = prompt.classic /\ phase' = "idle"
        /\ UNCHANGED <<link, hdr, continued>>
    BY <1>4 DEF handle_undecodable_header
  <2>6. HeaderOK'
    BY <1>1, <2>2, <2>5 DEF continued, link, HeaderOK
  <2>7. NothingOwed'
    BY <1>1, <2>4, <2>5 DEF continued, link, NothingOwed, NothingLeft, crcb_access_granted
  <2>8. QED BY <2>3, <2>5, <2>6, <2>7, HandlerKeeps
<1>5. CASE handle_undecodable_payload
  <2>1. Dispatch("BAD_PAYLOAD") /\ KeepContinued /\ UNCHANGED link
    BY <1>5 DEF handle_undecodable_payload
  <2>2. prompt # NoPrompt
    BY <2>1, Dispatched
  <2>3. BuffersOK'
    BY <1>1, <1>5, <2>2, FailOK DEF handle_undecodable_payload
  <2>4. num_remaining_objects' \in Nat
    BY <1>1, <1>5, <2>2, PromptFields DEF handle_undecodable_payload, HeaderOK
  <2>5. connected' \in BOOLEAN /\ key_valid' \in BOOLEAN /\ key_presented' \in BOOLEAN
    BY <1>1, <2>1 DEF link, HeaderOK
  <2>6. HeaderOK' /\ NothingOwed' /\ phase' = "idle"
    BY <1>1, <2>1, <2>4, <2>5, DispatchedHeader DEF link
  <2>7. QED BY <2>3, <2>6, HandlerKeeps
<1>6. CASE handle_unhandled_type
  <2>1. Dispatch("UNHANDLED") /\ KeepContinued /\ UNCHANGED link
    BY <1>6 DEF handle_unhandled_type
  <2>2. prompt # NoPrompt
    BY <2>1, Dispatched
  <2>3. BuffersOK'
    BY <1>1, <1>6, <2>2, FailOK DEF handle_unhandled_type
  <2>4. num_remaining_objects' \in Nat
    BY <1>1, <1>6, <2>2, PromptFields DEF handle_unhandled_type, HeaderOK
  <2>5. connected' \in BOOLEAN /\ key_valid' \in BOOLEAN /\ key_presented' \in BOOLEAN
    BY <1>1, <2>1 DEF link, HeaderOK
  <2>6. HeaderOK' /\ NothingOwed' /\ phase' = "idle"
    BY <1>1, <2>1, <2>4, <2>5, DispatchedHeader DEF link
  <2>7. QED BY <2>3, <2>6, HandlerKeeps
<1>7. QED BY <1>2, <1>3, <1>4, <1>5, <1>6 DEF CoreHandlers

LEMMA AllOffTable == AllOff \in Table /\ OneEach(AllOff) /\ Active(AllOff) = {}
<1>1. Off \in Setup
  BY NotificationAssumption DEF Off, Setup
<1>2. Active(AllOff) = {}
  BY DEF Active, AllOff, sParamNotifyEnabled
<1>3. QED BY <1>1, <1>2 DEF AllOff, Table, OneEach

LEMMA LinkTable ==
  ASSUME TableInv, LinkApplication
  PROVE  TableInv'
<1>0. TypeOK /\ HeaderOK /\ BuffersOK /\ NotifyOK
  BY TypeParts DEF TableInv
<1>1. CASE cr_store_coded_prompt(NotifyPrompts)
  <2>1. notify_list' = notify_list /\ UNCHANGED discoveryVars
    BY <1>1 DEF LinkApplication, cr_store_coded_prompt, link
  <2>2. BuffersOK'
    BY <1>0, <1>1, SilentOK DEF cr_store_coded_prompt
  <2>3. HeaderOK'
    BY <1>0, <1>1 DEF cr_store_coded_prompt, link, continued, HeaderOK
  <2>4. DiscoveryInv'
    BY <1>1, <2>1 DEF cr_store_coded_prompt, continued, discoveryVars, DiscoveryInv, TableInv,
                       GoesOn, NothingLeft, crcb_access_granted, link
  <2>5. TypeOK'
    BY <2>1, <2>2, <2>3, SameNotify, NextTypeParts DEF notifyVars
  <2>6. OneSlotEach'
    BY <2>1, SameTable
  <2>7. QED BY <2>4, <2>5, <2>6 DEF TableInv
<1>2. CASE set_connected
  <2>1. notify_list' = AllOff /\ UNCHANGED discoveryVars
    BY <1>2 DEF LinkApplication, set_connected
  <2>2. BuffersOK'
    BY <1>0, <1>2, SilentOK DEF set_connected
  <2>3. HeaderOK'
    <3>1. NoOwner \in [tid: Tid \cup {0}, classic: BOOLEAN]
      BY DEF NoOwner
    <3>2. QED BY <1>0, <1>2, <3>1 DEF set_connected, EndContinued, HeaderOK
  <2>4. DiscoveryInv'
    BY <1>2, <2>1, NoDiscovery DEF set_connected, EndContinued, discoveryVars, NothingOwed
  <2>5. OneSlotEach'
    BY <2>1, AllOffTable DEF OneSlotEach, OneEach
  <2>6. NotifyOK'
    BY <1>0, <2>1, AllOffTable DEF NotifyOK, discoveryVars
  <2>7. TypeOK'
    BY <2>2, <2>3, <2>6, NextTypeParts
  <2>8. QED BY <2>4, <2>5, <2>7 DEF TableInv
<1>3. CASE set_disconnected
  <2>1. notify_list' = notify_list /\ UNCHANGED discoveryVars
    BY <1>3 DEF LinkApplication, set_disconnected
  <2>2. BuffersOK'
    BY <1>0, <1>3, SilentOK DEF set_disconnected
  <2>3. HeaderOK'
    BY <1>0, <1>3 DEF set_disconnected, continued, HeaderOK
  <2>4. DiscoveryInv'
    BY <1>3, <2>1 DEF set_disconnected, continued, discoveryVars, DiscoveryInv, TableInv,
                       GoesOn, NothingLeft, crcb_access_granted, link
  <2>5. TypeOK'
    BY <2>1, <2>2, <2>3, SameNotify, NextTypeParts DEF notifyVars
  <2>6. OneSlotEach'
    BY <2>1, SameTable
  <2>7. QED BY <2>4, <2>5, <2>6 DEF TableInv
<1>4. CASE cr_get_coded_response_buffer
  <2>1. notify_list' = notify_list /\ UNCHANGED discoveryVars
    BY <1>4 DEF LinkApplication, cr_get_coded_response_buffer, link
  <2>2. BuffersOK'
    <3>1. DOMAIN sent' = {}
      BY <1>4 DEF cr_get_coded_response_buffer
    <3>2. QED BY <1>0, <1>4, <3>1 DEF cr_get_coded_response_buffer, BuffersOK
  <2>3. HeaderOK'
    BY <1>0, <1>4 DEF cr_get_coded_response_buffer, link, continued, HeaderOK
  <2>4. DiscoveryInv'
    BY <1>4, <2>1 DEF cr_get_coded_response_buffer, continued, discoveryVars, DiscoveryInv, TableInv,
                       GoesOn, NothingLeft, crcb_access_granted, link
  <2>5. TypeOK'
    BY <2>1, <2>2, <2>3, SameNotify, NextTypeParts DEF notifyVars
  <2>6. OneSlotEach'
    BY <2>1, SameTable
  <2>7. QED BY <2>4, <2>5, <2>6 DEF TableInv
<1>5. CASE revoke_access
  <2>1. /\ notify_list' = notify_list /\ UNCHANGED discoveryVars
        /\ phase = "idle" /\ key_valid' = FALSE /\ Silent
        /\ UNCHANGED <<connected, key_presented, prompt, classic, hdr, continued, phase>>
    BY <1>5 DEF LinkApplication, revoke_access, Idle
  <2>2. BuffersOK'
    BY <1>0, <2>1, SilentOK
  <2>3. HeaderOK'
    BY <1>0, <2>1 DEF continued, HeaderOK
  <2>4. DiscoveryInv'
    BY <2>1 DEF continued, discoveryVars, DiscoveryInv, TableInv, GoesOn, NothingLeft,
                crcb_access_granted
  <2>5. TypeOK'
    BY <2>1, <2>2, <2>3, SameNotify, NextTypeParts DEF notifyVars
  <2>6. OneSlotEach'
    BY <2>1, SameTable
  <2>7. QED BY <2>4, <2>5, <2>6 DEF TableInv
<1>6. QED BY <1>1, <1>2, <1>3, <1>4, <1>5 DEF LinkApplication, CoreApplication

-----------------------------------------------------------------------------
(* Enabling and disabling.                                                 *)

(* No error is reported just when every configuration was accepted.         *)
LEMMA EnableErrorsIs ==
  ASSUME NEW list, NEW configs \in Seq(Config)
  PROVE  /\ \E C : EnableErrors(list, configs) \in Seq(C)
         /\ EnableErrors(list, configs) = <<>> =>
              \A i \in 1 .. Len(configs) :
                EnableError(EnabledBy(list, configs)[i - 1], configs[i]) = "NO_ERROR"
<1> DEFINE errors == [i \in DOMAIN configs |->
                        EnableError(EnabledBy(list, configs)[i - 1], configs[i])]
           S      == { i \in DOMAIN configs : errors[i] # "NO_ERROR" }
           failed == InOrder(S)
           reported == [k \in DOMAIN failed |-> errors[failed[k]]]
<1>1. DOMAIN configs = 1 .. Len(configs) /\ Len(configs) \in Nat
  BY LenProperties
<1>2. S \subseteq Nat /\ S \in SUBSET (1 .. Len(configs))
  BY <1>1
<1>3. EnableErrors(list, configs) = reported
  BY DEF EnableErrors
<1>4. \A i \in DOMAIN configs : errors[i] = EnableError(EnabledBy(list, configs)[i - 1], configs[i])
  OBVIOUS
<1> HIDE DEF errors
<1>5. \A i \in 1 .. Len(configs) : i \notin S => errors[i] = "NO_ERROR"
  BY <1>1
<1> HIDE DEF S
<1>6. IsFiniteSet(S)
  <2>1. IsFiniteSet(1 .. Len(configs))
    BY <1>1, FS_Interval
  <2>2. QED BY <1>2, <2>1, FS_Subset
<1>7. DOMAIN failed = 1 .. Cardinality(S) /\ Cardinality(S) \in Nat
  BY <1>2, <1>6, InOrderIs, FS_CardinalityType
<1> HIDE DEF failed
<1> DEFINE C == { errors[failed[k]] : k \in 1 .. Cardinality(S) }
<1>8. reported \in [1 .. Cardinality(S) -> C]
  BY <1>7
<1>9. reported \in Seq(C) /\ Len(reported) = Cardinality(S)
  <2> HIDE DEF C, reported
  <2>1. QED BY <1>7, <1>8, SeqDef, LenProperties
<1>10. ASSUME reported = <<>>, NEW i \in 1 .. Len(configs)
       PROVE  EnableError(EnabledBy(list, configs)[i - 1], configs[i]) = "NO_ERROR"
  <2>1. Cardinality(S) = 0
    BY <1>9, <1>10
  <2>2. S = {}
    BY <1>6, <2>1, FS_EmptySet
  <2>3. QED BY <1>1, <1>4, <1>5, <2>2
<1>11. QED BY <1>3, <1>9, <1>10

LEMMA EnableStep ==
  ASSUME TableInv, pvtCrParam_param_enable_notify
  PROVE  TableInv'
<1>0. TypeOK /\ HeaderOK /\ BuffersOK /\ NotifyOK /\ OneEach(notify_list)
  BY TypeParts, OneSlotEachIs DEF TableInv
<1>1. Dispatch("PARAM_ENABLE_NOTIFY") /\ KeepContinued /\ UNCHANGED <<link, discoveryVars>>
  BY DEF pvtCrParam_param_enable_notify
<1>2. prompt # NoPrompt
  BY <1>1, Dispatched
<1>3. prompt.arg.configs \in Seq(Config)
  BY <1>0, <1>1, <1>2, PromptFields, NotificationAssumption DEF Dispatch
<1>4. PICK start : start = IF prompt.arg.disable_all_first THEN AllOff ELSE notify_list
  OBVIOUS
<1>5. PICK configs : configs = UpToOff(prompt.arg.configs)
  OBVIOUS
<1>6. start \in Table /\ OneEach(start) /\ configs \in Seq(Config)
  BY <1>0, <1>3, <1>4, <1>5, AllOffTable, UpToOffIs DEF NotifyOK
<1>7. PICK errors : errors = EnableErrors(start, configs)
  OBVIOUS
<1>8. /\ notify_list' = EnabledBy(start, configs)[Len(configs)]
      /\ Respond("PARAM_ENABLE_NOTIFY", 0,
                 [result |-> 0, has_result_message |-> errors # <<>>], errors)
  BY <1>4, <1>5, <1>7 DEF pvtCrParam_param_enable_notify
<1>9. BuffersOK' /\ num_remaining_objects' = 0
  <2>1. PICK C : errors \in Seq(C)
    BY <1>6, <1>7, EnableErrorsIs
  <2>2. [result |-> 0, has_result_message |-> errors # <<>>] \in SetupResult
    BY DEF SetupResult
  <2>3. QED BY <1>0, <1>2, <1>8, <2>1, <2>2, RespondOK
<1>10. HeaderOK' /\ NothingOwed' /\ phase' = "idle"
  <2>1. connected' \in BOOLEAN /\ key_valid' \in BOOLEAN /\ key_presented' \in BOOLEAN
    BY <1>0, <1>1 DEF link, HeaderOK
  <2>2. notify_count' = notify_count
    BY <1>1 DEF discoveryVars
  <2>3. QED BY <1>1, <1>9, <2>1, <2>2, DispatchedHeader
<1>11. notify_list' \in Table /\ OneEach(notify_list')
  <2>1. Len(configs) \in 0 .. Len(configs)
    BY <1>6, LenProperties
  <2>2. QED BY <1>6, <1>8, <2>1, EnabledTables
<1>12. NotifyOK'
  BY <1>0, <1>1, <1>11 DEF NotifyOK, discoveryVars
<1>13. OneSlotEach'
  BY <1>11 DEF OneSlotEach, OneEach
<1>14. DiscoveryInv'
  BY <1>1, <1>10, NoDiscovery DEF discoveryVars
<1>15. QED BY <1>9, <1>10, <1>12, <1>13, <1>14, NextTypeParts DEF TableInv

LEMMA DisableStep ==
  ASSUME TableInv, pvtCrParam_param_disable_notify
  PROVE  TableInv'
<1>0. TypeOK /\ HeaderOK /\ BuffersOK /\ NotifyOK /\ OneEach(notify_list)
  BY TypeParts, OneSlotEachIs DEF TableInv
<1>1. Dispatch("PARAM_DISABLE_NOTIFY") /\ KeepContinued /\ UNCHANGED <<link, discoveryVars>>
  BY DEF pvtCrParam_param_disable_notify
<1>2. prompt # NoPrompt
  BY <1>1, Dispatched
<1>3. prompt.arg.ids \in Seq(Nat)
  BY <1>0, <1>1, <1>2, PromptFields, NotificationAssumption DEF Dispatch
<1>4. notify_list' = DisabledBy(notify_list, prompt.arg.ids)
  BY DEF pvtCrParam_param_disable_notify
<1>5. BuffersOK' /\ num_remaining_objects' = 0
  <2>1. Respond("PARAM_DISABLE_NOTIFY", 0, [result |-> 0, has_result_message |-> FALSE], <<>>)
    BY DEF pvtCrParam_param_disable_notify
  <2>2. [result |-> 0, has_result_message |-> FALSE] \in SetupResult /\ <<>> \in Seq({})
    BY DEF SetupResult
  <2>3. QED BY <1>0, <1>2, <2>1, <2>2, RespondOK
<1>6. HeaderOK' /\ NothingOwed' /\ phase' = "idle"
  <2>1. connected' \in BOOLEAN /\ key_valid' \in BOOLEAN /\ key_presented' \in BOOLEAN
    BY <1>0, <1>1 DEF link, HeaderOK
  <2>2. notify_count' = notify_count
    BY <1>1 DEF discoveryVars
  <2>3. QED BY <1>1, <1>5, <2>1, <2>2, DispatchedHeader
<1>7. notify_list' \in Table /\ OneEach(notify_list')
  BY <1>0, <1>3, <1>4, DisabledTable DEF NotifyOK
<1>8. NotifyOK'
  BY <1>0, <1>1, <1>7 DEF NotifyOK, discoveryVars
<1>9. OneSlotEach'
  BY <1>7 DEF OneSlotEach, OneEach
<1>10. DiscoveryInv'
  BY <1>1, <1>6, NoDiscovery DEF discoveryVars
<1>11. QED BY <1>5, <1>6, <1>8, <1>9, <1>10, NextTypeParts DEF TableInv

-----------------------------------------------------------------------------
(* The application's own changes of the table, and the periodic check.      *)

LEMMA ClearStep ==
  ASSUME TableInv, cr_clear_param_notifications
  PROVE  TableInv'
<1>0. TypeOK /\ HeaderOK /\ BuffersOK /\ NotifyOK
  BY TypeParts DEF TableInv
<1>1. /\ notify_list' = AllOff /\ Silent
      /\ UNCHANGED <<link, prompt, classic, hdr, continued, phase, discoveryVars>>
  BY DEF cr_clear_param_notifications
<1>2. BuffersOK'
  BY <1>0, <1>1, SilentOK
<1>3. HeaderOK'
  BY <1>0, <1>1 DEF HeaderOK, link, continued
<1>4. NotifyOK' /\ OneSlotEach' /\ Active(notify_list') = {}
  BY <1>0, <1>1, AllOffTable DEF NotifyOK, discoveryVars, OneSlotEach, OneEach
<1>5. DiscoveryInv'
  BY <1>1, <1>4 DEF DiscoveryInv, TableInv, GoesOn, NothingLeft, crcb_access_granted,
                    discoveryVars, continued, link
<1>6. QED BY <1>2, <1>3, <1>4, <1>5, NextTypeParts DEF TableInv

LEMMA PresetStep ==
  ASSUME PresetIsSound, TableInv, cr_init_param_notifications
  PROVE  TableInv'
<1>0. TypeOK /\ HeaderOK /\ BuffersOK /\ NotifyOK
  BY TypeParts DEF TableInv
<1>1. /\ continued_message_type = INVALID /\ Active(notify_list) = {} /\ Silent
      /\ notify_list' = [s \in Slots |-> IF s <= Len(Preset) THEN Preset[s] ELSE notify_list[s]]
      /\ UNCHANGED <<link, prompt, classic, hdr, continued, phase, discoveryVars>>
  BY DEF cr_init_param_notifications
<1>2. BuffersOK'
  BY <1>0, <1>1, SilentOK
<1>3. HeaderOK' /\ continued_message_type' = INVALID
  BY <1>0, <1>1 DEF HeaderOK, link, continued
<1>4. \A s \in Slots : s <= Len(Preset) => s \in DOMAIN Preset /\ Preset[s] \in Setup
  <2>1. DOMAIN Preset = 1 .. Len(Preset) /\ Len(Preset) \in Nat
    BY NotificationAssumption, LenProperties
  <2>2. ASSUME NEW s \in DOMAIN Preset PROVE Preset[s] \in Setup
    <3>1. Preset[s] \in Config
      BY <2>1, NotificationAssumption, ElementOfSeq
    <3>2. QED BY <3>1 DEF Config, Setup, PresetIsSound
  <2>3. QED BY <2>1, <2>2, SlotsAreNat DEF Slots
<1>5. notify_list' \in Table
  BY <1>0, <1>1, <1>4 DEF NotifyOK, Table
<1>6. OneEach(notify_list')
  <2>1. SUFFICES ASSUME NEW s \in Active(notify_list'), NEW t \in Active(notify_list'),
                        notify_list'[s].parameter_id = notify_list'[t].parameter_id
                 PROVE  s = t
    BY DEF OneEach
  <2>2. \A r \in Active(notify_list') :
          r \in DOMAIN Preset /\ notify_list'[r] = Preset[r] /\ Preset[r] # Off
    BY <1>1, <1>4 DEF Active, sParamNotifyEnabled
  <2>3. QED BY <2>1, <2>2 DEF PresetIsSound
<1>7. NotifyOK' /\ OneSlotEach'
  BY <1>0, <1>1, <1>5, <1>6 DEF NotifyOK, discoveryVars, OneSlotEach, OneEach
<1>8. DiscoveryInv'
  BY <1>1, <1>3, NoDiscovery DEF discoveryVars, NothingOwed
<1>9. QED BY <1>2, <1>3, <1>7, <1>8, NextTypeParts DEF TableInv

LEMMA CheckStep ==
  ASSUME TableInv, pvtCrParam_check_for_notifications
  PROVE  TableInv'
<1>0. TypeOK /\ HeaderOK /\ BuffersOK /\ NotifyOK
  BY TypeParts DEF TableInv
<1>1. /\ AtPrompt /\ prompt = NoPrompt /\ phase' = "idle"
      /\ UNCHANGED <<link, prompt, classic, hdr, continued, response_buffer, notifyVars>>
  BY DEF pvtCrParam_check_for_notifications
<1>2. PICK due \in SUBSET Active(notify_list) :
        LET slots == InOrder(due)
        IN  /\ sent' = [i \in DOMAIN slots |->
                          IF classic THEN notification_buffer
                          ELSE Notification(notify_list[slots[i]])]
            /\ notification_buffer' =
                 IF slots = <<>> THEN notification_buffer ELSE sent'[Len(slots)]
  BY DEF pvtCrParam_check_for_notifications
<1> DEFINE slots == InOrder(due)
<1>3. due \subseteq Nat /\ due \in SUBSET (1 .. NUM_SUPPORTED_PARAM_NOTIFY)
  BY SlotsAreNat DEF Active, Slots
<1>4. IsFiniteSet(due)
  <2>1. IsFiniteSet(1 .. NUM_SUPPORTED_PARAM_NOTIFY)
    BY NotificationAssumption, FS_Interval
  <2>2. QED BY <1>3, <2>1, FS_Subset
<1>5. /\ DOMAIN slots = 1 .. Cardinality(due) /\ Cardinality(due) \in Nat
      /\ Len(slots) = Cardinality(due)
      /\ (slots = <<>> <=> Len(slots) = 0)
  <2>1. slots \in Seq(due) /\ DOMAIN slots = 1 .. Cardinality(due) /\ Len(slots) = Cardinality(due)
    BY <1>3, <1>4, InOrderIs
  <2> HIDE DEF slots
  <2>2. QED BY <1>4, <2>1, FS_CardinalityType, EmptySeq
<1> HIDE DEF slots
<1>6. /\ sent' = [i \in 1 .. Cardinality(due) |->
                    IF classic THEN notification_buffer ELSE Notification(notify_list[slots[i]])]
      /\ notification_buffer' =
           IF Cardinality(due) = 0 THEN notification_buffer ELSE sent'[Cardinality(due)]
  BY <1>2, <1>5 DEF slots
<1>7. \A config : IsNotification(Notification(config))
  BY DEF Notification, IsNotification, Message
<1>8. notification_buffer = NoMessage \/ IsNotification(notification_buffer)
  BY <1>0 DEF BuffersOK
<1>9. \A i \in 1 .. Cardinality(due) : sent'[i] = NoMessage \/ IsNotification(sent'[i])
  BY <1>6, <1>7, <1>8
<1>10. Cardinality(due) # 0 => Cardinality(due) \in 1 .. Cardinality(due)
  BY <1>5
<1>11. DOMAIN sent' = 1 .. Cardinality(due)
  BY <1>6
<1>12. BuffersOK'
  BY <1>0, <1>1, <1>6, <1>8, <1>9, <1>10, <1>11 DEF BuffersOK, Sendable
<1>13. HeaderOK' /\ NothingOwed'
  BY <1>0, <1>1, NothingContinued
  DEF HeaderOK, link, continued, notifyVars, discoveryVars, NothingOwed, NothingLeft,
      crcb_access_granted
<1>14. QED BY <1>1, <1>12, <1>13, HandlerKeeps

-----------------------------------------------------------------------------
(* One message of a discovery.                                             *)

(* What is sent for an id is the active configuration of its parameter.     *)
LEMMA ConfigOfIs ==
  ASSUME NotifyOK, NEW id, IsNotifying(id)
  PROVE  /\ \E s \in Active(notify_list) : ConfigOf(id) = notify_list[s]
         /\ ConfigOf(id) \in Setup
         /\ ConfigOf(id).parameter_id = id
         /\ id \in 1 .. NumParams
<1> DEFINE S == { s \in Slots : notify_list[s].parameter_id = id }
<1>1. S # {} /\ id # 0
  BY DEF IsNotifying
<1>2. ConfigOf(id) = notify_list[Least(S)]
  BY DEF ConfigOf
<1>3. Least(S) \in S
  <2>1. S \subseteq Nat
    BY SlotsAreNat
  <2> HIDE DEF S
  <2>2. QED BY <1>1, <2>1, LeastIs
<1>4. \A s \in Slots : notify_list[s] \in Setup
  BY DEF NotifyOK, Table
<1>5. Least(S) \in Active(notify_list)
  BY <1>1, <1>3 DEF Active, sParamNotifyEnabled, Off
<1>6. ConfigOf(id).parameter_id = id /\ ConfigOf(id) \in Setup
  BY <1>2, <1>3, <1>4
<1>7. id \in 1 .. NumParams
  <2>1. id \in 0 .. NumParams
    BY <1>6 DEF Setup
  <2>2. QED BY <1>1, <2>1, NotificationAssumption
<1> HIDE DEF S
<1>8. QED BY <1>2, <1>5, <1>6, <1>7

LEMMA ConfigsAre ==
  ASSUME NotifyOK, NEW found \in Seq(Nat), \A i \in 1 .. Len(found) : IsNotifying(found[i])
  PROVE  /\ Configs(found) \in Seq(Setup) /\ Len(Configs(found)) = Len(found)
         /\ \A i \in 1 .. Len(found) : Configs(found)[i] = ConfigOf(found[i])
<1>1. DOMAIN found = 1 .. Len(found) /\ Len(found) \in Nat
  BY LenProperties
<1>2. \A i \in 1 .. Len(found) : ConfigOf(found[i]) \in Setup
  BY ConfigOfIs
<1>3. /\ Configs(found) \in [1 .. Len(found) -> Setup]
      /\ \A i \in 1 .. Len(found) : Configs(found)[i] = ConfigOf(found[i])
  BY <1>1, <1>2 DEF Configs
<1> DEFINE configs == Configs(found)
<1> HIDE DEF configs
<1>4. configs \in [1 .. Len(found) -> Setup]
  BY <1>3 DEF configs
<1>5. configs \in Seq(Setup) /\ Len(configs) = Len(found)
  BY <1>1, <1>4, SeqDef, LenProperties
<1>6. QED BY <1>3, <1>5 DEF configs

(* The next notifying parameters are given in order, none below p.          *)
LEMMA NextNotifyingIs ==
  ASSUME NEW p \in 1 .. NumParams + 1, NEW n \in Nat
  PROVE  LET found == NextNotifying(p, n)
         IN  /\ found \in Seq(p .. NumParams) /\ Len(found) <= n
             /\ \A i \in 1 .. Len(found) : IsNotifying(found[i])
             /\ \A i, j \in 1 .. Len(found) : i < j => found[i] < found[j]
<1> DEFINE S   == { id \in p .. NumParams : IsNotifying(id) }
           all == InOrder(S)
           l   == IF n < Len(all) THEN n ELSE Len(all)
           found == SubSeq(all, 1, l)
<1>0. NumParams \in Nat /\ p \in Nat /\ p >= 1
  BY NotificationAssumption
<1>1. S \subseteq Nat /\ S \in SUBSET (p .. NumParams)
  BY <1>0
<1>2. IsFiniteSet(S)
  <2>1. IsFiniteSet(p .. NumParams)
    BY <1>0, FS_Interval
  <2> HIDE DEF S
  <2>2. QED BY <1>1, <2>1, FS_Subset
<1>3. NextNotifying(p, n) = found
  BY DEF NextNotifying
<1>4. \A id \in S : IsNotifying(id) /\ id \in p .. NumParams
  OBVIOUS
<1> HIDE DEF S
<1>5. /\ all \in [1 .. Cardinality(S) -> S] /\ Len(all) = Cardinality(S)
      /\ \A i, j \in 1 .. Cardinality(S) : i < j => all[i] < all[j]
      /\ Cardinality(S) \in Nat
  BY <1>1, <1>2, InOrderIs, FS_CardinalityType
<1> HIDE DEF all
<1>6. l \in 0 .. Cardinality(S) /\ l <= n
  BY <1>5
<1> HIDE DEF l
<1>7. \A i \in 1 .. l : i \in 1 .. Cardinality(S) /\ all[i] \in S
  BY <1>5, <1>6
<1>8. /\ found \in Seq(p .. NumParams) /\ Len(found) = l
      /\ \A i \in 1 .. l : found[i] = all[i]
  <2>1. \A i \in 1 .. l : all[i] \in p .. NumParams
    BY <1>4, <1>7
  <2>2. l \in Nat /\ l \in Int
    BY <1>5, <1>6
  <2>3. /\ found \in Seq(p .. NumParams)
        /\ Len(found) = IF 1 <= l THEN l - 1 + 1 ELSE 0
        /\ \A i \in 1 .. l - 1 + 1 : found[i] = all[1 + i - 1]
    BY <2>1, <2>2, SubSeqProperties
  <2> HIDE DEF found
  <2>4. QED BY <2>2, <2>3
<1> HIDE DEF found
<1>9. /\ \A i \in 1 .. l : IsNotifying(found[i])
      /\ \A i, j \in 1 .. l : i < j => found[i] < found[j]
  BY <1>4, <1>5, <1>7, <1>8
<1>10. QED BY <1>3, <1>6, <1>8, <1>9

LEMMA WantedIs ==
  ASSUME NEW count \in Nat, NEW index \in 0 .. count
  PROVE  Wanted(count, index) \in 0 .. count - index
  BY NotificationAssumption DEF Wanted

(* What the loop finds is notifying, and no more than was announced; of     *)
(* everything, it is in order and between where the table has been gone     *)
(* through to before and after.                                            *)
LEMMA FoundIs ==
  ASSUME NEW ids \in Lists \cup {<<>>}, NEW count \in Nat, NEW index \in 0 .. count,
         NEW p \in 1 .. NumParams + 1,
         ids # <<>> => count <= Len(ids), ~Hangs(ids, count, index)
  PROVE  LET found == Found(ids, count, index, p)
         IN  /\ found \in Seq(Nat) /\ Len(found) \in 0 .. count - index
             /\ \A i \in 1 .. Len(found) : IsNotifying(found[i])
             /\ Passed(ids, found, count, index, p) \in p .. NumParams + 1
             /\ ids = <<>> =>
                  /\ \A i \in 1 .. Len(found) :
                       found[i] \in p .. Passed(ids, found, count, index, p) - 1
                  /\ \A i, j \in 1 .. Len(found) : found[i] = found[j] => i = j
<1> DEFINE wanted == Wanted(count, index)
           found  == Found(ids, count, index, p)
           passed == Passed(ids, found, count, index, p)
<1>1. wanted \in 0 .. count - index
  BY WantedIs
<1>0. NumParams \in Nat /\ p \in 1 .. NumParams + 1
  BY NotificationAssumption
<1>2. CASE ids = <<>>
  <2>1. found = NextNotifying(p, wanted)
    BY <1>2 DEF Found
  <2>2. wanted \in Nat
    BY <1>1
  <2> HIDE DEF found, wanted
  <2>3. /\ found \in Seq(p .. NumParams) /\ Len(found) <= wanted
        /\ \A i \in 1 .. Len(found) : IsNotifying(found[i])
        /\ \A i, j \in 1 .. Len(found) : i < j => found[i] < found[j]
    BY <2>1, <2>2, NextNotifyingIs
  <2>4. Len(found) \in Nat /\ \A i \in 1 .. Len(found) : found[i] \in p .. NumParams
    BY <2>3, LenProperties, ElementOfSeq
  <2>5. found \in Seq(Nat)
    <3>1. \A i \in 1 .. Len(found) : found[i] \in Nat
      BY <1>0, <2>4
    <3>2. found = [i \in 1 .. Len(found) |-> found[i]]
      BY <2>3, LenProperties
    <3>3. found \in [1 .. Len(found) -> Nat]
      BY <3>1, <3>2
    <3>4. QED BY <2>4, <3>3, SeqDef
  <2>6. \A i, j \in 1 .. Len(found) : found[i] = found[j] => i = j
    <3>1. SUFFICES ASSUME NEW i \in 1 .. Len(found), NEW j \in 1 .. Len(found),
                          found[i] = found[j], i # j
                   PROVE  FALSE
      OBVIOUS
    <3>2. found[i] \in Nat /\ found[j] \in Nat
      BY <1>0, <2>4
    <3>3. found[i] < found[j] \/ found[j] < found[i]
      BY <2>3, <2>4, <3>1
    <3>4. QED BY <3>1, <3>2, <3>3
  <2>7. /\ passed \in p .. NumParams + 1
        /\ \A i \in 1 .. Len(found) : found[i] \in p .. passed - 1
    <3>1. passed = IF wanted = 0 THEN p
                   ELSE IF Len(found) = wanted THEN found[Len(found)] + 1 ELSE NumParams + 1
      BY <1>2 DEF Passed, wanted
    <3>2. CASE wanted = 0
      BY <1>0, <2>3, <2>4, <3>1, <3>2
    <3>3. CASE wanted # 0 /\ Len(found) = wanted
      <4>1. PICK l \in 1 .. Len(found) : l = Len(found)
        BY <2>2, <2>4, <3>3
      <4>2. passed = found[l] + 1 /\ found[l] \in p .. NumParams
        BY <2>4, <3>1, <3>3, <4>1
      <4>3. ASSUME NEW i \in 1 .. Len(found) PROVE found[i] \in p .. passed - 1
        <5>1. i = l \/ i < l
          BY <2>4, <4>1
        <5>2. i = l \/ found[i] < found[l]
          BY <2>3, <5>1
        <5>3. found[i] \in p .. NumParams
          BY <2>4
        <5>4. QED BY <1>0, <4>2, <5>2, <5>3
      <4>4. QED BY <1>0, <4>2, <4>3
    <3>4. CASE wanted # 0 /\ Len(found) # wanted
      BY <1>0, <2>4, <3>1, <3>4
    <3>5. QED BY <3>2, <3>3, <3>4
  <2>8. Len(found) \in 0 .. count - index
    BY <1>1, <2>3, <2>4 DEF wanted
  <2>9. QED BY <2>3, <2>5, <2>6, <2>7, <2>8 DEF found
<1>3. CASE ids # <<>>
  <2>1. found = SubSeq(ids, index + 1, index + wanted)
    BY <1>3 DEF Found
  <2>2. ids \in Seq(Nat) /\ Len(ids) \in Nat /\ count <= Len(ids)
    BY <1>3, NotificationAssumption, LenProperties
  <2>3. index + wanted \in Nat /\ index \in Nat /\ wanted \in Nat
    BY <1>1
  <2>4. \A i \in index + 1 .. index + wanted : IsNotifying(ids[i])
    BY <1>3 DEF Hangs
  <2> HIDE DEF wanted, found
  <2>5. \A i \in index + 1 .. index + wanted : i \in 1 .. Len(ids)
    BY <1>1, <2>2, <2>3
  <2>6. \A i \in index + 1 .. index + wanted : ids[i] \in Nat
    BY <2>2, <2>5, ElementOfSeq
  <2>7. /\ found \in Seq(Nat)
        /\ Len(found) = IF index + 1 <= index + wanted THEN index + wanted - (index + 1) + 1 ELSE 0
        /\ \A i \in 1 .. index + wanted - (index + 1) + 1 : found[i] = ids[index + 1 + i - 1]
    BY <2>1, <2>3, <2>6, SubSeqProperties
  <2>8. Len(found) = wanted /\ index + wanted - (index + 1) + 1 = wanted
    BY <2>3, <2>7
  <2>9. ASSUME NEW i \in 1 .. wanted PROVE IsNotifying(found[i])
    <3>1. found[i] = ids[index + 1 + i - 1]
      BY <2>7, <2>8
    <3>2. index + 1 + i - 1 \in index + 1 .. index + wanted
      BY <2>3
    <3>3. QED BY <2>4, <3>1, <3>2
  <2>10. passed = p
    BY <1>3 DEF Passed
  <2>11. passed \in p .. NumParams + 1
    BY <1>0, <2>10
  <2>12. QED BY <1>1, <1>3, <2>7, <2>8, <2>9, <2>11 DEF found
<1>4. QED BY <1>2, <1>3

(* A client that has got n configurations gets those that are found next.   *)
LEMMA GotMore ==
  ASSUME NotifyOK, NEW got \in Seq(Setup), NEW n \in Nat, NEW p \in 1 .. NumParams + 1,
         Got(got, notify_list, n, p),
         NEW found \in Seq(Nat), NEW q \in p .. NumParams + 1,
         \A i \in 1 .. Len(found) : IsNotifying(found[i]) /\ found[i] \in p .. q - 1,
         \A i, j \in 1 .. Len(found) : found[i] = found[j] => i = j
  PROVE  Got(got \o Configs(found), notify_list, n + Len(found), q)
<1> DEFINE more == Configs(found)
           all  == got \o more
           m    == Len(found)
<1>0. m \in Nat /\ NumParams \in Nat /\ p \in Nat /\ p >= 1 /\ q \in Nat
  BY LenProperties, NotificationAssumption
<1>1. more \in Seq(Setup) /\ Len(more) = m /\ \A i \in 1 .. m : more[i] = ConfigOf(found[i])
  BY ConfigsAre
<1>2. \A i \in 1 .. m : /\ more[i].parameter_id = found[i]
                        /\ \E s \in Active(notify_list) : more[i] = notify_list[s]
  BY <1>1, ConfigOfIs
<1>3. /\ Len(got) = n
      /\ \A i \in 1 .. n : got[i].parameter_id \in 1 .. p - 1
      /\ \A i \in 1 .. n : \E s \in Active(notify_list) : got[i] = notify_list[s]
      /\ \A i, j \in 1 .. n : got[i].parameter_id = got[j].parameter_id => i = j
  BY DEF Got
<1> HIDE DEF more, m
<1>4. /\ Len(all) = n + m
      /\ \A i \in 1 .. n + m : all[i] = IF i <= n THEN got[i] ELSE more[i - n]
  <2>1. /\ Len(got \o more) = Len(got) + Len(more)
        /\ \A i \in 1 .. Len(got) + Len(more) :
             (got \o more)[i] = IF i <= Len(got) THEN got[i] ELSE more[i - Len(got)]
    BY <1>1, ConcatProperties
  <2>2. Len(got) = n /\ Len(more) = m
    BY <1>1, <1>3
  <2>3. QED BY <2>1, <2>2
<1> HIDE DEF all
<1>5. \A i \in 1 .. n + m : (i <= n /\ i \in 1 .. n) \/ (~(i <= n) /\ i - n \in 1 .. m)
  BY <1>0
<1>6. \A i \in 1 .. m : found[i] \in p .. q - 1
  BY DEF m
<1>7. ASSUME NEW i \in 1 .. n + m
      PROVE  /\ all[i].parameter_id \in 1 .. q - 1
             /\ \E s \in Active(notify_list) : all[i] = notify_list[s]
             /\ i <= n => all[i].parameter_id \in 1 .. p - 1
             /\ ~(i <= n) => all[i].parameter_id \in p .. q - 1
  <2>1. CASE i <= n /\ i \in 1 .. n
    <3>1. all[i] = got[i]
      BY <1>4, <2>1
    <3>2. all[i].parameter_id \in 1 .. p - 1
      BY <1>3, <2>1, <3>1
    <3>3. all[i].parameter_id \in 1 .. q - 1
      BY <1>0, <3>2
    <3>4. QED BY <1>3, <2>1, <3>1, <3>2, <3>3
  <2>2. CASE ~(i <= n) /\ i - n \in 1 .. m
    <3>1. all[i] = more[i - n]
      BY <1>4, <2>2
    <3>2. all[i].parameter_id \in p .. q - 1
      BY <1>2, <1>6, <2>2, <3>1
    <3>3. all[i].parameter_id \in 1 .. q - 1
      BY <1>0, <3>2
    <3>4. QED BY <1>2, <2>2, <3>1, <3>2, <3>3
  <2>3. QED BY <1>5, <2>1, <2>2
<1>8. ASSUME NEW i \in 1 .. n + m, NEW j \in 1 .. n + m, all[i].parameter_id = all[j].parameter_id
      PROVE  i = j
  <2>1. CASE i <= n /\ j <= n
    <3>1. i \in 1 .. n /\ j \in 1 .. n
      BY <1>5, <2>1
    <3>2. QED BY <1>3, <1>4, <1>8, <2>1, <3>1
  <2>2. CASE ~(i <= n) /\ ~(j <= n)
    <3>1. i - n \in 1 .. m /\ j - n \in 1 .. m
      BY <1>5, <2>2
    <3>2. more[i - n].parameter_id = more[j - n].parameter_id
      BY <1>4, <1>8, <2>2
    <3>3. found[i - n] = found[j - n]
      BY <1>2, <3>1, <3>2
    <3>4. i - n = j - n
      BY <3>1, <3>3 DEF m
    <3>5. QED BY <3>4
  <2>3. CASE i <= n /\ ~(j <= n)
    <3>1. all[i].parameter_id \in 1 .. p - 1 /\ all[j].parameter_id \in p .. q - 1
      BY <1>7, <2>3
    <3>2. QED BY <1>0, <1>8, <3>1
  <2>4. CASE ~(i <= n) /\ j <= n
    <3>1. all[j].parameter_id \in 1 .. p - 1 /\ all[i].parameter_id \in p .. q - 1
      BY <1>7, <2>4
    <3>2. QED BY <1>0, <1>8, <3>1
  <2>5. QED BY <2>1, <2>2, <2>3, <2>4
<1>9. QED BY <1>4, <1>7, <1>8 DEF Got, all, more, m

-----------------------------------------------------------------------------
(* The steps of a discovery.                                               *)

LEMMA DeniedStep ==
  ASSUME TableInv, discover_notifications_denied
  PROVE  TableInv'
<1>0. TypeOK /\ HeaderOK /\ BuffersOK /\ NotifyOK
  BY TypeParts DEF TableInv
<1>1. /\ Dispatch("DISCOVER_NOTIFICATIONS") /\ Silent /\ KeepContinued
      /\ num_remaining_objects' = 0 /\ notify_count' = 0
      /\ UNCHANGED <<link, notify_list, requested, notify_index, next_param, received>>
  BY DEF discover_notifications_denied, DiscoverPrompt
<1>2. HeaderOK' /\ NothingOwed' /\ phase' = "idle"
  <2>1. connected' \in BOOLEAN /\ key_valid' \in BOOLEAN /\ key_presented' \in BOOLEAN
    BY <1>0, <1>1 DEF link, HeaderOK
  <2>2. QED BY <1>1, <2>1, DispatchedHeader
<1>3. BuffersOK' /\ NotifyOK'
  BY <1>0, <1>1, SilentOK DEF NotifyOK
<1>4. OneSlotEach'
  BY <1>1, SameTable
<1>5. DiscoveryInv'
  <2>1. requested' # <<>> => 0 <= Len(requested')
    <3>1. requested' # <<>> => requested' \in Seq(Nat)
      BY <1>0, <1>1, NotificationAssumption DEF NotifyOK
    <3>2. QED BY <3>1, LenProperties
  <2>2. QED BY <1>1, <1>2, <2>1 DEF DiscoveryInv, NothingOwed
<1>6. QED BY <1>2, <1>3, <1>4, <1>5, NextTypeParts DEF TableInv

(* The same of a discovery that goes on: its type is kept.                  *)
LEMMA ContinuedDeniedStep ==
  ASSUME TableInv, continue_discover_notifications_denied
  PROVE  TableInv'
<1>0. TypeOK /\ HeaderOK /\ BuffersOK /\ NotifyOK
  BY TypeParts DEF TableInv
<1>1. /\ AtContinued("DISCOVER_NOTIFICATIONS") /\ ~crcb_access_granted
      /\ notify_count' = 0 /\ num_remaining_objects' = 0
      /\ phase' = "prompt" /\ Silent /\ UNCHANGED <<link, prompt, classic, hdr>>
      /\ KeepContinued
      /\ UNCHANGED <<notify_list, requested, notify_index, next_param, received>>
  BY DEF continue_discover_notifications_denied, NoMoreData
<1>2. hdr \in Tid
  BY <1>1 DEF AtContinued, INVALID, TableInv, DiscoveryInv
<1>3. HeaderOK'
  BY <1>0, <1>1 DEF HeaderOK, link, KeepContinued
<1>4. BuffersOK' /\ NotifyOK'
  BY <1>0, <1>1, SilentOK DEF NotifyOK
<1>5. OneSlotEach'
  BY <1>1, SameTable
<1>6. DiscoveryInv'
  <2>1. requested' # <<>> => 0 <= Len(requested')
    <3>1. requested' # <<>> => requested' \in Seq(Nat)
      BY <1>0, <1>1, NotificationAssumption DEF NotifyOK
    <3>2. QED BY <3>1, LenProperties
  <2>2. QED BY <1>1, <1>2, <2>1 DEF DiscoveryInv, NothingLeft, crcb_access_granted, link
<1>7. QED BY <1>3, <1>4, <1>5, <1>6, NextTypeParts DEF TableInv

LEMMA NoneStep ==
  ASSUME TableInv, discover_notifications_none
  PROVE  TableInv'
<1>0. TypeOK /\ HeaderOK /\ BuffersOK /\ NotifyOK
  BY TypeParts DEF TableInv
<1>1. /\ Dispatch("DISCOVER_NOTIFICATIONS") /\ KeepContinued
      /\ Respond("DISCOVER_NOTIFICATIONS", 0, <<>>, <<>>) /\ received' = <<>>
      /\ UNCHANGED <<link, notify_list, requested, notify_count, notify_index, next_param>>
  BY DEF discover_notifications_none, DiscoverPrompt
<1>2. <<>> \in Seq(Setup) /\ <<>> \in Seq({})
  OBVIOUS
<1>3. BuffersOK' /\ num_remaining_objects' = 0
  BY <1>0, <1>1, <1>2, Dispatched, RespondOK
<1>4. HeaderOK' /\ NothingOwed' /\ phase' = "idle"
  <2>1. connected' \in BOOLEAN /\ key_valid' \in BOOLEAN /\ key_presented' \in BOOLEAN
    BY <1>0, <1>1 DEF link, HeaderOK
  <2>2. QED BY <1>1, <1>3, <2>1, DispatchedHeader
<1>5. NotifyOK' /\ OneSlotEach' /\ DiscoveryInv'
  BY <1>0, <1>1, <1>2, <1>4, SameTable, NoDiscovery DEF NotifyOK
<1>6. QED BY <1>3, <1>4, <1>5, NextTypeParts DEF TableInv

(* How many configurations are announced, as far as ids are asked for.      *)
LEMMA HowManyIs ==
  ASSUME NotifyOK, NEW ids \in Lists
  PROVE  /\ HowMany(ids) \in Nat
         /\ ids # <<>> => HowMany(ids) <= Len(ids)
         /\ ids = <<>> => HowMany(ids) = Cardinality(Active(notify_list))
<1>1. CASE ids = <<>>
  <2>1. Active(notify_list) \in SUBSET (1 .. NUM_SUPPORTED_PARAM_NOTIFY)
    BY DEF Active, Slots
  <2>2. IsFiniteSet(1 .. NUM_SUPPORTED_PARAM_NOTIFY)
    BY NotificationAssumption, FS_Interval
  <2>3. Cardinality(Active(notify_list)) \in Nat
    BY <2>1, <2>2, FS_Subset, FS_CardinalityType
  <2>4. QED BY <1>1, <2>3 DEF HowMany, cr_get_active_notify_count
<1>2. CASE ids # <<>>
  <2> DEFINE S == { i \in DOMAIN ids : IsNotifying(ids[i]) }
  <2>1. Len(ids) \in Nat /\ DOMAIN ids = 1 .. Len(ids)
    BY NotificationAssumption, LenProperties
  <2>2. IsFiniteSet(1 .. Len(ids)) /\ Cardinality(1 .. Len(ids)) = Len(ids)
    <3>1. PICK n \in Nat : n = Len(ids)
      BY <2>1
    <3>2. n \in Int /\ 1 \in Int
      OBVIOUS
    <3>3. IsFiniteSet(1 .. n) /\ Cardinality(1 .. n) = IF 1 > n THEN 0 ELSE n - 1 + 1
      BY <3>2, FS_Interval
    <3>4. Cardinality(1 .. n) = n
      BY <3>3
    <3>5. QED BY <3>1, <3>3, <3>4
  <2>3. S \in SUBSET (1 .. Len(ids))
    BY <2>1
  <2>4. HowMany(ids) = Cardinality(S)
    BY <1>2 DEF HowMany
  <2> HIDE DEF S
  <2>5. Cardinality(S) \in Nat /\ Cardinality(S) <= Len(ids)
    BY <2>2, <2>3, FS_Subset, FS_CardinalityType
  <2>6. QED BY <1>2, <2>4, <2>5
<1>3. QED BY <1>1, <1>2

LEMMA BegunIs ==
  ASSUME TableInv, BeginDiscovery
  PROVE  /\ Dispatch("DISCOVER_NOTIFICATIONS")
         /\ Active(notify_list) # {}
         /\ requested' \in Lists /\ notify_count' \in Nat
         /\ requested' # <<>> => notify_count' <= Len(requested')
         /\ requested' = <<>> => notify_count' = Cardinality(Active(notify_list))
<1>1. /\ Dispatch("DISCOVER_NOTIFICATIONS") /\ cr_get_active_notify_count > 0
      /\ requested' = prompt.arg.ids /\ notify_count' = HowMany(prompt.arg.ids)
  BY DEF BeginDiscovery, DiscoverPrompt
<1>2. TypeOK /\ NotifyOK
  BY TypeParts DEF TableInv
<1>3. prompt.arg.ids \in Lists
  BY <1>1, <1>2, Dispatched, PromptFields DEF Dispatch
<1>4. Active(notify_list) # {}
  BY <1>1, FS_EmptySet DEF cr_get_active_notify_count
<1>5. QED BY <1>1, <1>2, <1>3, <1>4, HowManyIs

LEMMA UnansweredStep ==
  ASSUME TableInv, discover_notifications_unanswered
  PROVE  TableInv'
<1>0. TypeOK /\ HeaderOK /\ BuffersOK /\ NotifyOK
  BY TypeParts DEF TableInv
<1>1. /\ BeginDiscovery /\ notify_count' = 0 /\ notify_index' = 0
      /\ num_remaining_objects' = 0 /\ Silent /\ received' = <<>> /\ KeepContinued
      /\ UNCHANGED <<link, notify_list, next_param>>
  BY DEF discover_notifications_unanswered
<1>2. /\ Dispatch("DISCOVER_NOTIFICATIONS") /\ requested' \in Lists
      /\ requested' # <<>> => notify_count' <= Len(requested')
  BY <1>1, BegunIs
<1>3. HeaderOK' /\ NothingOwed' /\ phase' = "idle"
  <2>1. connected' \in BOOLEAN /\ key_valid' \in BOOLEAN /\ key_presented' \in BOOLEAN
    BY <1>0, <1>1 DEF link, HeaderOK
  <2>2. QED BY <1>1, <1>2, <2>1, DispatchedHeader
<1>4. BuffersOK' /\ NotifyOK'
  BY <1>0, <1>1, <1>2, SilentOK DEF NotifyOK
<1>5. OneSlotEach' /\ DiscoveryInv'
  BY <1>1, <1>2, <1>3, SameTable DEF DiscoveryInv, NothingOwed
<1>6. QED BY <1>3, <1>4, <1>5, NextTypeParts DEF TableInv

(* The first message: what it announces and describes.                      *)
LEMMA FirstMessage ==
  ASSUME TableInv, discover_notifications_first
  PROVE  /\ NotifyOK' /\ notify_list' = notify_list
         /\ notify_index' \in 0 .. notify_count'
         /\ Respond("DISCOVER_NOTIFICATIONS", notify_count' - notify_index', received', <<>>)
         /\ requested' = <<>> => Got(received', notify_list', notify_index', next_param')
<1>0. TypeOK /\ NotifyOK
  BY TypeParts DEF TableInv
<1> DEFINE found == Found(requested', notify_count', 0, 1)
<1>1. /\ BeginDiscovery /\ ~Hangs(requested', notify_count', 0)
      /\ notify_index' = Len(found)
      /\ next_param' = Passed(requested', found, notify_count', 0, 1)
      /\ Respond("DISCOVER_NOTIFICATIONS", notify_count' - Len(found), Configs(found), <<>>)
      /\ received' = Configs(found)
      /\ UNCHANGED <<link, notify_list>>
  BY DEF discover_notifications_first
<1>2. /\ requested' \in Lists /\ notify_count' \in Nat
      /\ requested' # <<>> => notify_count' <= Len(requested')
  BY <1>1, BegunIs
<1>3. PICK ids \in Lists, count \in Nat : ids = requested' /\ count = notify_count'
  BY <1>2
<1>4. PICK more : more = found
  OBVIOUS
<1>5. PICK q : q = Passed(ids, more, count, 0, 1)
  OBVIOUS
<1>6. more = Found(ids, count, 0, 1) /\ next_param' = q
  BY <1>1, <1>3, <1>4, <1>5
<1>7. /\ more \in Seq(Nat) /\ Len(more) \in 0 .. count
      /\ \A i \in 1 .. Len(more) : IsNotifying(more[i])
      /\ q \in 1 .. NumParams + 1
      /\ ids = <<>> => /\ \A i \in 1 .. Len(more) : more[i] \in 1 .. q - 1
                       /\ \A i, j \in 1 .. Len(more) : more[i] = more[j] => i = j
  <2>1. 0 \in 0 .. count /\ count - 0 = count
    OBVIOUS
  <2>2. 1 \in 1 .. NumParams + 1
    BY NotificationAssumption
  <2>3. ~Hangs(ids, count, 0) /\ (ids # <<>> => count <= Len(ids)) /\ ids \in Lists \cup {<<>>}
    BY <1>1, <1>2, <1>3
  <2>4. QED BY <1>5, <1>6, <2>1, <2>2, <2>3, FoundIs
<1>8. Configs(more) \in Seq(Setup)
  BY <1>0, <1>7, ConfigsAre
<1>9. NotifyOK'
  BY <1>0, <1>1, <1>2, <1>3, <1>4, <1>6, <1>7, <1>8 DEF NotifyOK
<1>10. ids = <<>> => Got(Configs(more), notify_list, Len(more), q)
  <2>1. SUFFICES ASSUME ids = <<>> PROVE Got(Configs(more), notify_list, Len(more), q)
    OBVIOUS
  <2>2. Got(<<>>, notify_list, 0, 1) /\ <<>> \in Seq(Setup) /\ 1 \in 1 .. NumParams + 1
    BY NotificationAssumption DEF Got
  <2>3. Got(<<>> \o Configs(more), notify_list, 0 + Len(more), q)
    BY <1>0, <1>7, <2>1, <2>2, GotMore
  <2>4. <<>> \o Configs(more) = Configs(more) /\ 0 + Len(more) = Len(more)
    BY <1>7, <1>8, ConcatEmptySeq
  <2>5. QED BY <2>3, <2>4
<1>11. QED BY <1>1, <1>3, <1>4, <1>6, <1>7, <1>9, <1>10

LEMMA FirstStep ==
  ASSUME TableInv, discover_notifications_first
  PROVE  TableInv'
<1>0. TypeOK /\ HeaderOK
  BY TypeParts DEF TableInv
<1>1. /\ NotifyOK' /\ notify_list' = notify_list
      /\ notify_index' \in 0 .. notify_count'
      /\ Respond("DISCOVER_NOTIFICATIONS", notify_count' - notify_index', received', <<>>)
      /\ requested' = <<>> => Got(received', notify_list', notify_index', next_param')
  BY FirstMessage
<1>2. /\ BeginDiscovery /\ BeginContinued("DISCOVER_NOTIFICATIONS") /\ UNCHANGED link
  BY DEF discover_notifications_first
<1>3. /\ Dispatch("DISCOVER_NOTIFICATIONS") /\ notify_count' \in Nat
      /\ requested' # <<>> => notify_count' <= Len(requested')
      /\ requested' = <<>> => notify_count' = Cardinality(Active(notify_list))
  BY <1>2, BegunIs
<1>4. /\ prompt # NoPrompt /\ prompt' = NoPrompt /\ classic' \in BOOLEAN
      /\ hdr' \in Tid /\ phase' = "idle"
  BY <1>3, Dispatched
<1>5. notify_count' - notify_index' \in Nat /\ notify_index' <= notify_count'
  <2>1. PICK count \in Nat, index \in 0 .. notify_count' :
          count = notify_count' /\ index = notify_index'
    BY <1>1, <1>3
  <2>2. index \in 0 .. count
    BY <2>1
  <2>3. count - index \in Nat /\ index <= count
    BY <2>2
  <2>4. QED BY <2>1, <2>3
<1>6. BuffersOK' /\ num_remaining_objects' \in Nat
  <2>0. PICK left \in Nat : left = notify_count' - notify_index'
    BY <1>5
  <2>1. PICK body \in {received'} : TRUE
    OBVIOUS
  <2>2. body \in Seq(Setup) /\ <<>> \in Seq({})
    BY <1>1, <2>1 DEF NotifyOK
  <2>3. Respond("DISCOVER_NOTIFICATIONS", left, body, <<>>)
    BY <1>1, <2>0, <2>1
  <2>4. QED BY <1>0, <1>4, <2>2, <2>3, RespondOK
<1>7. HeaderOK'
  <2>1. prompt.tid \in Tid /\ prompt.classic \in BOOLEAN
    BY <1>0, <1>4, PromptFields
  <2>2. /\ owner' = [tid |-> prompt.tid, classic |-> prompt.classic]
        /\ continued_message_type' = "DISCOVER_NOTIFICATIONS"
    BY <1>2 DEF BeginContinued
  <2>3. owner' \in [tid: Tid \cup {0}, classic: BOOLEAN]
    BY <2>1, <2>2
  <2>4. QED BY <1>0, <1>2, <1>4, <1>6, <2>2, <2>3 DEF HeaderOK, link
<1>8. OneSlotEach'
  BY <1>1, SameTable
<1>9. DiscoveryInv'
  BY <1>1, <1>3, <1>4, <1>5 DEF DiscoveryInv, GoesOn
<1>10. QED BY <1>1, <1>6, <1>7, <1>8, <1>9, NextTypeParts DEF TableInv

(* A step that leaves the call hanging changes nothing else.                *)
LEMMA HangStep ==
  ASSUME TableInv, phase' = "hung", Silent,
         UNCHANGED <<link, prompt, classic, hdr, continued, notifyVars>>
  PROVE  TableInv'
<1>0. TypeOK /\ HeaderOK
  BY TypeParts DEF TableInv
<1>1. BuffersOK'
  BY <1>0, SilentOK
<1>2. HeaderOK'
  BY <1>0 DEF HeaderOK, link, continued
<1>3. NotifyOK' /\ OneSlotEach'
  BY SameNotify, SameTable DEF notifyVars
<1>4. DiscoveryInv'
  BY DEF TableInv, DiscoveryInv, GoesOn, NothingLeft, crcb_access_granted,
         notifyVars, discoveryVars, continued, link
<1>5. QED BY <1>1, <1>2, <1>3, <1>4, NextTypeParts DEF TableInv

LEMMA HangsStep ==
  ASSUME TableInv, discover_notifications_hangs \/ continue_discover_hangs
  PROVE  TableInv'
<1>1. /\ phase' = "hung" /\ Silent
      /\ UNCHANGED <<link, prompt, classic, hdr, continued, notifyVars>>
  BY DEF discover_notifications_hangs, continue_discover_hangs
<1>2. QED BY <1>1, HangStep

(* The message after the first ones of a discovery that goes on.            *)
LEMMA ContinueOK ==
  ASSUME TableInv, AtContinued("DISCOVER_NOTIFICATIONS"), NEW left \in Nat, NEW body \in Seq(Setup),
         Continue("DISCOVER_NOTIFICATIONS", left, body)
  PROVE  /\ HeaderOK' /\ BuffersOK'
         /\ hdr' \in Tid /\ phase' = "idle"
<1>0. TypeOK /\ HeaderOK
  BY TypeParts DEF TableInv
<1>1. continued_message_type = "DISCOVER_NOTIFICATIONS" /\ phase = "idle" /\ hdr \in Tid
  BY DEF AtContinued, TableInv, DiscoveryInv, INVALID
<1>2. /\ num_remaining_objects' = left
      /\ Encode("DISCOVER_NOTIFICATIONS", hdr, classic, left, body, <<>>)
      /\ UNCHANGED <<link, prompt, classic, hdr, phase>>
      /\ \/ continued_message_type' = INVALID /\ owner' = NoOwner
         \/ continued_message_type' = continued_message_type /\ owner' = owner
  BY DEF Continue, EndContinued, KeepContinued
<1>3. BuffersOK'
  <2>1. IsResponse(Message("DISCOVER_NOTIFICATIONS", hdr, classic, left, body))
    BY <1>0, <1>1 DEF IsResponse, Message, HeaderOK
  <2>2. <<>> \in Seq({}) /\ classic \in BOOLEAN
    BY <1>0 DEF HeaderOK
  <2>3. QED BY <1>0, <1>2, <2>1, <2>2, EncodeOK
<1>4. HeaderOK'
  <2>1. owner' \in [tid: Tid \cup {0}, classic: BOOLEAN]
    <3>1. owner \in [tid: Tid \cup {0}, classic: BOOLEAN]
      BY <1>0 DEF HeaderOK
    <3>2. NoOwner \in [tid: Tid \cup {0}, classic: BOOLEAN]
      BY DEF NoOwner
    <3>3. owner' = NoOwner \/ owner' = owner
      BY <1>2
    <3>4. QED BY <3>1, <3>2, <3>3
  <2>2. QED BY <1>0, <1>2, <2>1 DEF HeaderOK, link
<1>5. QED BY <1>1, <1>2, <1>3, <1>4

LEMMA ContinueNoneStep ==
  ASSUME TableInv, continue_discover_none
  PROVE  TableInv'
<1>1. /\ AtContinued("DISCOVER_NOTIFICATIONS") /\ UNCHANGED notifyVars
      /\ Continue("DISCOVER_NOTIFICATIONS", 0, <<>>)
  BY DEF continue_discover_none
<1>2. <<>> \in Seq(Setup) /\ 0 \in Nat
  OBVIOUS
<1>3. HeaderOK' /\ BuffersOK'
  BY <1>1, <1>2, ContinueOK
<1>4. continued_message_type' = INVALID /\ NothingOwed'
  BY <1>1 DEF Continue, EndContinued, NothingOwed
<1>5. QED BY <1>1, <1>3, <1>4, HandlerKeeps

(* The call that finds a discovery to be over.                              *)
LEMMA OverStep ==
  ASSUME TableInv, NoMoreData, EndContinued, UNCHANGED <<num_remaining_objects, notifyVars>>
  PROVE  TableInv'
<1>0. TypeOK /\ HeaderOK
  BY TypeParts DEF TableInv
<1>1. BuffersOK'
  BY <1>0, SilentOK DEF NoMoreData
<1>2. continued_message_type' = INVALID /\ owner' \in [tid: Tid \cup {0}, classic: BOOLEAN]
  BY DEF EndContinued, NoOwner
<1>3. HeaderOK'
  BY <1>0, <1>2 DEF HeaderOK, NoMoreData, link
<1>4. UNCHANGED notifyVars /\ NothingOwed'
  BY <1>2 DEF NothingOwed
<1>5. QED BY <1>1, <1>2, <1>3, <1>4, HandlerKeeps

(* A later message: what it announces and describes.                        *)
LEMMA ContinuedMessage ==
  ASSUME TableInv, continue_discover_notifications, num_remaining_objects # 0
  PROVE  /\ NotifyOK' /\ notify_list' = notify_list
         /\ notify_index' \in 0 .. notify_count' /\ notify_count' = notify_count
         /\ requested' = requested
         /\ \E body \in Seq(Setup) :
              Continue("DISCOVER_NOTIFICATIONS", notify_count' - notify_index', body)
         /\ requested' = <<>> => Got(received', notify_list', notify_index', next_param')
<1>0. TypeOK /\ NotifyOK /\ continued_message_type # INVALID /\ Active(notify_list) # {}
  <2>1. continued_message_type = "DISCOVER_NOTIFICATIONS" /\ cr_get_active_notify_count > 0
    BY DEF continue_discover_notifications, AtContinued
  <2>2. Active(notify_list) # {}
    BY <2>1, FS_EmptySet DEF cr_get_active_notify_count
  <2>3. QED BY <2>1, <2>2, TypeParts DEF TableInv, INVALID
<1>1. PICK found : found = Found(requested, notify_count, notify_index, next_param)
  OBVIOUS
<1>2. PICK q : q = Passed(requested, found, notify_count, notify_index, next_param)
  OBVIOUS
<1>3. /\ ~Hangs(requested, notify_count, notify_index)
      /\ Continue("DISCOVER_NOTIFICATIONS", notify_count - notify_index - Len(found), Configs(found))
      /\ notify_index' = notify_index + Len(found)
      /\ next_param' = q
      /\ received' = received \o Configs(found)
      /\ UNCHANGED <<notify_list, requested, notify_count>>
  BY <1>1, <1>2 DEF continue_discover_notifications
<1>4. /\ requested \in Lists \cup {<<>>} /\ notify_count \in Nat /\ notify_index \in 0 .. notify_count
      /\ next_param \in 1 .. NumParams + 1 /\ received \in Seq(Setup)
      /\ requested # <<>> => notify_count <= Len(requested)
      /\ requested = <<>> => Got(received, notify_list, notify_index, next_param)
  <2>1. GoesOn
    BY <1>0 DEF continue_discover_notifications, TableInv, DiscoveryInv, NothingLeft
  <2>2. QED BY <1>0, <2>1 DEF NotifyOK, TableInv, DiscoveryInv, GoesOn
<1>5. /\ found \in Seq(Nat) /\ Len(found) \in 0 .. notify_count - notify_index
      /\ \A i \in 1 .. Len(found) : IsNotifying(found[i])
      /\ q \in next_param .. NumParams + 1
      /\ requested = <<>> =>
           /\ \A i \in 1 .. Len(found) : found[i] \in next_param .. q - 1
           /\ \A i, j \in 1 .. Len(found) : found[i] = found[j] => i = j
  BY <1>1, <1>2, <1>3, <1>4, FoundIs
<1>6. Configs(found) \in Seq(Setup)
  BY <1>0, <1>5, ConfigsAre
<1>7. PICK more : more = Configs(found)
  OBVIOUS
<1>8. received \o more \in Seq(Setup)
  BY <1>4, <1>6, <1>7, ConcatProperties
<1>9. PICK m \in Nat : m = Len(found) /\ m <= notify_count - notify_index
  BY <1>5
<1>10. /\ notify_index + m \in 0 .. notify_count
       /\ notify_count - notify_index - m = notify_count - (notify_index + m)
  BY <1>4, <1>9
<1>11. q \in 1 .. NumParams + 1
  BY <1>4, <1>5, NotificationAssumption
<1>12. NotifyOK'
  BY <1>0, <1>3, <1>7, <1>8, <1>9, <1>10, <1>11 DEF NotifyOK
<1>13. requested = <<>> => Got(received \o more, notify_list, notify_index + m, q)
  <2>1. SUFFICES ASSUME requested = <<>> PROVE Got(received \o more, notify_list, notify_index + m, q)
    OBVIOUS
  <2>2. notify_index \in Nat
    BY <1>4
  <2>3. Got(received \o Configs(found), notify_list, notify_index + Len(found), q)
    BY <1>0, <1>4, <1>5, <2>1, <2>2, GotMore
  <2>4. QED BY <1>7, <1>9, <2>3
<1>14. Continue("DISCOVER_NOTIFICATIONS", notify_count' - notify_index', more)
  <2>1. notify_count' - notify_index' = notify_count - notify_index - Len(found)
    BY <1>3, <1>9, <1>10
  <2>2. QED BY <1>3, <1>7, <2>1
<1>15. requested' = <<>> => Got(received', notify_list', notify_index', next_param')
  BY <1>3, <1>7, <1>9, <1>13
<1>16. QED BY <1>3, <1>6, <1>7, <1>9, <1>10, <1>12, <1>14, <1>15

LEMMA ContinueStep ==
  ASSUME TableInv, continue_discover_notifications
  PROVE  TableInv'
<1>1. CASE num_remaining_objects = 0
  <2>1. NoMoreData /\ EndContinued /\ UNCHANGED <<num_remaining_objects, notifyVars>>
    BY <1>1 DEF continue_discover_notifications
  <2>2. QED BY <2>1, OverStep
<1>2. CASE num_remaining_objects # 0
  <2>1. /\ NotifyOK' /\ notify_list' = notify_list
        /\ notify_index' \in 0 .. notify_count' /\ notify_count' = notify_count
        /\ requested' = requested
        /\ requested' = <<>> => Got(received', notify_list', notify_index', next_param')
    BY <1>2, ContinuedMessage
  <2>2. PICK body \in Seq(Setup) :
          Continue("DISCOVER_NOTIFICATIONS", notify_count' - notify_index', body)
    BY <1>2, ContinuedMessage
  <2>3. PICK count \in Nat, index \in {notify_index'} : count = notify_count'
    BY <2>1 DEF NotifyOK
  <2>4. PICK left \in Nat : left = notify_count' - notify_index'
    <3>1. index \in 0 .. count
      BY <2>1, <2>3
    <3>2. count - index \in Nat
      BY <3>1
    <3>3. QED BY <2>3, <3>2
  <2>5. AtContinued("DISCOVER_NOTIFICATIONS")
    BY DEF continue_discover_notifications
  <2>6. HeaderOK' /\ BuffersOK' /\ hdr' \in Tid /\ phase' = "idle"
    BY <2>2, <2>4, <2>5, ContinueOK
  <2>7. OneSlotEach'
    BY <2>1, SameTable
  <2>8. DiscoveryInv'
    <3>1. continued_message_type # INVALID
      BY <2>5 DEF AtContinued, INVALID
    <3>2. index <= count
      BY <2>1, <2>3
    <3>3. GoesOn
      BY <1>2, <3>1
      DEF continue_discover_notifications, TableInv, DiscoveryInv, NothingLeft
    <3>4. GoesOn'
      BY <2>1, <2>3, <3>2, <3>3 DEF GoesOn
    <3>5. QED BY <2>1, <2>6, <3>4 DEF DiscoveryInv, TableInv
  <2>9. QED BY <2>1, <2>6, <2>7, <2>8, NextTypeParts DEF TableInv
<1>3. QED BY <1>1, <1>2

-----------------------------------------------------------------------------
(* All steps.                                                              *)

LEMMA InitTable == Init => TableInv
<1> SUFFICES ASSUME Init PROVE TableInv
  OBVIOUS
<1> USE DEF Init, CoreInit
<1>1. HeaderOK
  BY DEF HeaderOK, NoOwner
<1>2. DOMAIN sent = {}
  OBVIOUS
<1>3. BuffersOK
  BY <1>2 DEF BuffersOK
<1>4. NotifyOK
  BY AllOffTable, NotificationAssumption DEF NotifyOK
<1>5. OneSlotEach
  BY AllOffTable DEF OneSlotEach, OneEach
<1>6. DiscoveryInv
  BY DEF DiscoveryInv
<1>7. QED BY <1>1, <1>3, <1>4, <1>5, <1>6, TypeParts DEF TableInv

LEMMA StepTable ==
  ASSUME PresetIsSound, TableInv, [Next]_vars
  PROVE  TableInv'
<1>1. CASE CoreHandlers /\ UNCHANGED notifyVars
  BY <1>1, HandlersTable
<1>2. CASE pvtCrParam_param_enable_notify
  BY <1>2, EnableStep
<1>3. CASE pvtCrParam_param_disable_notify
  BY <1>3, DisableStep
<1>4. CASE discover_notifications_denied
  BY <1>4, DeniedStep
<1>5. CASE discover_notifications_none
  BY <1>5, NoneStep
<1>6. CASE discover_notifications_unanswered
  BY <1>6, UnansweredStep
<1>7. CASE discover_notifications_first
  BY <1>7, FirstStep
<1>8. CASE discover_notifications_hangs \/ continue_discover_hangs
  BY <1>8, HangsStep
<1>9. CASE continue_discover_notifications
  BY <1>9, ContinueStep
<1>10. CASE continue_discover_none
  BY <1>10, ContinueNoneStep
<1>11. CASE pvtCrParam_check_for_notifications
  BY <1>11, CheckStep
<1>12. CASE LinkApplication
  BY <1>12, LinkTable
<1>13. CASE cr_clear_param_notifications
  BY <1>13, ClearStep
<1>14. CASE cr_init_param_notifications
  BY <1>14, PresetStep
<1>15. CASE continue_discover_notifications_denied
  BY <1>15, ContinuedDeniedStep
<1>16. CASE UNCHANGED vars
  <2>1. UNCHANGED coreVars /\ UNCHANGED notifyVars
    BY <1>16 DEF vars
  <2>2. HeaderOK' /\ BuffersOK'
    BY <2>1, TypeParts
    DEF TableInv, coreVars, link, continued, buffers, HeaderOK, BuffersOK
  <2>3. NotifyOK' /\ OneSlotEach'
    BY <2>1, SameNotify, SameTable DEF notifyVars
  <2>4. DiscoveryInv'
    BY <2>1 DEF TableInv, DiscoveryInv, GoesOn, NothingLeft, crcb_access_granted,
                coreVars, continued, link, notifyVars, discoveryVars
  <2>5. QED BY <2>2, <2>3, <2>4, NextTypeParts DEF TableInv
<1>17. QED
  BY <1>1, <1>2, <1>3, <1>4, <1>5, <1>6, <1>7, <1>8, <1>9, <1>10, <1>11, <1>12, <1>13, <1>14,
     <1>15, <1>16 DEF Next, cr_process, Application

(* For every table, message size and list of configurations, the table of   *)
(* notifications keeps what the induction needs.                            *)
THEOREM TableIsInductive ==
  ASSUME PresetIsSound
  PROVE  Spec => []TableInv
<1>1. TableInv /\ [Next]_vars => TableInv'
  BY StepTable
<1>2. QED BY <1>1, InitTable, PTL DEF Spec

(* The notifications keep their types: only parameters of the table get     *)
(* into it, and a discovery stays within the table, whatever a client asks  *)
(* for (TypeOK).                                                           *)
THEOREM TableTypes ==
  ASSUME PresetIsSound
  PROVE  Spec => []TypeOK
<1>1. TableInv => TypeOK
  BY DEF TableInv
<1>2. QED BY <1>1, TableIsInductive, PTL

(* A parameter has at most one notification: enabling finds the slot of its *)
(* parameter again, whatever holes disabling has left (OneSlotEach).        *)
THEOREM OneNotificationEach ==
  ASSUME PresetIsSound
  PROVE  Spec => []OneSlotEach
<1>1. TableInv => OneSlotEach
  BY DEF TableInv
<1>2. QED BY <1>1, TableIsInductive, PTL

-----------------------------------------------------------------------------
(* What a single step may do.                                              *)

(* A stored prompt goes only by being handled.                              *)
LEMMA HandledBy ==
  ASSUME TableInv, Next, NEW type \in {"PARAM_ENABLE_NOTIFY", "PARAM_DISABLE_NOTIFY"},
         Handles(type)
  PROVE  \/ type = "PARAM_ENABLE_NOTIFY" /\ pvtCrParam_param_enable_notify
         \/ type = "PARAM_DISABLE_NOTIFY" /\ pvtCrParam_param_disable_notify
<1>1. prompt.type = type /\ prompt' = NoPrompt /\ prompt # NoPrompt /\ prompt' # prompt
  <2>1. prompt.type = type /\ prompt' = NoPrompt
    BY DEF Handles
  <2>2. QED BY <2>1, TypedPrompt
<1>2. ~CoreHandlers
  BY <1>1 DEF CoreHandlers, handle_ping, handle_get_device_info, handle_undecodable_header,
              handle_undecodable_payload, handle_unhandled_type, Dispatch
<1>3. /\ ~discover_notifications_denied /\ ~discover_notifications_none
      /\ ~discover_notifications_unanswered /\ ~discover_notifications_first
  BY <1>1 DEF discover_notifications_denied, discover_notifications_none,
              discover_notifications_unanswered, discover_notifications_first,
              BeginDiscovery, DiscoverPrompt, Dispatch
<1>4. /\ ~discover_notifications_hangs /\ ~continue_discover_hangs
      /\ ~pvtCrParam_check_for_notifications
  BY <1>1 DEF discover_notifications_hangs, continue_discover_hangs,
              pvtCrParam_check_for_notifications
<1>5. ~continue_discover_none /\ ~continue_discover_notifications_denied
  BY <1>1 DEF continue_discover_none, continue_discover_notifications_denied, Continue, NoMoreData
<1>6. ~continue_discover_notifications
  <2>1. continue_discover_notifications => prompt' = prompt
    BY DEF continue_discover_notifications, Continue, NoMoreData
  <2>2. QED BY <1>1, <2>1
<1>7. ~LinkApplication
  <2>1. ~cr_store_coded_prompt(NotifyPrompts)
    <3>1. \A p \in NotifyPrompts : p.type # "NONE"
      BY DEF NotifyPrompts, CorePrompts, Wire
    <3>2. QED BY <1>1, <3>1 DEF cr_store_coded_prompt, NoPrompt
  <2>2. /\ ~set_connected /\ ~set_disconnected /\ ~cr_get_coded_response_buffer
        /\ ~revoke_access
    BY <1>1 DEF set_connected, set_disconnected, cr_get_coded_response_buffer, revoke_access
  <2>3. QED BY <2>1, <2>2 DEF LinkApplication, CoreApplication
<1>8. ~cr_clear_param_notifications /\ ~cr_init_param_notifications
  BY <1>1 DEF cr_clear_param_notifications, cr_init_param_notifications
<1>9. pvtCrParam_param_enable_notify \/ pvtCrParam_param_disable_notify
  BY <1>2, <1>3, <1>4, <1>5, <1>6, <1>7, <1>8 DEF Next, cr_process, Application
<1>10. /\ pvtCrParam_param_enable_notify => prompt.type = "PARAM_ENABLE_NOTIFY"
       /\ pvtCrParam_param_disable_notify => prompt.type = "PARAM_DISABLE_NOTIFY"
  BY DEF pvtCrParam_param_enable_notify, pvtCrParam_param_disable_notify, Dispatch
<1>11. QED BY <1>1, <1>9, <1>10

(* The prompt of an enable, and the table it starts from.                   *)
LEMMA Enabling ==
  ASSUME TableInv, pvtCrParam_param_enable_notify
  PROVE  /\ prompt.type = "PARAM_ENABLE_NOTIFY"
         /\ prompt.arg.configs \in Seq(Config)
         /\ notify_list \in Table /\ OneEach(notify_list)
<1>1. Dispatch("PARAM_ENABLE_NOTIFY")
  BY DEF pvtCrParam_param_enable_notify
<1>2. prompt # NoPrompt /\ TypeOK /\ NotifyOK
  BY <1>1, Dispatched, TypeParts DEF TableInv
<1>3. QED BY <1>1, <1>2, PromptFields, NotificationAssumption, OneSlotEachIs
          DEF Dispatch, NotifyOK, TableInv

LEMMA EnableNamed ==
  ASSUME TableInv, pvtCrParam_param_enable_notify, ~prompt.arg.disable_all_first,
         NEW id, id \notin Named
  PROVE  Of(notify_list', id) = Of(notify_list, id)
<1>1. /\ prompt.type = "PARAM_ENABLE_NOTIFY" /\ prompt.arg.configs \in Seq(Config)
      /\ notify_list \in Table
  BY Enabling
<1>2. PICK all : all = prompt.arg.configs
  OBVIOUS
<1>3. PICK configs : configs = UpToOff(all)
  OBVIOUS
<1>4. /\ configs \in Seq(Config)
      /\ \A i \in 1 .. Len(configs) : i \in 1 .. Len(all) /\ configs[i] = all[i]
  BY <1>1, <1>2, <1>3, UpToOffIs
<1>5. notify_list' = EnabledBy(notify_list, configs)[Len(configs)]
  BY <1>2, <1>3 DEF pvtCrParam_param_enable_notify
<1>6. \A i \in 1 .. Len(configs) : configs[i].parameter_id # id
  <2>1. DOMAIN all = 1 .. Len(all)
    BY <1>1, <1>2, LenProperties
  <2>2. \A i \in 1 .. Len(all) : all[i].parameter_id # id
    BY <1>1, <1>2, <2>1 DEF Named
  <2>3. QED BY <1>4, <2>2
<1>7. Len(configs) \in 0 .. Len(configs)
  BY <1>4, LenProperties
<1>8. QED BY <1>1, <1>4, <1>5, <1>6, <1>7, EnabledTables

LEMMA DisableNamed ==
  ASSUME TableInv, pvtCrParam_param_disable_notify, NEW id, id \notin Named
  PROVE  Of(notify_list', id) = Of(notify_list, id)
<1>1. Dispatch("PARAM_DISABLE_NOTIFY") /\ notify_list' = DisabledBy(notify_list, prompt.arg.ids)
  BY DEF pvtCrParam_param_disable_notify
<1>2. prompt # NoPrompt /\ TypeOK /\ NotifyOK /\ prompt.type = "PARAM_DISABLE_NOTIFY"
  BY <1>1, Dispatched, TypeParts DEF TableInv, Dispatch
<1>3. PICK ids : ids = prompt.arg.ids
  OBVIOUS
<1>4. ids \in Seq(Nat)
  BY <1>2, <1>3, PromptFields, NotificationAssumption
<1>5. \A i \in 1 .. Len(ids) : ids[i] # id
  <2>1. DOMAIN ids = 1 .. Len(ids)
    BY <1>4, LenProperties
  <2>2. QED BY <1>2, <1>3, <2>1 DEF Named
<1>6. notify_list \in Table
  BY <1>2 DEF NotifyOK
<1>7. QED BY <1>1, <1>3, <1>4, <1>5, <1>6, DisabledTable

(* Enabling and disabling touch the parameters that the prompt names and no *)
(* others (OnlyNamedChange), for lists and tables of every length.          *)
THEOREM OnlyNamedParametersChange ==
  ASSUME PresetIsSound
  PROVE  Spec => OnlyNamedChange
<1>1. ASSUME TableInv, [Next]_vars
      PROVE  [ \/ Handles("PARAM_DISABLE_NOTIFY")
               \/ Handles("PARAM_ENABLE_NOTIFY") /\ ~prompt.arg.disable_all_first
               => \A id \in (1 .. NumParams) \ Named :
                    Of(notify_list', id) = Of(notify_list, id) ]_vars
  <2>1. CASE UNCHANGED vars
    BY <2>1
  <2>2. CASE Next
    <3>1. ASSUME Handles("PARAM_DISABLE_NOTIFY"), NEW id \in (1 .. NumParams) \ Named
          PROVE  Of(notify_list', id) = Of(notify_list, id)
      <4>1. pvtCrParam_param_disable_notify
        BY <1>1, <2>2, <3>1, HandledBy
      <4>2. QED BY <1>1, <3>1, <4>1, DisableNamed
    <3>2. ASSUME Handles("PARAM_ENABLE_NOTIFY"), ~prompt.arg.disable_all_first,
                 NEW id \in (1 .. NumParams) \ Named
          PROVE  Of(notify_list', id) = Of(notify_list, id)
      <4>1. pvtCrParam_param_enable_notify
        BY <1>1, <2>2, <3>2, HandledBy
      <4>2. QED BY <1>1, <3>2, <4>1, EnableNamed
    <3>3. QED BY <3>1, <3>2
  <2>3. QED BY <1>1, <2>1, <2>2
<1>2. QED BY <1>1, TableIsInductive, PTL DEF Spec, OnlyNamedChange

LEMMA EnableUnremarked ==
  ASSUME TableInv, pvtCrParam_param_enable_notify,
         ~response_buffer'.body.has_result_message,
         NEW configs, configs = UpToOff(prompt.arg.configs), NEW i \in 1 .. Len(configs)
  PROVE  \/ Of(notify_list', configs[i].parameter_id) = {configs[i]}
         \/ \E j \in i + 1 .. Len(configs) : configs[j].parameter_id = configs[i].parameter_id
<1>1. /\ prompt.arg.configs \in Seq(Config)
      /\ notify_list \in Table /\ OneEach(notify_list)
  BY Enabling
<1>2. PICK all : all = prompt.arg.configs
  OBVIOUS
<1>3. configs \in Seq(Config) /\ \A k \in 1 .. Len(configs) : configs[k] # Off
  BY <1>1, <1>2, UpToOffIs
<1>4. PICK start : start = IF prompt.arg.disable_all_first THEN AllOff ELSE notify_list
  OBVIOUS
<1>5. start \in Table /\ OneEach(start)
  BY <1>1, <1>4, AllOffTable
<1>6. PICK errors : errors = EnableErrors(start, configs)
  OBVIOUS
<1>7. /\ notify_list' = EnabledBy(start, configs)[Len(configs)]
      /\ Respond("PARAM_ENABLE_NOTIFY", 0,
                 [result |-> 0, has_result_message |-> errors # <<>>], errors)
  BY <1>4, <1>6 DEF pvtCrParam_param_enable_notify
<1>8. response_buffer'.body = [result |-> 0, has_result_message |-> errors # <<>>]
  BY <1>7 DEF Respond, Encode, Message
<1>9. errors = <<>>
  <2>1. PICK remarked \in BOOLEAN : remarked = (errors # <<>>)
    OBVIOUS
  <2>2. response_buffer'.body.has_result_message = remarked
    BY <1>8, <2>1
  <2>3. ~remarked
    BY <2>2
  <2>4. QED BY <2>1, <2>3
<1>10. \A k \in 1 .. Len(configs) :
         EnableError(EnabledBy(start, configs)[k - 1], configs[k]) = "NO_ERROR"
  BY <1>3, <1>6, <1>9, EnableErrorsIs
<1>11. Len(configs) \in 0 .. Len(configs)
  BY <1>3, LenProperties
<1>12. \A n \in 0 .. Len(configs) : \A k \in 1 .. n :
         \/ Of(EnabledBy(start, configs)[n], configs[k].parameter_id) = {configs[k]}
         \/ \E j \in k + 1 .. n : configs[j].parameter_id = configs[k].parameter_id
  BY <1>3, <1>5, <1>10, EnabledStays
<1>13. \/ Of(EnabledBy(start, configs)[Len(configs)], configs[i].parameter_id) = {configs[i]}
       \/ \E j \in i + 1 .. Len(configs) : configs[j].parameter_id = configs[i].parameter_id
  BY <1>11, <1>12
<1>14. QED BY <1>7, <1>13

(* An enable that is answered without a result message has enabled every    *)
(* configuration up to one that is all zero (UnremarkedIsEnabled), for      *)
(* lists and tables of every length: none is lost for want of a slot.       *)
THEOREM UnremarkedEnablesHold ==
  ASSUME PresetIsSound
  PROVE  Spec => UnremarkedIsEnabled
<1>1. ASSUME TableInv, [Next]_vars
      PROVE  [ Handles("PARAM_ENABLE_NOTIFY") /\ ~response_buffer'.body.has_result_message =>
                 LET configs == UpToOff(prompt.arg.configs)
                 IN  \A i \in DOMAIN configs :
                       \/ Of(notify_list', configs[i].parameter_id) = {configs[i]}
                       \/ \E j \in i + 1 .. Len(configs) :
                            configs[j].parameter_id = configs[i].parameter_id ]_vars
  <2>1. CASE UNCHANGED vars
    BY <2>1
  <2>2. CASE Next
    <3>1. SUFFICES ASSUME Handles("PARAM_ENABLE_NOTIFY"),
                          ~response_buffer'.body.has_result_message
                   PROVE  LET configs == UpToOff(prompt.arg.configs)
                          IN  \A i \in DOMAIN configs :
                                \/ Of(notify_list', configs[i].parameter_id) = {configs[i]}
                                \/ \E j \in i + 1 .. Len(configs) :
                                     configs[j].parameter_id = configs[i].parameter_id
      OBVIOUS
    <3>2. pvtCrParam_param_enable_notify
      BY <1>1, <2>2, <3>1, HandledBy
    <3>3. PICK configs : configs = UpToOff(prompt.arg.configs)
      OBVIOUS
    <3>4. configs \in Seq(Config)
      <4>1. PICK all : all = prompt.arg.configs
        OBVIOUS
      <4>2. all \in Seq(Config)
        BY <1>1, <3>2, <4>1, Enabling
      <4>3. QED BY <3>3, <4>1, <4>2, UpToOffIs
    <3>5. DOMAIN configs = 1 .. Len(configs)
      BY <3>4, LenProperties
    <3>6. \A i \in 1 .. Len(configs) :
            \/ Of(notify_list', configs[i].parameter_id) = {configs[i]}
            \/ \E j \in i + 1 .. Len(configs) :
                 configs[j].parameter_id = configs[i].parameter_id
      BY <1>1, <3>1, <3>2, <3>3, EnableUnremarked
    <3>7. QED BY <3>3, <3>5, <3>6
  <2>3. QED BY <1>1, <2>1, <2>2
<1>2. QED BY <1>1, TableIsInductive, PTL DEF Spec, UnremarkedIsEnabled

-----------------------------------------------------------------------------
(* The end of a discovery.                                                 *)

(* A client that has got as many configurations as are active has got all.  *)
LEMMA GotAll ==
  ASSUME NEW list, NEW got \in Seq(Setup), NEW p, Got(got, list, Cardinality(Active(list)), p)
  PROVE  /\ { got[i] : i \in DOMAIN got } = { list[s] : s \in Active(list) }
         /\ Len(got) = Cardinality(Active(list))
<1> DEFINE S == Active(list)
           n == Cardinality(S)
           slot == [i \in 1 .. n |-> CHOOSE s \in S : got[i] = list[s]]
<1>1. IsFiniteSet(S) /\ n \in Nat
  <2>1. S \in SUBSET (1 .. NUM_SUPPORTED_PARAM_NOTIFY)
    BY DEF Active, Slots
  <2>2. IsFiniteSet(1 .. NUM_SUPPORTED_PARAM_NOTIFY)
    BY NotificationAssumption, FS_Interval
  <2> HIDE DEF S
  <2>3. QED BY <2>1, <2>2, FS_Subset, FS_CardinalityType
<1>2. /\ Len(got) = n
      /\ \A i \in 1 .. n : \E s \in S : got[i] = list[s]
      /\ \A i, j \in 1 .. n : got[i].parameter_id = got[j].parameter_id => i = j
  BY DEF Got
<1> HIDE DEF S, n
<1>3. \A i \in 1 .. n : slot[i] \in S /\ got[i] = list[slot[i]]
  BY <1>2
<1>4. slot \in [1 .. n -> S]
  BY <1>3
<1>5. \A i, j \in 1 .. n : slot[i] = slot[j] => i = j
  BY <1>2, <1>3
<1> HIDE DEF slot
<1>6. slot \in Injection(1 .. n, S)
  BY <1>4, <1>5 DEF Injection, IsInjective
<1>7. Cardinality(1 .. n) = n
  <2>1. 1 \in Int /\ n \in Int
    BY <1>1
  <2>2. Cardinality(1 .. n) = IF 1 > n THEN 0 ELSE n - 1 + 1
    BY <2>1, FS_Interval
  <2>3. QED BY <1>1, <2>2
<1>8. slot \in Surjection(1 .. n, S)
  BY <1>1, <1>6, <1>7, FS_Injection DEF n
<1>9. \A s \in S : \E i \in 1 .. n : slot[i] = s
  BY <1>8 DEF Surjection
<1>10. DOMAIN got = 1 .. n
  BY <1>2, LenProperties
<1>11. { got[i] : i \in DOMAIN got } = { list[s] : s \in S }
  BY <1>3, <1>9, <1>10
<1>12. QED BY <1>2, <1>11 DEF S, n

(* A prompt that fails sends its error reports before the message.          *)
LEMMA FailSendsMore ==
  ASSUME NEW code, Fail(<<code>>, code), NEW m
  PROVE  sent' # <<m>>
<1>1. PICK codes : codes = Append(<<code>>, code)
  OBVIOUS
<1>2. codes \in Seq({code}) /\ Len(codes) = 2
  BY <1>1
<1>3. DOMAIN codes = 1 .. 2
  BY <1>2, LenProperties
<1>4. PICK reports, tail :
        reports = Reports(prompt.classic, codes) /\ tail = <<response_buffer>>
  OBVIOUS
<1> DEFINE S == { reports[i] : i \in 1 .. 2 } \cup {response_buffer}
<1>5. reports \in [1 .. 2 -> S]
  BY <1>3, <1>4 DEF Reports
<1>6. tail \in Seq(S) /\ Len(tail) = 1
  BY <1>4
<1> HIDE DEF S
<1>7. reports \in Seq(S)
  BY <1>5, SeqDef
<1>8. Len(reports) = 2
  <2>1. DOMAIN reports = 1 .. 2
    BY <1>5
  <2>2. QED BY <1>7, <2>1, LenProperties
<1>9. sent' = reports \o tail
  BY <1>1, <1>4 DEF Fail, Report
<1>10. Len(reports \o tail) = 3
  BY <1>6, <1>7, <1>8, ConcatProperties
<1>11. Len(<<m>>) = 1
  OBVIOUS
<1>12. QED BY <1>9, <1>10, <1>11

LEMMA SilentSendsNothing == ASSUME Silent, NEW m PROVE sent' # <<m>>
  BY DEF Silent

(* What the response buffer holds once it has been encoded.                 *)
LEMMA Encoded ==
  ASSUME NEW type, NEW tid, NEW format, NEW remaining, NEW body, NEW codes,
         Encode(type, tid, format, remaining, body, codes)
  PROVE  /\ response_buffer'.type = type /\ response_buffer'.remaining = remaining
         /\ response_buffer'.body = body
  BY DEF Encode, Message

(* Only the two steps of a discovery send a message of it that is not empty. *)
LEMMA DiscoverySends ==
  ASSUME TableInv, Next, sent' = <<response_buffer'>>,
         response_buffer'.type = "DISCOVER_NOTIFICATIONS", response_buffer'.body # <<>>
  PROVE  \/ discover_notifications_first
         \/ continue_discover_notifications /\ num_remaining_objects # 0
<1>1. ~CoreHandlers
  <2>1. ~handle_ping
    <3>1. SUFFICES ASSUME handle_ping PROVE FALSE
      OBVIOUS
    <3>2. Respond("PING", 0, 0, <<>>) \/ Silent
      BY <3>1 DEF handle_ping
    <3>3. QED BY <3>2, SilentSendsNothing, Encoded DEF Respond
  <2>2. ~handle_get_device_info
    BY Encoded DEF handle_get_device_info, Respond
  <2>3. ~handle_undecodable_header /\ ~handle_undecodable_payload /\ ~handle_unhandled_type
    BY FailSendsMore
    DEF handle_undecodable_header, handle_undecodable_payload, handle_unhandled_type
  <2>4. QED BY <2>1, <2>2, <2>3 DEF CoreHandlers
<1>2. ~pvtCrParam_param_enable_notify
  <2>1. pvtCrParam_param_enable_notify =>
          \E body, errors : Respond("PARAM_ENABLE_NOTIFY", 0, body, errors)
    BY DEF pvtCrParam_param_enable_notify
  <2>2. QED BY <2>1, Encoded DEF Respond
<1>3. ~pvtCrParam_param_disable_notify
  <2>1. pvtCrParam_param_disable_notify =>
          \E body, errors : Respond("PARAM_DISABLE_NOTIFY", 0, body, errors)
    BY DEF pvtCrParam_param_disable_notify
  <2>2. QED BY <2>1, Encoded DEF Respond
<1>4. /\ ~discover_notifications_denied /\ ~discover_notifications_unanswered
      /\ ~discover_notifications_hangs /\ ~continue_discover_hangs
      /\ ~continue_discover_notifications_denied
  BY SilentSendsNothing
  DEF discover_notifications_denied, discover_notifications_unanswered,
      discover_notifications_hangs, continue_discover_hangs,
      continue_discover_notifications_denied, NoMoreData
<1>5. ~discover_notifications_none
  BY Encoded DEF discover_notifications_none, Respond
<1>6. ~continue_discover_none
  BY Encoded DEF continue_discover_none, Continue
<1>7. continue_discover_notifications => num_remaining_objects # 0
  BY SilentSendsNothing DEF continue_discover_notifications, NoMoreData
<1>8. ~pvtCrParam_check_for_notifications
  <2>1. SUFFICES ASSUME pvtCrParam_check_for_notifications PROVE FALSE
    OBVIOUS
  <2>2. PICK due \in SUBSET Active(notify_list) :
          sent' = [i \in DOMAIN InOrder(due) |->
                     IF classic THEN notification_buffer
                     ELSE Notification(notify_list[InOrder(due)[i]])]
    BY <2>1 DEF pvtCrParam_check_for_notifications
  <2>3. PICK m : m = response_buffer'
    OBVIOUS
  <2>4. sent' = <<m>> /\ 1 \in DOMAIN <<m>> /\ <<m>>[1] = m
    BY <2>3
  <2>5. \/ m = notification_buffer
        \/ \E config : m = Notification(config)
    BY <2>2, <2>4
  <2>6. notification_buffer = NoMessage \/ IsNotification(notification_buffer)
    BY DEF TableInv, TypeOK
  <2>7. m.type # "DISCOVER_NOTIFICATIONS"
    BY <2>5, <2>6 DEF NoMessage, IsNotification, Notification, Message
  <2>8. QED BY <2>3, <2>7
<1>9. ~LinkApplication
  <2>1. ~cr_get_coded_response_buffer
    <3>1. cr_get_coded_response_buffer => sent' = <<>>
      BY DEF cr_get_coded_response_buffer
    <3>2. QED BY <3>1
  <2>2. /\ ~cr_store_coded_prompt(NotifyPrompts) /\ ~set_connected /\ ~set_disconnected
        /\ ~revoke_access
    BY SilentSendsNothing DEF cr_store_coded_prompt, set_connected, set_disconnected, revoke_access
  <2>3. QED BY <2>1, <2>2 DEF LinkApplication, CoreApplication
<1>10. ~cr_clear_param_notifications /\ ~cr_init_param_notifications
  BY SilentSendsNothing DEF cr_clear_param_notifications, cr_init_param_notifications
<1>11. QED
  BY <1>1, <1>2, <1>3, <1>4, <1>5, <1>6, <1>7, <1>8, <1>9, <1>10 DEF Next, cr_process, Application

(* Nothing remains when all that is announced has been sent, and that is    *)
(* all that is enabled.                                                    *)
LEMMA LastMessage ==
  ASSUME TableInv, requested' = <<>>, response_buffer'.remaining = 0,
         \/ discover_notifications_first
         \/ continue_discover_notifications /\ num_remaining_objects # 0
  PROVE  /\ { received'[i] : i \in DOMAIN received' } = { notify_list'[s] : s \in Active(notify_list') }
         /\ Len(received') = Cardinality(Active(notify_list'))
<1>1. /\ NotifyOK' /\ notify_list' = notify_list
      /\ notify_index' \in 0 .. notify_count'
      /\ notify_count' = Cardinality(Active(notify_list))
      /\ response_buffer'.remaining = notify_count' - notify_index'
      /\ Got(received', notify_list', notify_index', next_param')
  <2>1. CASE discover_notifications_first
    <3>1. BeginDiscovery
      BY <2>1 DEF discover_notifications_first
    <3>2. notify_count' = Cardinality(Active(notify_list))
      BY <3>1, BegunIs
    <3>3. /\ NotifyOK' /\ notify_list' = notify_list /\ notify_index' \in 0 .. notify_count'
          /\ Respond("DISCOVER_NOTIFICATIONS", notify_count' - notify_index', received', <<>>)
          /\ Got(received', notify_list', notify_index', next_param')
      BY <2>1, FirstMessage
    <3>4. PICK left, body : left = notify_count' - notify_index' /\ body = received'
      OBVIOUS
    <3>5. response_buffer'.remaining = left
      BY <3>3, <3>4, Encoded DEF Respond
    <3>6. QED BY <3>2, <3>3, <3>4, <3>5
  <2>2. CASE continue_discover_notifications /\ num_remaining_objects # 0
    <3>1. /\ NotifyOK' /\ notify_list' = notify_list
          /\ notify_index' \in 0 .. notify_count' /\ notify_count' = notify_count
          /\ requested' = requested
          /\ \E body \in Seq(Setup) :
               Continue("DISCOVER_NOTIFICATIONS", notify_count' - notify_index', body)
          /\ Got(received', notify_list', notify_index', next_param')
      BY <2>2, ContinuedMessage
    <3>2. /\ continued_message_type # INVALID /\ cr_get_active_notify_count > 0
          /\ crcb_access_granted
      BY <2>2 DEF continue_discover_notifications, AtContinued, INVALID
    <3>3. Active(notify_list) # {}
      BY <3>2, FS_EmptySet DEF cr_get_active_notify_count
    <3>4. notify_count = Cardinality(Active(notify_list))
      BY <2>2, <3>1, <3>2, <3>3 DEF TableInv, DiscoveryInv, GoesOn, NothingLeft
    <3>5. PICK left : left = notify_count' - notify_index'
      OBVIOUS
    <3>6. response_buffer'.remaining = left
      BY <3>1, <3>5, Encoded DEF Continue
    <3>7. QED BY <3>1, <3>4, <3>5, <3>6
  <2>3. QED BY <2>1, <2>2
<1>0. notify_count' \in Nat /\ received' \in Seq(Setup)
  BY <1>1 DEF NotifyOK
<1>2. PICK count, index, got, list, p :
        /\ count = notify_count' /\ index = notify_index' /\ got = received'
        /\ list = notify_list' /\ p = next_param'
  OBVIOUS
<1>3. index \in 0 .. count /\ 0 = count - index /\ count \in Nat /\ got \in Seq(Setup)
  BY <1>0, <1>1, <1>2
<1>4. index = count
  BY <1>3
<1>5. count = Cardinality(Active(list)) /\ Got(got, list, Cardinality(Active(list)), p)
  BY <1>1, <1>2, <1>4
<1>6. /\ { got[i] : i \in DOMAIN got } = { list[s] : s \in Active(list) }
      /\ Len(got) = Cardinality(Active(list))
  BY <1>3, <1>5, GotAll
<1>7. QED BY <1>2, <1>6

(* A discovery of everything gives a client, over all its messages, each    *)
(* notification that is enabled once (DiscoveryIsComplete), for every table *)
(* and message size.                                                       *)
THEOREM DiscoveriesAreComplete ==
  ASSUME PresetIsSound
  PROVE  Spec => DiscoveryIsComplete
<1>1. ASSUME TableInv, [Next]_vars
      PROVE  [ \A m \in {response_buffer'} :
                 sent' = <<m>> /\ m.type = "DISCOVER_NOTIFICATIONS" /\ m.remaining = 0
                   /\ m.body # <<>> /\ requested' = <<>> =>
                 /\ { received'[i] : i \in DOMAIN received' }
                      = { notify_list'[s] : s \in Active(notify_list') }
                 /\ Len(received') = Cardinality(Active(notify_list')) ]_vars
  <2>1. CASE UNCHANGED vars
    BY <2>1
  <2>2. CASE Next
    <3>1. SUFFICES ASSUME sent' = <<response_buffer'>>,
                          response_buffer'.type = "DISCOVER_NOTIFICATIONS",
                          response_buffer'.remaining = 0,
                          response_buffer'.body # <<>>, requested' = <<>>
                   PROVE  /\ { received'[i] : i \in DOMAIN received' }
                               = { notify_list'[s] : s \in Active(notify_list') }
                          /\ Len(received') = Cardinality(Active(notify_list'))
      OBVIOUS
    <3>2. \/ discover_notifications_first
          \/ continue_discover_notifications /\ num_remaining_objects # 0
      BY <1>1, <2>2, <3>1, DiscoverySends
    <3>3. QED BY <1>1, <3>1, <3>2, LastMessage
  <2>3. QED BY <1>1, <2>1, <2>2
<1>2. QED BY <1>1, TableIsInductive, PTL DEF Spec, DiscoveryIsComplete

=============================================================================
