------------------------- MODULE MCNotificationCheck -------------------------
(* A small instance of the timers: ticks that wrap at four, just before a   *)
(* run ends, words of two bits, two slots for an integer and a byte string, *)
(* and a preset for a parameter that cannot be read.  A parameter changes   *)
(* its slot when the preset or the other parameter has taken it.            *)
EXTENDS NotificationCheck

MCKind == [p \in 1 .. 3 |-> CASE p = 1 -> "int" [] p = 2 -> "bytes" [] OTHER -> "uint"]

Setting(p, min, max, delta) ==
  [parameter_id |-> p, minimum_period |-> min, maximum_period |-> max, minimum_delta |-> delta]

MCConfigs == {Setting(1, 1, 2, 2), Setting(2, 2, 0, 1)}

MCPreset == <<Setting(3, 2, 0, 1)>>

=============================================================================
