-------------------------- MODULE MCNotificationTable --------------------------
(* Small instances of the notification table: three parameters, two slots,  *)
(* one configuration in a message.                                         *)
EXTENDS NotificationTable

Set(id, rate) == [parameter_id |-> id, rate |-> rate]

(* Three for two slots, one of which is preset; and a parameter not in the  *)
(* table, a changed one without any rate, a zero and one behind it.         *)
MCSetups ==
  { <<Set(1, 1), Set(3, 1), Set(2, 1)>>, <<Set(4, 1), Set(2, 0), Off, Set(3, 1)>> }

MCLists == {<<>>, <<2>>, <<1, 2, 3>>}

MCPreset == <<Set(1, 2)>>

(* What the theorems ask of the application.                                *)
ASSUME PresetAssumption == PresetIsSound

=============================================================================
