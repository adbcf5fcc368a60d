--------------------------- MODULE MCDeviceServices ---------------------------
(* A small instance of the WiFi, time and stream services.  A list of five  *)
(* access points takes three messages.  Five streams are continued, in a    *)
(* build without a command line; one is too few to be described.  The third  *)
(* device overrides no callback.  Of the client's version the first two     *)
(* numbers can be read, and the first does not fit.                        *)
EXTENDS DeviceServices

MCDevices ==
  { [build |-> Services \ {"CLI"}, streams |-> 5, overridden |-> Services],
    [build |-> Services \ {"WIFI", "NOTIFY"}, streams |-> 1, overridden |-> Services],
    [build |-> Services, streams |-> 0, overridden |-> {}] }

MCScans == {<<>>, <<1, 2, 3, 4, 5>>}

MCVersions == {<<256, 2>>}

=============================================================================
