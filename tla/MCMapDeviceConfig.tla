------------------------- MODULE MCMapDeviceConfig --------------------------
(* Model checking of MapDeviceConfig: two phones, one of them with two     *)
(* message access services.                                                *)
EXTENDS MapDeviceConfig, TLC

CONSTANTS d1, d2, r1, r2, r3

MCDevices  == {d1, d2}
MCRecords  == {r1, r2, r3}
MCDeviceOf == r1 :> d1 @@ r2 :> d1 @@ r3 :> d2

==============================================================================
