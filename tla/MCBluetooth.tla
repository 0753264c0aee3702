---------------------------- MODULE MCBluetooth ----------------------------
(* Two calls for two devices, one of which can be spelled in two ways. *)
EXTENDS Bluetooth, TLC

CONSTANTS d1, d2, D1

Resolve == (d1 :> d1) @@ (d2 :> d2) @@ (D1 :> d1)
=============================================================================
