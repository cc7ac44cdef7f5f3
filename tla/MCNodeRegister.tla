--------------------------- MODULE MCNodeRegister ---------------------------
(* Instances of NodeRegister for TLC: requests r1, r2, ... of devices c1,  *)
(* c2, ...; the second request of a device is one after a reboot.          *)
EXTENDS NodeRegister

CONSTANTS r1, r2, r3, r4, c1, c2, c3

(* Three devices, one request each. *)
Once == [r \in {r1, r2, r3} |-> CASE r = r1 -> c1 [] r = r2 -> c2 [] r = r3 -> c3]

(* Three devices and one that rebooted. *)
OneReboot == [r \in {r1, r2, r3, r4} |->
                CASE r \in {r1, r4} -> c1 [] r = r2 -> c2 [] r = r3 -> c3]
=============================================================================
