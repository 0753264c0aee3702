---------------------------- MODULE MCEngineLife ----------------------------
EXTENDS EngineLife, TLC

CONSTANTS q1, d1, r1, r2, h1

Names ==
    (q1 :> "Control_getDeviceInfos") @@ (d1 :> "Control_createDevice") @@
    (r1 :> "Assistant_onready") @@ (r2 :> "Assistant_onready") @@
    (h1 :> "Assistant_onhandlecommand")
=============================================================================
