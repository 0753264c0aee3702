---------------------------- MODULE MCCallQueue ----------------------------
(* A small instance of CallQueue: two Java threads, two synchronous calls
   and an asynchronous one, which the event loop thread may make as well. *)
EXTENDS CallQueue, TLC
=============================================================================
