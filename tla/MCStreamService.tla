-------------------------- MODULE MCStreamService --------------------------
(* One content stream and two image streams on a pool of two threads. *)
EXTENDS StreamService
=============================================================================
