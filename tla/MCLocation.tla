----------------------------- MODULE MCLocation -----------------------------
(* Two threads, one kind of request beside those for the location, two
   activities. *)
EXTENDS Location
=============================================================================
