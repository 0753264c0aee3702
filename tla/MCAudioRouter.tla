--------------------------- MODULE MCAudioRouter ---------------------------
(* Two executor threads and the event loop thread, three proxies. *)
EXTENDS AudioRouter, TLC

Symmetry == Permutations(Users) \cup Permutations(Proxies)
=============================================================================
