------------------------------- MODULE AppMC -------------------------------
(***************************************************************************)
(* App with one to three framebuffers, and enough setups for a failed one  *)
(* to be retried and for a second application to follow the first.         *)
(***************************************************************************)
EXTENDS App

MCFbCounts == {1, 3}
=============================================================================
