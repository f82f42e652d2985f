----------------------------- MODULE MCTorControl -----------------------------
(* One or two processes of a user, and Tor. *)
EXTENDS TorControl
===============================================================================
