---------------------------- MODULE MCChatBundle ----------------------------
(* ChatBundle on small instances. *)
EXTENDS ChatBundle, TLC

=============================================================================
