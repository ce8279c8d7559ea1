--------------------------- MODULE MCAgentRegistry ---------------------------
(* AgentRegistry on small instances. *)
EXTENDS AgentRegistry, TLC

CONSTANTS t1, t2, w1, w2, w3

\* Two installations share a file, the third has a token of its own.
SharedTokenOf == (w1 :> t1) @@ (w2 :> t1) @@ (w3 :> t2)

\* Slots are interchangeable, and so are the installations that share t1.
Symmetric == Permutations(Requests) \cup Permutations({w1, w2})
=============================================================================
