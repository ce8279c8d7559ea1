---------------------------- MODULE MCToolBuilder ----------------------------
(* ToolBuilder with two proposals and two administrators: a request for a  *)
(* command with a secret in it or for a handler that exists, and a form     *)
(* that enters a command with a shell operator and an active policy.        *)
EXTENDS ToolBuilder, TLC

Command ==
    [type |-> "command_template", handler |-> "unknown", argv |-> "plain",
     binary |-> "allowlisted", status |-> "draft", policy |-> "inactive"]
MCRequested ==
    {[Command EXCEPT !.argv = "secret", !.status = "enabled"],
     [Command EXCEPT !.type = "runtime_handler", !.handler = "known"]}
MCEntered == {[Command EXCEPT !.argv = "shell", !.policy = "active"]}
Symmetry == Permutations(Proposals) \cup Permutations(Editors)
=============================================================================
