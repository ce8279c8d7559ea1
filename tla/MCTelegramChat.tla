---------------------------- MODULE MCTelegramChat ----------------------------
(* TelegramChat with two accounts, of which one has two servers, one of them *)
(* with an application, and two updates at a time.                           *)
EXTENDS TelegramChat, TLC

CONSTANTS A, B, tA, tB, s1, s2, app1

MCTokenAccount == [t \in {tA, tB} |-> IF t = tA THEN A ELSE B]
MCServerAccount == [s \in {s1, s2} |-> A]
MCAppServer == [a \in {app1} |-> s1]

Symmetry == Permutations(Dialogues) \cup Permutations(Updates)

=============================================================================
