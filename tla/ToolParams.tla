----------------------------- MODULE ToolParams ------------------------------
(***************************************************************************)
(* What becomes of the parameters of a tool run before a job is made of    *)
(* it: the checks of apps/tools/validation.py, and the command that        *)
(* build_execution_payload renders from a command template.                *)
(*                                                                         *)
(* A path is the sequence of its components.  Exactly two slashes at its   *)
(* beginning are one of them, "//", since pathlib keeps them as a root of   *)
(* another kind.  A text is a sequence of tokens: words, the slash, and     *)
(* placeholders; a component of a path may be any token but a slash.  Left  *)
(* out are two slashes at the beginning of a prefix, a slash after the "*"  *)
(* of one, the doubled braces of a template, and words or placeholders that *)
(* are put together from two pieces.                                       *)
(***************************************************************************)

EXTENDS Naturals, Sequences, FiniteSets, SequencesExt

Failed == [ok |-> FALSE]

-----------------------------------------------------------------------------
(* Paths.                                                                  *)

\* canonicalize_path takes the components one by one; ".." at the root stays
\* at the root.
Step(walked, part) ==
    IF part = "." THEN walked
    ELSE IF part # ".." THEN Append(walked, part)
    ELSE IF walked = << >> THEN walked
    ELSE Front(walked)

Canonical(path) == FoldLeft(Step, << >>, path)

\* path_matches_prefix: a last component "*" is dropped; elsewhere it is an
\* ordinary name.
WithoutStar(prefix) ==
    IF prefix # << >> /\ Last(prefix) = "*" THEN Front(prefix) ELSE prefix

Base(prefix) == Canonical(WithoutStar(prefix))

\* A prefix that leads to the root stands for the root and for what begins with
\* two slashes, since "//" is what the path is to begin with then.
Under(path, prefix) ==
    \/ path = Base(prefix)
    \/ Base(prefix) # << >> /\ IsPrefix(Base(prefix), path)
    \/ Base(prefix) = << >> /\ path # << >> /\ Head(path) = "//"

\* The prefix "/*" leaves nothing, which canonicalize_path refuses.
Broken(prefix) == prefix = <<"*">>

\* validate_path_policy, for one path: a broken prefix refuses it as soon as it
\* is looked at, and the allowed ones are looked at until one fits.
PathPermitted(tool, path) ==
    /\ \A prefix \in tool.blocked : ~Broken(prefix) /\ ~Under(path, prefix)
    /\ tool.restricted => \E i \in DOMAIN tool.allowed :
          /\ Under(path, tool.allowed[i])
          /\ \A j \in 1 .. i : ~Broken(tool.allowed[j])

\* Where a path leads, said otherwise: a name is there at the end unless the
\* parents that follow it outnumber the names that follow it, at some point.
Reached(path) ==
    LET Count(i, j, kind) == Cardinality({k \in i .. j : path[k] \in kind})
        Stays(i) == \A j \in i + 1 .. Len(path) :
            Count(i + 1, j, {".."}) <= (j - i) - Count(i + 1, j, {".", ".."})
        Names == {i \in DOMAIN path : path[i] \notin {".", ".."} /\ Stays(i)}
    IN  [n \in 1 .. Cardinality(Names) |->
            path[CHOOSE i \in Names : Cardinality({k \in Names : k <= i}) = n]]

-----------------------------------------------------------------------------
(* Parameters: functions from names to [type, value].                      *)

\* validate_params: no parameter but those of the schema, the required ones
\* present, each of its type; the paths are made canonical.
Accepts(schema, params) ==
    /\ DOMAIN params \subseteq DOMAIN schema.fields
    /\ schema.required \subseteq DOMAIN params
    /\ \A n \in DOMAIN params : params[n].type = schema.fields[n]

\* Mutant: a path is looked at as it was given.
ValidatedAsGiven(params) == params

Validated(params) ==
    [n \in DOMAIN params |->
        IF params[n].type = "path"
        THEN [params[n] EXCEPT !.value = Canonical(@)] ELSE params[n]]

ParamsPermitted(tool, params) ==
    \A n \in DOMAIN params :
        params[n].type = "path" => PathPermitted(tool, params[n].value)

-----------------------------------------------------------------------------
(* Commands: sequences of arguments, each a text.  tool.holes gives the     *)
(* placeholder of each name.                                               *)

\* "/" + "/".join(parts)
PathText(path) ==
    IF path = << >> THEN << "/" >>
    ELSE [i \in 1 .. 2 * Len(path) |-> IF i % 2 = 1 THEN "/" ELSE path[i \div 2]]

ValueText(param) == IF param.type = "path" THEN PathText(param.value) ELSE param.value

\* Every occurrence of the placeholder is replaced, in the values that have been
\* filled in before as well.
Fill(text, hole, value) ==
    FlattenSeq([i \in 1 .. Len(text) |-> IF text[i] = hole THEN value ELSE << text[i] >>])

\* _render_command_arg fills the placeholders in the order of the schema.
Render(tool, text, params) ==
    LET order == tool.schema.order
        filled[k \in 0 .. Len(order)] ==
            IF k = 0 THEN text
            ELSE IF order[k] \notin DOMAIN params THEN filled[k - 1]
            ELSE Fill(filled[k - 1], tool.holes[order[k]], ValueText(params[order[k]]))
    IN  filled[Len(order)]

\* What refuses a rendered argument: a placeholder that is left, a blocked
\* token, or something that looks like a secret.
Unsafe(tool, text) ==
    Range(text) \cap (Range(tool.holes) \cup tool.tokens \cup {"secret"}) # {}

\* build_execution_payload for a command template.
Command(tool, params) ==
    LET argv == [i \in DOMAIN tool.argv |-> Render(tool, tool.argv[i], params)]
    IN  IF \/ tool.argv = << >>
           \/ \E i \in DOMAIN argv : Unsafe(tool, argv[i])
           \/ tool.binaries # {} /\ argv[1] \notin tool.binaries
        THEN Failed
        ELSE [ok |-> TRUE, argv |-> argv]

=============================================================================
