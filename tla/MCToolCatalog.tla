---------------------------- MODULE MCToolCatalog ----------------------------
(* ToolCatalog with one run of a command that searches a log file.  The      *)
(* allowed prefixes: the files of a directory; the root; a blocked file; a   *)
(* broken prefix.  The parameters: good ones; a detour to a blocked file,    *)
(* one to an allowed file and one to the root; two slashes, and how to lose  *)
(* them; a path that is not allowed; words that hold a placeholder, a        *)
(* blocked token or a secret; paths that hold the placeholder of an earlier, *)
(* of a later and of no parameter; a missing, an unknown and a mistyped      *)
(* parameter; none.                                                          *)
EXTENDS ToolCatalog

MCForm ==
    [schema |-> [fields |-> [word |-> "string", file |-> "path", name |-> "string"],
                 required |-> {"file"}, order |-> <<"word", "file", "name">>],
     blocked |-> {<<"etc", "shadow">>, <<"log", "root", "..", "private">>},
     allowed |-> << <<"log", "*">>, <<"..">>, <<"etc", "shadow">>, <<"*">> >>,
     restricted |-> TRUE,
     argv |-> << <<"grep">>, <<"{word}">>, <<"{file}">>, <<"as", "{name}">> >>,
     holes |-> [word |-> "{word}", file |-> "{file}", name |-> "{name}", z |-> "{z}"],
     tokens |-> {";"}, binaries |-> {<<"grep">>}]

Text(tokens) == [type |-> "string", value |-> tokens]
Path(parts) == [type |-> "path", value |-> parts]
With(parts, tokens) == [file |-> Path(parts), word |-> Text(tokens), name |-> Text(<<"x">>)]
Away == <<"..", "/", "..", "/", "etc", "/", "shadow">>

MCParams ==
    {With(<<"log", "a">>, <<"x">>),
     With(<<"log", "..", "..", "etc", ".", "shadow">>, <<"x">>),
     With(<<"..", "etc", "..", "log", "b", "..", "a">>, <<"x">>),
     With(<<"log", "..">>, <<"x">>),
     With(<<"//", "etc", "shadow">>, <<"x">>), With(<<"//", "..", "log">>, <<"x">>),
     With(<<"log", "private">>, <<"x">>), With(<<"srv">>, <<"x">>),
     With(<<"log">>, <<"{file}">>), With(<<"log">>, <<"{z}">>),
     With(<<"log">>, <<";">>), With(<<"log">>, <<"secret">>),
     With(<<"log", "{word}">>, Away), With(<<"log", "{z}">>, <<"x">>),
     [With(<<"log", "{name}">>, <<"x">>) EXCEPT !.name = Text(Away)],
     [With(<<"log", "{name}", "..", "a">>, <<"{name}">>) EXCEPT !.name = Text(Away)],
     [word |-> Text(<<"x">>)],
     [file |-> Path(<<"log">>), depth |-> Text(<<"x">>)],
     [file |-> Text(<<"x">>)],
     [n \in {} |-> n]}
=============================================================================
