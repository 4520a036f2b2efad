---------------------------- MODULE MCPermission ----------------------------
(* Instances of Permission for TLC. *)
EXTENDS Permission

\* A word, and a word with an argument.
SmallSub == {<<"b">>, <<"a", "b">>}

\* A bare rule, a command, a glob, a server.  Prefixes come with the grants.
SmallRules == {Bare("Bash"), Prefix(<<"b">>, FALSE), Glob("Read", {"p"}), Bare("mcp__s")}
=============================================================================
