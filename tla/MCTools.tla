------------------------------- MODULE MCTools -------------------------------
(***************************************************************************)
(* The tools and what the model is shown of their work, for TLC.  The      *)
(* parts share no state: a behaviour is one of foreground commands, of     *)
(* background shells, of MCP servers, of searches, of file tools with      *)
(* their journal, or of the requests built from the session, chosen at the *)
(* start; the other parts rest in one initial state.                       *)
(***************************************************************************)
EXTENDS Shell, BgShells, Mcp, Search, Workspace, Context

VARIABLE part
toolVars == <<part, shellVars, bgVars, mcpVars, searchVars, wsVars, ctxVars>>

Init ==
  /\ part \in {"foreground", "background", "mcp", "search", "files", "context"}
  /\ ShellInit /\ BgInit /\ ContextInit
  /\ McpInit    /\ (part # "mcp" => launch.configs = <<>>)
  /\ SearchInit /\ (part # "search" =>
                      \A p \in SearchPaths : searchDisk[p] = [kind |-> "gone", lines |-> <<>>, time |-> 0])
  /\ WsInit     /\ (part # "files" => \A f \in Files : files[f] = Absent)

Next ==
  /\ part' = part
  /\ \/ part = "foreground" /\ ShellNext /\ UNCHANGED <<bgVars, mcpVars, searchVars, wsVars, ctxVars>>
     \/ part = "background" /\ BgNext /\ UNCHANGED <<shellVars, mcpVars, searchVars, wsVars, ctxVars>>
     \/ part = "mcp" /\ McpNext /\ UNCHANGED <<shellVars, bgVars, searchVars, wsVars, ctxVars>>
     \/ part = "search" /\ SearchNext /\ UNCHANGED <<shellVars, bgVars, mcpVars, wsVars, ctxVars>>
     \/ part = "files" /\ WsNext /\ UNCHANGED <<shellVars, bgVars, mcpVars, searchVars, ctxVars>>
     \/ part = "context" /\ ContextNext /\ UNCHANGED <<shellVars, bgVars, mcpVars, searchVars, wsVars>>

Spec == Init /\ [][Next]_toolVars

-----------------------------------------------------------------------------
(* Shell: lists joined by && and by ;, with pushd and popd.                *)
CdOps == {"and", "seq"}

(* Mcp: servers declared twice, disabled, invalid, tombstoned, trusted or  *)
(* not; a name two servers share on the wire.                              *)
E(k, c, u, x, d) == [Entry(k) EXCEPT !.command = c, !.url = u, !.unset = x, !.disabled = d]
Good == E("unsaid", TRUE, FALSE, FALSE, FALSE)
Http == E("http", FALSE, TRUE, FALSE, FALSE)
Two  == E("unsaid", TRUE, TRUE, FALSE, FALSE)
Off  == E("stdio", TRUE, FALSE, FALSE, TRUE)
Just(e) == [n \in Names |-> IF n = "a" THEN e ELSE None]
All(e) == [n \in Names |-> e]

MCLaunches ==
  {[user |-> Just(u), project |-> Just(p), trusted |-> t, strict |-> s, configs |-> <<Just(c)>>,
    readable |-> TRUE] :
     u \in {None, Good}, p \in {None, Null, Good}, t, s \in BOOLEAN, c \in {None, Null, Http, Two, Off}}
  \cup {[user |-> All(Good), project |-> All(None), trusted |-> FALSE, strict |-> FALSE,
         configs |-> <<Just(Http)>>, readable |-> TRUE],
        [user |-> All(None), project |-> All(None), trusted |-> FALSE, strict |-> FALSE,
         configs |-> <<>>, readable |-> FALSE]}

MCOffers == [n \in Names |-> <<"x", "y">>]
MCWire == [p \in Names \X {"x", "y"} |-> IF p[1] = "b" /\ p[2] = "x" THEN "w" ELSE p[1]]

(* Search: files with no, one and two matching lines, at the start and     *)
(* later, adjoining and apart; caps on both sides of what the answers need. *)
SomeTexts == {<<>>, <<"none", "whole", "whole">>, <<"whole", "none", "none", "twice">>}
SomeRequests ==
  [tool : {"Grep"}, mode : {"content", "files", "count"}, pat : {"plain"}, before : {0, 1}, after : {0, 1},
   limit : {-1, 1}, cap : {0, 3}]
  \cup [tool : {"Grep"}, mode : {"content", "files", "count"}, pat : {"start", "span"}, before : {0}, after : {0, 1},
        limit : {-1, 1}, cap : {0, 3}]
  \cup [tool : {"Glob"}, cap : {0, 1}]
  \cup [tool : {"List"}, cap : {0, 1}, bytes : {0, 2}]
  \cup [tool : {"ReadMany"}, parts : {<<>>, <<1, 2, 1>>, <<2, 1, 2>>}, limit : {0, 1}, cap : {9, 16}]
  \cup [tool : {"GrepMany"}, mode : {"content"}, pat : {"start"}, before : {0}, after : {1}, limit : {-1},
        parts : {<<>>, <<1, 1>>, <<2, 1, 2>>}, cap : {9, 16}]

(* Context: a summary of three units and messages of two, so that it       *)
(* overflows after two turns and a second compaction meets the marker of   *)
(* the first.                                                              *)
SomePrompts == {<<"w", "w", "w">>, <<"@", "w">>, <<"out">>}
=============================================================================
