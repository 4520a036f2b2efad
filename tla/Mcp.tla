-------------------------------- MODULE Mcp --------------------------------
(* MCP servers (rc-mcp, rc-cli mcp.rs): which entries of the layered settings   *)
(* start, connecting to all of them concurrently, the tools they contribute,    *)
(* calls over a connection that may be gone, and the two ways of stopping them: *)
(* the orderly shutdown of main and the signal task that races it.              *)
EXTENDS Naturals, Sequences, FiniteSets, SequencesExt

CONSTANTS Names,       \* server names
          BadNames,    \* those validate_name refuses
          Launches,    \* the launches considered: [user, project, trusted, strict,
                       \* configs, readable: every --mcp-config is a file or JSON with the object]
          Offers,      \* Offers[n]: the remote tools server n lists, a sequence
          Wire,        \* Wire[<<n, t>>]: tool_wire_name, which need not be injective
          MaxToolCalls     \* bound: calls made in a session

VARIABLES launch, hub, exit
\* hub: what McpHub and its handles hold, per name
\*   phase[n]  connect_one's progress     st[n]     ServerState, or "none"
\*   closed[n] the AtomicBool             peer[n]   a clone of the live peer is stored
\*   service[n] the connection object     child[n]  the handle owns the direct child
\*   pgid[n]   the tree was not killed    alive[n]  the processes of the tree
\*   link[n]   the transport is up        stop      where each shutdown call stands
VARIABLES phase, st, closed, peer, service, child, pgid, alive, link, stop, tools, inflight, toolCalls
mcpVars == <<launch, hub, exit, phase, st, closed, peer, service, child, pgid, alive, link, stop,
             tools, inflight, toolCalls>>
handle == <<st, closed, peer, service, child, pgid, alive, link>>

-----------------------------------------------------------------------------
(* collect and parse_servers                                                    *)
Entry(k) == [kind |-> k, command |-> FALSE, url |-> FALSE, unset |-> FALSE, disabled |-> FALSE,
             wellformed |-> TRUE]
None == Entry("none")     \* the source has no entry of that name
Null == Entry("null")     \* the source removes it

Kind(e) ==
  CASE e.kind # "unsaid" -> e.kind
    [] e.kind = "unsaid" /\ e.command /\ ~e.url -> "stdio"
    [] e.kind = "unsaid" /\ ~e.command /\ e.url -> "http"
    [] OTHER -> "ambiguous"

parse_server(n, e) ==
  CASE n \in BadNames \/ ~e.wellformed -> "invalid"
    [] n \notin BadNames /\ e.wellformed /\ e.disabled -> "off"
    [] OTHER -> IF /\ Kind(e) \in {"stdio", "http"}
                   /\ e.command = (Kind(e) = "stdio")
                   /\ e.url = (Kind(e) = "http")
                   /\ ~e.unset
                THEN Kind(e) ELSE "invalid"

\* "other": a transport type the code does not know
Entries == [kind : {"none", "null", "unsaid", "stdio", "http", "other"}, command : BOOLEAN, url : BOOLEAN,
            unset : BOOLEAN, disabled : BOOLEAN, wellformed : BOOLEAN]
ASSUME McpAssumption ==
  /\ IsFiniteSet(Names) /\ \A n \in Names : Offers[n] \in Seq(Range(Offers[n]))
  /\ \A l \in Launches :
       /\ l.user \in [Names -> Entries] /\ l.project \in [Names -> Entries]
       /\ l.configs \in Seq([Names -> Entries])
       /\ l.strict \in BOOLEAN /\ l.trusted \in BOOLEAN

layer(into, servers) ==
  [n \in Names |-> CASE servers[n] = None -> into[n]
                     [] servers[n] = Null -> None
                     [] OTHER -> servers[n]]

Nothing == [n \in Names |-> None]

collect(l) ==
  LET base == CASE l.strict -> Nothing
                [] ~l.strict /\ l.trusted -> layer(layer(Nothing, l.user), l.project)
                [] OTHER -> layer(Nothing, l.user)
      over[i \in 0 .. Len(l.configs)] == IF i = 0 THEN base ELSE layer(over[i - 1], l.configs[i])
      raw  == over[Len(l.configs)]
  IN [raw |-> raw,
      skipped |-> IF l.strict \/ l.trusted THEN {}
                  ELSE {n \in Names : l.project[n] \notin {None, Null} /\ raw[n] = None}]

Outcome(c, n) == IF c.raw[n] = None THEN "off" ELSE parse_server(n, c.raw[n])

-----------------------------------------------------------------------------
Who == {"connect", "main", "signal"}
HubIdle == [w \in Who |-> [n \in Names |-> "no"]]

McpInit ==
  /\ launch \in Launches /\ hub = "collect" /\ exit = "no"
  /\ phase = [n \in Names |-> "no"] /\ st = [n \in Names |-> "none"]
  /\ closed = [n \in Names |-> FALSE] /\ peer = closed /\ service = closed /\ child = closed
  /\ pgid = closed /\ link = closed /\ alive = [n \in Names |-> {}]
  /\ stop = HubIdle /\ tools = <<>> /\ inflight = "none" /\ toolCalls = 0

\* mcp::collect: an unreadable config ends the launch before anything starts; entries that
\* did not parse and untrusted project entries become handles that say so
Collect ==
  /\ hub = "collect"
  /\ \/ /\ ~launch.readable
        /\ hub' = "error" /\ exit' = "main"
        /\ UNCHANGED <<phase, st>>
     \/ /\ launch.readable
        /\ LET c == collect(launch) IN
             /\ phase' = [n \in Names |-> IF Outcome(c, n) \in {"stdio", "http"}
                                          THEN Outcome(c, n) ELSE "no"]
             /\ st' = [n \in Names |-> CASE Outcome(c, n) \in {"stdio", "http"} -> "Connected"
                                         [] Outcome(c, n) = "invalid" -> "Failed"
                                         [] n \in c.skipped -> "Skipped"
                                         [] OTHER -> "none"]
        /\ hub' = "connect" /\ UNCHANGED exit
  /\ UNCHANGED <<launch, closed, peer, service, child, pgid, alive, link, stop, tools, inflight, toolCalls>>

\* process::spawn and start_tree: the child leads a group of its own
SpawnServer(n) ==
  /\ hub = "connect" /\ exit = "no" /\ phase[n] = "stdio"
  /\ phase' = [phase EXCEPT ![n] = "spawned"]
  /\ child' = [child EXCEPT ![n] = TRUE] /\ pgid' = [pgid EXCEPT ![n] = TRUE]
  /\ alive' = [alive EXCEPT ![n] = {"leader"}] /\ link' = [link EXCEPT ![n] = TRUE]
  /\ UNCHANGED <<launch, hub, exit, st, closed, peer, service, stop, tools, inflight, toolCalls>>

\* a launcher starts the real server in its group
ServerForks(n) ==
  /\ exit = "no" /\ "leader" \in alive[n] /\ "member" \notin alive[n]
  /\ alive' = [alive EXCEPT ![n] = @ \cup {"member"}]
  /\ UNCHANGED <<launch, hub, exit, phase, st, closed, peer, service, child, pgid, link, stop,
                 tools, inflight, toolCalls>>

\* the direct child exits by itself, or an http server goes away: the transport closes
ServerCrash(n) ==
  /\ exit = "no" /\ link[n]
  /\ alive' = [alive EXCEPT ![n] = @ \ {"leader"}] /\ link' = [link EXCEPT ![n] = FALSE]
  /\ UNCHANGED <<launch, hub, exit, phase, st, closed, peer, service, child, pgid, stop,
                 tools, inflight, toolCalls>>

\* initialize and list_all_tools answered within the startup timeout
Started(n) ==
  /\ hub = "connect" /\ exit = "no"
  /\ \/ phase[n] = "spawned" /\ link[n]
     \/ phase[n] = "http"
  /\ phase' = [phase EXCEPT ![n] = "up"]
  /\ peer' = [peer EXCEPT ![n] = TRUE] /\ service' = [service EXCEPT ![n] = TRUE]
  /\ link' = [link EXCEPT ![n] = TRUE]
  /\ UNCHANGED <<launch, hub, exit, st, closed, child, pgid, alive, stop, tools, inflight, toolCalls>>

\* the attempt failed or timed out: Failed is recorded, then handle.shutdown() runs
StartFails(n) ==
  /\ hub = "connect" /\ exit = "no" /\ phase[n] \in {"stdio", "http", "spawned"}
  /\ phase' = [phase EXCEPT ![n] = "failing"] /\ st' = [st EXCEPT ![n] = "Failed"]
  /\ stop' = [stop EXCEPT !["connect"][n] = "begin"]
  /\ UNCHANGED <<launch, hub, exit, closed, peer, service, child, pgid, alive, link, tools, inflight, toolCalls>>

\* the connect task panics: its handle is dropped, which kills the tree; a fresh one says Failed
Panics(n) ==
  /\ hub = "connect" /\ exit = "no" /\ phase[n] \in {"stdio", "http", "spawned"}
  /\ phase' = [phase EXCEPT ![n] = "up"] /\ st' = [st EXCEPT ![n] = "Failed"]
  /\ alive' = [alive EXCEPT ![n] = {}] /\ pgid' = [pgid EXCEPT ![n] = FALSE]
  /\ child' = [child EXCEPT ![n] = FALSE] /\ link' = [link EXCEPT ![n] = FALSE]
  /\ UNCHANGED <<launch, hub, exit, closed, peer, service, stop, tools, inflight, toolCalls>>

FailureSettled(n) ==
  /\ exit = "no" /\ phase[n] = "failing" /\ stop["connect"][n] = "done"
  /\ phase' = [phase EXCEPT ![n] = "up"]
  /\ UNCHANGED <<launch, hub, exit, handle, stop, tools, inflight, toolCalls>>

\* the tools in connection order, an already taken wire name skipped
Listed ==
  LET ns == SetToSeq(Names)
      offered(n) == IF st[n] = "Connected" /\ phase[n] = "up"
                    THEN [j \in DOMAIN Offers[n] |-> [server |-> n, remote |-> Offers[n][j],
                                                      wire |-> Wire[<<n, Offers[n][j]>>]]]
                    ELSE <<>>
      upto[i \in 0 .. Len(ns)] == IF i = 0 THEN <<>> ELSE upto[i - 1] \o offered(ns[i])
  IN upto[Len(ns)]

registered(l) ==
  LET kept[i \in 0 .. Len(l)] ==
        IF i = 0 THEN <<>>
        ELSE IF \E t \in Range(kept[i - 1]) : t.wire = l[i].wire THEN kept[i - 1]
        ELSE Append(kept[i - 1], l[i])
  IN kept[Len(l)]

\* McpHub::connect returns when every task has joined; stop_on_signal is installed after it
Connected ==
  /\ hub = "connect" /\ exit = "no" /\ \A n \in Names : phase[n] \in {"no", "up"}
  /\ hub' = "session" /\ tools' = registered(Listed)
  /\ UNCHANGED <<launch, exit, phase, handle, stop, inflight, toolCalls>>

-----------------------------------------------------------------------------
(* Calls, which run one at a time                                               *)
\* Mutant of MarkClosed: only the state shown by /mcp is changed
MarkClosedShown(n) ==
  /\ st' = [st EXCEPT ![n] = IF @ = "Connected" THEN "Closed" ELSE @]
  /\ UNCHANGED closed

MarkClosed(n) ==
  /\ closed' = [closed EXCEPT ![n] = TRUE]
  /\ st' = [st EXCEPT ![n] = IF @ = "Connected" THEN "Closed" ELSE @]

HasPeer(n) == ~closed[n] /\ peer[n]

\* the call finds no peer: it is answered with unavailable_reason
CallRefused(t) ==
  /\ hub \in {"session", "stopping"} /\ exit = "no" /\ inflight = "none" /\ toolCalls < MaxToolCalls
  /\ ~HasPeer(t.server)
  /\ MarkClosed(t.server) /\ toolCalls' = toolCalls + 1
  /\ UNCHANGED <<launch, hub, exit, phase, peer, service, child, pgid, alive, link, stop, tools, inflight>>

CallSend(t) ==
  /\ hub \in {"session", "stopping"} /\ exit = "no" /\ inflight = "none" /\ toolCalls < MaxToolCalls
  /\ HasPeer(t.server)
  /\ inflight' = t.server /\ toolCalls' = toolCalls + 1
  /\ UNCHANGED <<launch, hub, exit, phase, handle, stop, tools>>

\* an answer, an error answer, the tool timeout or the turn's cancellation: nothing is recorded
CallAnswered ==
  /\ exit = "no" /\ inflight # "none"
  /\ inflight' = "none"
  /\ UNCHANGED <<launch, hub, exit, phase, handle, stop, tools, toolCalls>>

\* the transport is gone, or the peer went while the call failed
CallLost ==
  /\ exit = "no" /\ inflight # "none" /\ (~link[inflight] \/ ~HasPeer(inflight))
  /\ MarkClosed(inflight) /\ inflight' = "none"
  /\ UNCHANGED <<launch, hub, exit, phase, peer, service, child, pgid, alive, link, stop, tools, toolCalls>>

-----------------------------------------------------------------------------
(* Stopping: ServerHandle::shutdown, run by a failed start, by main and by the signal task *)
\* kill_tree: the group is signalled once, and every process in it dies
\* Mutant of KillTree: only the direct child is killed
KillLeaderOnly(n) ==
  /\ alive' = [alive EXCEPT ![n] = IF pgid[n] THEN @ \ {"leader"} ELSE @]
  /\ pgid' = [pgid EXCEPT ![n] = FALSE]

KillTree(n) ==
  /\ alive' = [alive EXCEPT ![n] = IF pgid[n] THEN {} ELSE @]
  /\ pgid' = [pgid EXCEPT ![n] = FALSE]

\* peer and closed, then the service lock, which a concurrent shutdown holds while it cancels
ShutClose(w, n) ==
  /\ exit = "no" /\ stop[w][n] = "begin"
  /\ \A v \in Who : stop[v][n] # "cancel"
  /\ peer' = [peer EXCEPT ![n] = FALSE] /\ closed' = [closed EXCEPT ![n] = TRUE]
  /\ service' = [service EXCEPT ![n] = FALSE]
  /\ stop' = [stop EXCEPT ![w][n] = IF service[n] THEN "cancel" ELSE "take"]
  /\ UNCHANGED <<launch, hub, exit, phase, st, child, pgid, alive, link, tools, inflight, toolCalls>>

\* service.cancel() within SHUTDOWN_GRACE, or given up: the pipes close either way
ShutCancel(w, n) ==
  /\ exit = "no" /\ stop[w][n] = "cancel"
  /\ link' = [link EXCEPT ![n] = FALSE] /\ stop' = [stop EXCEPT ![w][n] = "take"]
  /\ UNCHANGED <<launch, hub, exit, phase, st, closed, peer, service, child, pgid, alive, tools, inflight, toolCalls>>

\* the child is taken by one shutdown only and given SHUTDOWN_GRACE to exit
ShutTake(w, n) ==
  /\ exit = "no" /\ stop[w][n] = "take"
  /\ child' = [child EXCEPT ![n] = FALSE]
  /\ stop' = [stop EXCEPT ![w][n] = IF child[n] THEN "wait" ELSE "kill"]
  /\ alive' \in {alive, [alive EXCEPT ![n] = IF child[n] THEN @ \ {"leader"} ELSE @]}
  /\ UNCHANGED <<launch, hub, exit, phase, st, closed, peer, service, pgid, link, tools, inflight, toolCalls>>

\* kill_tree, and for the taker start_kill and the reaping wait
ShutKill(w, n) ==
  /\ exit = "no" /\ stop[w][n] \in {"wait", "kill"}
  /\ KillTree(n)
  /\ link' = [link EXCEPT ![n] = FALSE] /\ stop' = [stop EXCEPT ![w][n] = "done"]
  /\ UNCHANGED <<launch, hub, exit, phase, st, closed, peer, service, child, tools, inflight, toolCalls>>

Handles == {n \in Names : st[n] # "none"}
BeginShutdown(w) == stop' = [stop EXCEPT ![w] = [n \in Names |-> IF n \in Handles THEN "begin" ELSE "done"]]

\* the session ended: mcp_hub.shutdown() before main returns
MainStops ==
  /\ hub = "session" /\ exit = "no"
  /\ hub' = "stopping" /\ BeginShutdown("main")
  /\ UNCHANGED <<launch, exit, phase, handle, tools, inflight, toolCalls>>

\* SIGINT, SIGTERM or SIGHUP, caught by stop_on_signal while it is installed
Signal ==
  /\ hub \in {"session", "stopping"} /\ exit = "no" /\ Handles # {}
  /\ \A n \in Names : stop["signal"][n] = "no"
  /\ BeginShutdown("signal")
  /\ UNCHANGED <<launch, hub, exit, phase, handle, tools, inflight, toolCalls>>

DropHub == alive' = [n \in Names |-> IF pgid[n] THEN {} ELSE alive[n]] /\ pgid' = [n \in Names |-> FALSE]

\* main returns after its shutdown, or on an error without one: dropping the handles kills the trees
MainReturns ==
  /\ exit = "no"
  /\ \/ hub = "session"
     \/ hub = "stopping" /\ \A n \in Names : stop["main"][n] = "done"
  /\ exit' = "main" /\ DropHub
  /\ UNCHANGED <<launch, hub, phase, st, closed, peer, service, child, link, stop, tools, inflight, toolCalls>>

\* the signal task's shutdown finished or spent its 3 seconds; kill_now, then process::exit
SignalExits ==
  /\ exit = "no" /\ \A n \in Names : stop["signal"][n] # "no"
  /\ exit' = "signal" /\ DropHub
  /\ UNCHANGED <<launch, hub, phase, st, closed, peer, service, child, link, stop, tools, inflight, toolCalls>>

\* killed outright, or signalled before stop_on_signal was installed: PR_SET_PDEATHSIG
\* takes the direct children only
Killed ==
  /\ exit = "no" /\ hub # "collect"
  /\ exit' = "killed" /\ alive' = [n \in Names |-> alive[n] \ {"leader"}]
  /\ UNCHANGED <<launch, hub, phase, st, closed, peer, service, child, pgid, link, stop, tools, inflight, toolCalls>>

McpNext ==
  \/ Collect \/ Connected \/ MainStops \/ Signal \/ MainReturns \/ SignalExits \/ Killed
  \/ CallAnswered \/ CallLost
  \/ \E n \in Names : \/ SpawnServer(n) \/ ServerForks(n) \/ ServerCrash(n) \/ Started(n) \/ StartFails(n)
                      \/ Panics(n) \/ FailureSettled(n)
  \/ \E t \in Range(tools) : CallRefused(t) \/ CallSend(t)
  \/ \E w \in Who, n \in Names : \/ ShutClose(w, n) \/ ShutCancel(w, n)
                                 \/ ShutTake(w, n) \/ ShutKill(w, n)
McpSpec == McpInit /\ [][McpNext]_mcpVars

-----------------------------------------------------------------------------
(* Once rc has returned or left through its signal task, and as soon as a failed start   *)
(* has been given up, no process of any server's tree is left, launcher children         *)
(* included (ServerHandle::shutdown, kill_now, ProcessTree's Drop).                      *)
NoServerOutlives ==
  \A n \in Names : \/ exit \in {"main", "signal"}
                   \/ st[n] = "Failed" /\ phase[n] = "up"
                   => alive[n] = {}

(* A server is started only for an entry the user wrote last or a trusted project wrote: *)
(* an untrusted project's entry never starts nor removes anything, and --strict-mcp-config *)
(* leaves the --mcp-config entries alone (collect, layer).                               *)
LastSaid(l, n) ==
  LET said == <<IF l.strict THEN None ELSE l.user[n],
                IF l.strict \/ ~l.trusted THEN None ELSE l.project[n]>>
              \o [i \in DOMAIN l.configs |-> l.configs[i][n]]
      at   == {i \in DOMAIN said : said[i] # None}
  IN IF at = {} THEN None ELSE said[CHOOSE i \in at : \A j \in at : j <= i]
StartsWhatWasAsked ==
  hub = "connect" => \A n \in Names :
    LET e == LastSaid(launch, n) IN
      /\ phase[n] # "no" <=> e \notin {None, Null} /\ parse_server(n, e) \in {"stdio", "http"}
      /\ st[n] = "none" => e \in {None, Null} \/ parse_server(n, e) = "off"

(* Every server that runs was asked for, and none runs on after the program.             *)
ServersAccounted == StartsWhatWasAsked /\ NoServerOutlives

(* A wire name the model calls leads to one tool of one server, and a server whose       *)
(* connection was seen closed is not sent another request (registration in               *)
(* McpHub::connect, mark_closed).                                                        *)
CallsReachOneServer ==
  [][/\ \A t, u \in Range(tools') : t.wire = u.wire => t = u
     /\ inflight' # inflight /\ inflight' # "none" => st[inflight'] = "Connected"]_mcpVars
=============================================================================
