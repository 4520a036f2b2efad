------------------------------ MODULE HostProofs ----------------------------
(***************************************************************************)
(* Safety of the programs around the agent loop: the session loop, for any *)
(* sessions, modes and keys and any number of things the user does; the    *)
(* session file, for any number of turns and crashes; the layers and pages *)
(* of the settings; what a headless run leaves behind; the screen, for any *)
(* calls, histories and heights, whatever is streamed, folded, clicked,    *)
(* dragged and scrolled.                                                   *)
(***************************************************************************)
EXTENDS Launcher, SessionLog, Settings, Headless, Transcript, SequenceTheorems, FiniteSetTheorems, WellFoundedInduction, TLAPS

-----------------------------------------------------------------------------
(* The launcher.  The mode a session is in is told by its file, or, while  *)
(* it has none, by the header its first turn will write; what the user     *)
(* asked for last reaches the engine by the action channel, and what the   *)
(* engine enforces reaches the session by the command channel.             *)

ModesEver == AgentModes \cup {Nil}
FileRecs == [mode : AgentModes, notes : Seq(AgentModes), turns : Nat]
Sessions == [id : SessionIds \cup {Nil}, resumed : BOOLEAN, header : ModesEver, turns : Nat, mode : ModesEver]
Items == AgentModes \cup {"run"}
Written == {i \in SessionIds : files[i] # <<>>}

LaunchTypes ==
  /\ files \in [SessionIds -> {<<>>} \cup {<<f>> : f \in FileRecs}]
  /\ order \in Seq(SessionIds) /\ chose \in [SessionIds -> ModesEver] /\ default \in AgentModes
  /\ cur \in Sessions
RtTypes ==
  /\ acts \in Seq(Items) /\ cmds \in Seq(Items) /\ held \in Items \cup {Nil}
  /\ changed \in Seq(AgentModes)

\* What is listed or written last has a file.
Listed1 ==
  /\ \A k \in 1..Len(order) : order[k] \in Written
  /\ listing # <<>> => listing[1] \subseteq Written

\* A file loads in the mode its session is in, or was left in.
FilesTell ==
  \A i \in Written : LoadedMode(files[i][1]) = IF InRuntime /\ i = cur.id THEN cur.mode ELSE chose[i]

\* A session without a file will write the mode it is in.
SessionRuns ==
  InRuntime => /\ cur.id \in SessionIds /\ cur.mode \in AgentModes /\ engine \in AgentModes /\ bar \in AgentModes
               /\ files[cur.id] = <<>> => cur.header = cur.mode

\* The queue q takes its reader from one mode to another.
Runs(q, k) == \A l \in k..Len(q) : q[l] = "run"
Leads(q, from, to) ==
  \/ Runs(q, 1) /\ to = from
  \/ \E k \in 1..Len(q) : q[k] \in AgentModes /\ to = q[k] /\ Runs(q, k + 1)

Chain ==
  InRuntime => /\ held \in AgentModes => held = engine
               /\ held \notin AgentModes => Leads(cmds, cur.mode, engine)
               /\ Leads(acts, engine, chose[cur.id])

\* The bar shows what the engine enforces, or will hear of it.
HasMode(q) == \E k \in 1..Len(q) : q[k] \in AgentModes
BarTells ==
  InRuntime => /\ changed # <<>> => Last(changed) = engine
               /\ bar = engine \/ changed # <<>> \/ stale \/ HasMode(acts)

OutcomeFits ==
  loop = "leaving" => /\ outcome.do \in {"quit", "resume", "new", "reload"}
                      /\ outcome.do = "resume" => outcome.id \in Written
                      /\ outcome.do = "new" => Unused # {}

LaunchInv ==
  LaunchTypes /\ RtTypes /\ Listed1 /\ FilesTell /\ SessionRuns /\ Chain /\ BarTells /\ OutcomeFits

LEMMA LeadsNothing == ASSUME NEW m PROVE Leads(<<>>, m, m)
  BY DEF Leads, Runs

LEMMA NoModeRun == "run" \notin AgentModes /\ Nil \notin AgentModes /\ Nil \notin Items
  BY LaunchAssumption DEF Items, Nil

LEMMA LeadsAppend ==
  ASSUME NEW q \in Seq(Items), NEW from, NEW to, NEW x \in Items
  PROVE  /\ x \in AgentModes => Leads(Append(q, x), from, x)
         /\ x = "run" /\ Leads(q, from, to) => Leads(Append(q, x), from, to)
<1> DEFINE r == Append(q, x)
<1>1. r \in Seq(Items) /\ Len(r) = Len(q) + 1 /\ Len(q) \in Nat /\ r[Len(r)] = x /\ \A k \in 1..Len(q) : r[k] = q[k]
  OBVIOUS
<1> HIDE DEF r
<1>2. ASSUME x \in AgentModes PROVE Leads(r, from, x)
  <2>1. Len(r) \in 1..Len(r) /\ Runs(r, Len(r) + 1)
    BY <1>1 DEF Runs
  <2>2. QED
    BY <1>1, <1>2, <2>1 DEF Leads
<1>3. ASSUME x = "run", Leads(q, from, to) PROVE Leads(r, from, to)
  <2>1. ASSUME NEW k \in Nat, Runs(q, k), k >= 1 PROVE Runs(r, k)
    <3>1. ASSUME NEW l \in k..Len(r) PROVE r[l] = "run"
      <4>1. CASE l = Len(r)
        BY <1>1, <1>3, <4>1
      <4>2. CASE l # Len(r)
        <5>1. l \in k..Len(q) /\ l \in 1..Len(q)
          BY <1>1, <2>1, <4>2
        <5>2. QED
          BY <1>1, <2>1, <5>1 DEF Runs
      <4>3. QED
        BY <4>1, <4>2
    <3>2. QED
      BY <3>1 DEF Runs
  <2>2. CASE Runs(q, 1) /\ to = from
    BY <2>1, <2>2 DEF Leads
  <2>3. CASE \E k \in 1..Len(q) : q[k] \in AgentModes /\ to = q[k] /\ Runs(q, k + 1)
    <3>1. PICK k \in 1..Len(q) : q[k] \in AgentModes /\ to = q[k] /\ Runs(q, k + 1)
      BY <2>3
    <3>2. k \in 1..Len(r) /\ k + 1 \in Nat /\ k + 1 >= 1 /\ r[k] = q[k]
      BY <1>1
    <3>3. QED
      BY <2>1, <3>1, <3>2 DEF Leads
  <2>4. QED
    BY <1>3, <2>2, <2>3 DEF Leads
<1>4. QED
  BY <1>2, <1>3 DEF r

LEMMA LeadsTail ==
  ASSUME NEW q \in Seq(Items), q # <<>>, NEW from, NEW to, Leads(q, from, to)
  PROVE  /\ Head(q) \in AgentModes => Leads(Tail(q), Head(q), to)
         /\ Head(q) = "run" => Leads(Tail(q), from, to)
<1> DEFINE r == Tail(q)
           h == Head(q)
<1>1. Len(q) \in Nat /\ Len(q) >= 1 /\ Len(r) = Len(q) - 1 /\ h = q[1] /\ \A k \in 1..Len(r) : r[k] = q[k + 1]
  OBVIOUS
<1> HIDE DEF r, h
<1>2. ASSUME NEW k \in Nat, k >= 2, Runs(q, k) PROVE Runs(r, k - 1)
  <2>1. ASSUME NEW l \in k - 1..Len(r) PROVE r[l] = "run"
    <3>1. l \in 1..Len(r) /\ l + 1 \in k..Len(q)
      BY <1>1, <1>2
    <3>2. QED
      BY <1>1, <1>2, <3>1 DEF Runs
  <2>2. QED
    BY <2>1 DEF Runs
<1>3. CASE Runs(q, 1) /\ to = from
  <2>1. h = "run"
    BY <1>1, <1>3 DEF Runs
  <2>2. Runs(q, 2)
    BY <1>1, <1>3 DEF Runs
  <2>3. Runs(r, 1)
    BY <1>2, <2>2
  <2>4. QED
    BY <1>3, <2>1, <2>3, NoModeRun DEF Leads, r, h
<1>4. CASE \E k \in 1..Len(q) : q[k] \in AgentModes /\ to = q[k] /\ Runs(q, k + 1)
  <2>1. PICK k \in 1..Len(q) : q[k] \in AgentModes /\ to = q[k] /\ Runs(q, k + 1)
    BY <1>4
  <2>2. Runs(r, k)
    <3>1. k + 1 \in Nat /\ k + 1 >= 2 /\ (k + 1) - 1 = k
      BY <1>1
    <3>2. QED
      BY <1>2, <2>1, <3>1
  <2>3. CASE k = 1
    <3>1. h \in AgentModes /\ to = h /\ Runs(r, 1)
      BY <1>1, <2>1, <2>2, <2>3
    <3>2. QED
      BY <3>1, NoModeRun DEF Leads, r, h
  <2>4. CASE k # 1
    <3>1. k - 1 \in 1..Len(r) /\ r[k - 1] = q[k] /\ (k - 1) + 1 = k
      BY <1>1, <2>4
    <3>2. \A x : Leads(r, x, to)
      BY <2>1, <2>2, <3>1 DEF Leads
    <3>3. QED
      BY <3>2 DEF r, h
  <2>5. QED
    BY <2>3, <2>4
<1>5. QED
  BY <1>3, <1>4 DEF Leads

LEMMA LeadsSettled ==
  ASSUME NEW q \in Seq(Items), Range(q) \cap AgentModes = {}, NEW from, NEW to, Leads(q, from, to)
  PROVE  to = from
  BY DEF Leads, Range

LEMMA HasModeTail ==
  ASSUME NEW q \in Seq(Items), q # <<>>, Head(q) \notin AgentModes, HasMode(q)
  PROVE  HasMode(Tail(q))
<1>1. PICK k \in 1..Len(q) : q[k] \in AgentModes
  BY DEF HasMode
<1>2. k # 1 /\ Len(q) \in Nat
  BY <1>1
<1>3. k - 1 \in 1..Len(Tail(q)) /\ Tail(q)[k - 1] = q[k]
  BY <1>2
<1>4. QED
  BY <1>1, <1>3 DEF HasMode

LEMMA HasModeAppend ==
  ASSUME NEW q \in Seq(Items), NEW x \in Items
  PROVE  /\ x \in AgentModes => HasMode(Append(q, x))
         /\ HasMode(q) => HasMode(Append(q, x))
<1> DEFINE r == Append(q, x)
<1>1. Len(r) = Len(q) + 1 /\ Len(q) \in Nat /\ r[Len(r)] = x /\ \A k \in 1..Len(q) : r[k] = q[k]
  OBVIOUS
<1> HIDE DEF r
<1>2. Len(r) \in 1..Len(r) /\ \A k \in 1..Len(q) : k \in 1..Len(r)
  BY <1>1
<1>3. QED
  BY <1>1, <1>2 DEF HasMode, r

LEMMA FileMode == ASSUME NEW f \in FileRecs PROVE LoadedMode(f) \in AgentModes
<1>1. f.mode \in AgentModes /\ f.notes \in Seq(AgentModes)
  BY DEF FileRecs
<1>2. f.notes # <<>> => f.notes[Len(f.notes)] \in AgentModes
  BY <1>1
<1>3. QED
  BY <1>1, <1>2 DEF LoadedMode, Last

LEMMA LaunchStarts == ASSUME LaunchInit PROVE LaunchInv
<1> DEFINE m0 == CHOOSE m \in AgentModes : TRUE
           f0 == [mode |-> m0, notes |-> <<>>, turns |-> 1]
<1>1. m0 \in AgentModes
  BY LaunchAssumption
<1> HIDE DEF m0
<1>2. f0 \in FileRecs /\ LoadedMode(f0) = m0 /\ f0.mode = m0
  BY <1>1 DEF FileRecs, LoadedMode
<1>3. files \in [SessionIds -> {<<>>, <<f0>>}]
  BY DEF LaunchInit, m0
<1> HIDE DEF f0
<1>4. files \in [SessionIds -> {<<>>} \cup {<<f>> : f \in FileRecs}]
  BY <1>2, <1>3
<1>5. \A i \in SessionIds : chose[i] = IF files[i] = <<>> THEN Nil ELSE files[i][1].mode
  BY DEF LaunchInit
<1>6. chose \in [SessionIds -> ModesEver]
  BY <1>1, <1>2, <1>3 DEF LaunchInit, ModesEver
<1>7. \A i \in Written : files[i][1] = f0
  BY <1>3 DEF Written
<1>8. \A i \in Written : chose[i] = LoadedMode(files[i][1])
  BY <1>2, <1>5, <1>7 DEF Written
<1>9. order \in Seq(SessionIds) /\ \A k \in 1..Len(order) : order[k] \in Written
  <2>1. order \in [1..Cardinality(Written) -> Written]
    BY DEF LaunchInit, Written
  <2>2. Cardinality(Written) \in Nat
    BY LaunchAssumption, FS_Subset, FS_CardinalityType DEF Written
  <2>3. \A i \in Written : i \in SessionIds
    BY DEF Written
  <2>4. QED
    BY <2>1, <2>2, <2>3
<1>10. loop = "start" /\ default \in AgentModes /\ listing = <<>> /\ cur = NoSession
  BY LaunchAssumption DEF LaunchInit
<1>11. LaunchTypes
  BY <1>4, <1>6, <1>9, <1>10 DEF LaunchTypes, NoSession, Sessions, ModesEver
<1>12. RtTypes
  BY DEF LaunchInit, RtTypes
<1>13. Listed1 /\ FilesTell
  BY <1>8, <1>9, <1>10 DEF Listed1, FilesTell, InRuntime
<1>14. QED
  BY <1>10, <1>11, <1>12, <1>13 DEF LaunchInv, SessionRuns, Chain, BarTells, OutcomeFits, InRuntime

\* What a session was left with, for the next turn of the loop.
LeftTells(left) ==
  /\ left \in [SessionIds -> ModesEver]
  /\ \A i \in Written : left[i] = LoadedMode(files[i][1])

\* Entering a session, fresh or from its file.
LEMMA Enters ==
  ASSUME LaunchInv, NEW s, NEW left, LeftTells(left), EnterSession(s, left), UNCHANGED <<files, order, listing, default>>,
         \/ \E i \in SessionIds : s = Fresh(i) /\ files[i] = <<>> /\ left[i] = Nil
         \/ \E i \in Written : s = LoadedSession(i)
  PROVE  LaunchInv'
<1> USE DEF LaunchInv
<1>0. Written' = Written
  BY DEF Written
<1>1. PICK i \in SessionIds, m \in AgentModes, t \in Nat, h \in ModesEver, b \in BOOLEAN :
        /\ cur' = [id |-> i, resumed |-> b, header |-> h, turns |-> t, mode |-> m]
        /\ engine' = m /\ bar' = m /\ left[i] \in {m, Nil}
        /\ files[i] = <<>> => h = m
        /\ files[i] # <<>> => LoadedMode(files[i][1]) = m
        /\ chose' = [left EXCEPT ![i] = IF @ = Nil THEN m ELSE @]
  <2>1. CASE \E i \in SessionIds : s = Fresh(i) /\ files[i] = <<>> /\ left[i] = Nil
    <3>1. PICK i \in SessionIds : s = Fresh(i) /\ files[i] = <<>> /\ left[i] = Nil
      BY <2>1
    <3>2. /\ cur' = [id |-> i, resumed |-> FALSE, header |-> default, turns |-> 0, mode |-> default]
          /\ engine' = default /\ bar' = default
          /\ chose' = [left EXCEPT ![i] = IF @ = Nil THEN default ELSE @]
      BY <3>1 DEF EnterSession, Fresh
    <3>3. default \in AgentModes /\ default \in ModesEver
      BY DEF LaunchTypes, ModesEver
    <3>4. QED
      BY <3>1, <3>2, <3>3
  <2>2. CASE \E i \in Written : s = LoadedSession(i)
    <3>1. PICK i \in Written : s = LoadedSession(i)
      BY <2>2
    <3>2. PICK f \in FileRecs : files[i] = <<f>>
      BY DEF Written, LaunchTypes
    <3>3. PICK m : m = LoadedMode(f)
      OBVIOUS
    <3>4. files[i][1] = f /\ i \in SessionIds /\ files[i] # <<>> /\ m \in AgentModes /\ f.turns \in Nat
      BY <3>2, <3>3, FileMode DEF Written, FileRecs
    <3>5. s = [id |-> i, resumed |-> TRUE, header |-> Nil, turns |-> f.turns, mode |-> m]
      BY <3>1, <3>3, <3>4 DEF LoadedSession
    <3>6. /\ cur' = [id |-> i, resumed |-> TRUE, header |-> Nil, turns |-> f.turns, mode |-> m]
          /\ engine' = m /\ bar' = m /\ chose' = [left EXCEPT ![i] = IF @ = Nil THEN m ELSE @]
      BY <3>5 DEF EnterSession
    <3>7. Nil \in ModesEver
      BY DEF ModesEver
    <3>8. left[i] = m
      BY <3>3, <3>4 DEF LeftTells, Written
    <3>9. QED
      BY <3>3, <3>4, <3>6, <3>7, <3>8
  <2>3. QED
    BY <2>1, <2>2
<1>2. loop' = "tui" /\ Restarted /\ InRuntime'
  BY DEF EnterSession, InRuntime
<1>a. cur'.id = i /\ cur'.mode = m /\ cur'.header = h
  BY <1>1
<1>3. chose' \in [SessionIds -> ModesEver] /\ chose'[i] = m
  BY <1>1 DEF LeftTells, ModesEver
<1>4. LaunchTypes'
  BY <1>1, <1>3 DEF LaunchTypes, Sessions, ModesEver
<1>5. RtTypes'
  BY <1>2 DEF Restarted, RtTypes
<1>6. Listed1'
  BY <1>0 DEF Listed1
<1>7. FilesTell'
  <2>1. ASSUME NEW j \in Written' PROVE LoadedMode(files'[j][1]) = IF InRuntime' /\ j = cur'.id THEN cur'.mode ELSE chose'[j]
    <3>1. j \in Written /\ j \in SessionIds /\ files[j] # <<>> /\ files'[j] = files[j]
      BY <1>0 DEF Written
    <3>2. CASE j = i
      BY <1>1, <1>2, <1>a, <3>1, <3>2
    <3>3. CASE j # i
      BY <1>1, <1>2, <1>a, <3>1, <3>3 DEF LeftTells
    <3>4. QED
      BY <3>2, <3>3
  <2>2. QED
    BY <2>1 DEF FilesTell
<1>8. SessionRuns'
  BY <1>1, <1>a DEF SessionRuns
<1>9. Chain' /\ BarTells'
  <2>1. /\ acts' = <<>> /\ cmds' = <<>> /\ held' = Nil /\ changed' = <<>>
        /\ cur'.mode = m /\ cur'.id = i /\ engine' = m /\ bar' = m /\ chose'[i] = m
    BY <1>1, <1>2, <1>3, <1>a DEF Restarted
  <2>2. Leads(<<>>, m, m)
    BY LeadsNothing
  <2>3. Chain'
    BY <2>1, <2>2, NoModeRun DEF Chain
  <2>4. BarTells'
    BY <2>1 DEF BarTells
  <2>5. QED
    BY <2>3, <2>4
<1>10. OutcomeFits'
  BY <1>2 DEF OutcomeFits
<1>11. QED
  BY <1>4, <1>5, <1>6, <1>7, <1>8, <1>9, <1>10

\* Leaving the loop, when the file cannot be loaded or the user quits.
LEMMA Leaves ==
  ASSUME LaunchInv, Restarted, loop' \in {"closed", "error"}, cur' \in Sessions, LeftTells(chose'),
         UNCHANGED <<files, order, listing, default>>
  PROVE  LaunchInv'
<1>1. Written' = Written /\ ~InRuntime' /\ loop' # "leaving"
  BY DEF Written, InRuntime
<1>2. LaunchTypes' /\ RtTypes' /\ Listed1'
  <2>1. LaunchTypes'
    <3>1. chose' \in [SessionIds -> ModesEver]
      BY DEF LeftTells
    <3>2. QED
      BY <3>1 DEF LaunchInv, LaunchTypes
  <2>2. RtTypes'
    BY DEF RtTypes, Restarted
  <2>3. Listed1'
    BY <1>1 DEF LaunchInv, Listed1
  <2>4. QED
    BY <2>1, <2>2, <2>3
<1>3. FilesTell'
  BY <1>1 DEF FilesTell, LeftTells
<1>4. QED
  BY <1>1, <1>2, <1>3 DEF LaunchInv, SessionRuns, Chain, BarTells, OutcomeFits

OthersKept(left) == \A i \in SessionIds : i # cur.id => left[i] = chose[i]

LEMMA UnusedFresh ==
  ASSUME Unused # {}, NEW left, OthersKept(left)
  PROVE  \E i \in SessionIds : Fresh(CHOOSE j \in Unused : TRUE) = Fresh(i) /\ files[i] = <<>> /\ left[i] = Nil
<1>1. (CHOOSE j \in Unused : TRUE) \in Unused
  OBVIOUS
<1>2. QED
  BY <1>1 DEF Unused, OthersKept

LEMMA NoSessionTyped == NoSession \in Sessions
  BY DEF NoSession, Sessions, ModesEver

LEMMA LaunchStep1 ==
  ASSUME LaunchInv, NEW how \in {"fresh", "continue"} \cup SessionIds, Launch(how)
  PROVE  LaunchInv'
<1>1. UNCHANGED <<files, order, listing, default>> /\ loop = "start"
  BY DEF Launch
<1>a. LeftTells(chose)
  BY <1>1 DEF LaunchInv, LaunchTypes, FilesTell, LeftTells, InRuntime
<1>2. CASE Unused # {} /\ EnterSession(Fresh(CHOOSE i \in Unused : TRUE), chose)
  <2>1. OthersKept(chose)
    BY DEF OthersKept
  <2>2. QED
    BY <1>1, <1>2, <1>a, <2>1, UnusedFresh, Enters
<1>3. CASE latest # Nil /\ EnterSession(LoadedSession(latest), chose)
  <2>1. latest \in Written
    BY <1>3 DEF latest, LaunchInv, LaunchTypes, Listed1, Last
  <2>2. QED
    BY <1>1, <1>3, <1>a, <2>1, Enters
<1>4. CASE how \in SessionIds /\ files[how] # <<>> /\ EnterSession(LoadedSession(how), chose)
  <2>1. how \in Written
    BY <1>4 DEF Written
  <2>2. QED
    BY <1>1, <1>4, <1>a, <2>1, Enters
<1>5. CASE Fails
  <2>1. Restarted /\ loop' \in {"closed", "error"} /\ cur' \in Sessions /\ chose' = chose
    BY <1>5, NoSessionTyped DEF Fails
  <2>2. LeftTells(chose')
    BY <1>a, <2>1
  <2>3. QED
    BY <1>1, <2>1, <2>2, Leaves
<1>6. QED
  BY <1>2, <1>3, <1>4, <1>5 DEF Launch

\* A step that leaves the session and its file alone: the parts of the invariant that follow.
LEMMA SameSession ==
  ASSUME LaunchInv, InRuntime, UNCHANGED <<files, order, cur, default>>, InRuntime',
         NEW m \in ModesEver, chose' \in {chose, [chose EXCEPT ![cur.id] = m]},
         engine' \in AgentModes, bar' \in AgentModes
  PROVE  LaunchTypes' /\ FilesTell' /\ SessionRuns' /\ Written' = Written
<1>1. Written' = Written
  BY DEF Written
<1>2. cur.id \in SessionIds /\ chose' \in [SessionIds -> ModesEver]
  BY DEF LaunchInv, SessionRuns, LaunchTypes
<1>3. \A i \in SessionIds : i # cur.id => chose'[i] = chose[i]
  BY DEF LaunchInv, LaunchTypes
<1>4. LaunchTypes'
  BY <1>2 DEF LaunchInv, LaunchTypes
<1>5. FilesTell'
  <2>1. \A i \in Written : i \in SessionIds
    BY DEF Written
  <2>2. QED
    BY <1>1, <1>3, <2>1 DEF LaunchInv, FilesTell
<1>6. SessionRuns'
  BY DEF LaunchInv, SessionRuns
<1>7. QED
  BY <1>1, <1>4, <1>5, <1>6

LEMMA SubmitStep == ASSUME LaunchInv, Submit PROVE LaunchInv'
<1>1. /\ loop = "tui" /\ InRuntime /\ InRuntime' /\ acts' = Append(acts, "run") /\ "run" \in Items
      /\ UNCHANGED <<files, order, cur, engine, bar, listing, default, loop, outcome, cmds, held, changed, stale, chose>>
  BY DEF Submit, LaunchStep, InRuntime, Items
<1>2. acts \in Seq(Items) /\ cmds \in Seq(Items) /\ engine \in AgentModes /\ bar \in AgentModes /\ Nil \in ModesEver
  BY <1>1 DEF LaunchInv, RtTypes, SessionRuns, ModesEver
<1>3. LaunchTypes' /\ FilesTell' /\ SessionRuns' /\ Written' = Written
  BY <1>1, <1>2, SameSession
<1>4. Leads(acts', engine, chose[cur.id]) /\ (HasMode(acts) => HasMode(acts'))
  BY <1>1, <1>2, LeadsAppend, HasModeAppend DEF LaunchInv, Chain
<1>5. RtTypes' /\ Listed1'
  BY <1>1, <1>3 DEF LaunchInv, RtTypes, Listed1
<1>6. Chain' /\ BarTells' /\ OutcomeFits'
  BY <1>1, <1>4 DEF LaunchInv, Chain, BarTells, OutcomeFits
<1>7. QED
  BY <1>3, <1>5, <1>6 DEF LaunchInv

LEMMA SetModeStep == ASSUME LaunchInv, SetMode PROVE LaunchInv'
<1>1. /\ loop = "tui" /\ InRuntime /\ InRuntime' /\ bar' = Cycle[bar]
      /\ UNCHANGED <<files, order, cur, engine, listing, default, loop, outcome, cmds, held, changed>>
  BY DEF SetMode, LaunchStep, InRuntime
<1>2. acts \in Seq(Items) /\ engine \in AgentModes /\ bar \in AgentModes /\ cur.id \in SessionIds
      /\ chose \in [SessionIds -> ModesEver]
  BY <1>1 DEF LaunchInv, RtTypes, SessionRuns, LaunchTypes
<1>3. PICK m \in AgentModes : m = Cycle[bar]
  BY <1>2, LaunchAssumption
<1>4. m \in Items /\ m \in ModesEver /\ Nil \in ModesEver
  BY DEF Items, ModesEver
<1>5. CASE acts' = Append(acts, m) /\ chose' = [chose EXCEPT ![cur.id] = m] /\ stale' = stale
  <2>1. LaunchTypes' /\ FilesTell' /\ SessionRuns' /\ Written' = Written
    BY <1>1, <1>2, <1>3, <1>4, <1>5, SameSession
  <2>2. Leads(acts', engine, m) /\ HasMode(acts') /\ chose'[cur.id] = m
    BY <1>2, <1>4, <1>5, LeadsAppend, HasModeAppend
  <2>3. RtTypes' /\ Listed1'
    BY <1>1, <1>2, <1>4, <1>5, <2>1 DEF LaunchInv, RtTypes, Listed1
  <2>4. Chain' /\ BarTells' /\ OutcomeFits'
    BY <1>1, <2>2 DEF LaunchInv, Chain, BarTells, OutcomeFits
  <2>5. QED
    BY <2>1, <2>3, <2>4 DEF LaunchInv
<1>6. CASE stale' = TRUE /\ UNCHANGED <<acts, chose>>
  <2>1. LaunchTypes' /\ FilesTell' /\ SessionRuns' /\ Written' = Written
    BY <1>1, <1>2, <1>3, <1>4, <1>6, SameSession
  <2>2. RtTypes' /\ Listed1'
    BY <1>1, <1>6, <2>1 DEF LaunchInv, RtTypes, Listed1
  <2>3. Chain' /\ BarTells' /\ OutcomeFits'
    BY <1>1, <1>6 DEF LaunchInv, Chain, BarTells, OutcomeFits
  <2>4. QED
    BY <2>1, <2>2, <2>3 DEF LaunchInv
<1>7. QED
  BY <1>3, <1>5, <1>6 DEF SetMode

LEMMA DrainStep == ASSUME LaunchInv, DrainEvents PROVE LaunchInv'
<1>1. /\ loop = "tui" /\ InRuntime /\ InRuntime' /\ bar' = Last(changed) /\ changed # <<>> /\ changed' = <<>>
      /\ UNCHANGED <<files, order, cur, engine, listing, default, loop, outcome, acts, cmds, held, chose>>
  BY DEF DrainEvents, InRuntime
<1>2. bar' = engine /\ engine \in AgentModes /\ Nil \in ModesEver
  BY <1>1 DEF LaunchInv, BarTells, SessionRuns, ModesEver
<1>3. LaunchTypes' /\ FilesTell' /\ SessionRuns' /\ Written' = Written
  BY <1>1, <1>2, SameSession
<1>4. RtTypes' /\ Listed1'
  BY <1>1, <1>3 DEF LaunchInv, RtTypes, Listed1
<1>5. Chain' /\ BarTells' /\ OutcomeFits'
  BY <1>1, <1>2 DEF LaunchInv, Chain, BarTells, OutcomeFits
<1>6. QED
  BY <1>3, <1>4, <1>5 DEF LaunchInv

\* The menu, and leaving by it.
LEMMA MenuStep ==
  ASSUME LaunchInv,
         \/ OpenMenu \/ CloseMenu \/ Quit \/ NewIn \/ ToggleTransport
         \/ (\E id \in SessionIds : ResumeSession(id)) \/ \E k \in Keys : SaveKey(k)
  PROVE  LaunchInv'
<1>1. loop = "tui" /\ UNCHANGED <<files, order, cur, engine, bar, default, rtVars, chose>>
  BY DEF OpenMenu, CloseMenu, Quit, NewIn, ToggleTransport, ResumeSession, SaveKey, Leave, LaunchStep
<1>2. loop' \in {"tui", "leaving"}
  BY <1>1 DEF OpenMenu, CloseMenu, Quit, NewIn, ToggleTransport, ResumeSession, SaveKey, Leave
<1>3. InRuntime /\ InRuntime' /\ engine \in AgentModes /\ bar \in AgentModes /\ Nil \in ModesEver
  BY <1>1, <1>2 DEF InRuntime, LaunchInv, SessionRuns, ModesEver
<1>4. LaunchTypes' /\ FilesTell' /\ SessionRuns' /\ Written' = Written
  BY <1>1, <1>3, SameSession
<1>5. listing' # <<>> => listing'[1] \subseteq Written
  <2>1. \A i \in Range(order) : i \in Written
    BY DEF Range, LaunchInv, LaunchTypes, Listed1
  <2>2. CASE OpenMenu
    BY <2>1, <2>2 DEF OpenMenu
  <2>3. CASE listing' = <<>>
    BY <2>3
  <2>4. QED
    BY <2>2, <2>3 DEF CloseMenu, Quit, NewIn, ToggleTransport, ResumeSession, SaveKey, Leave
<1>6. Listed1' /\ RtTypes' /\ Chain' /\ BarTells'
  BY <1>1, <1>3, <1>4, <1>5 DEF LaunchInv, Listed1, RtTypes, Chain, BarTells, rtVars
<1>7. Unused' = Unused
  BY <1>1 DEF Unused
<1>8. OutcomeFits'
  <2>1. CASE OpenMenu \/ CloseMenu
    BY <1>1, <2>1 DEF OpenMenu, CloseMenu, OutcomeFits
  <2>2. CASE Quit \/ NewIn \/ ToggleTransport \/ \E k \in Keys : SaveKey(k)
    <3>1. PICK d \in {"quit", "new", "reload"} : outcome' = [do |-> d, id |-> Nil] /\ (d = "new" => Unused # {})
      BY <2>2 DEF Quit, NewIn, ToggleTransport, SaveKey, Leave
    <3>2. outcome'.do = d
      BY <3>1
    <3>3. QED
      BY <1>7, <3>1, <3>2 DEF OutcomeFits
  <2>3. ASSUME NEW id \in SessionIds, ResumeSession(id) PROVE OutcomeFits'
    <3>1. id \in Written /\ outcome' = [do |-> "resume", id |-> id]
      BY <2>3 DEF ResumeSession, Leave, LaunchInv, Listed1
    <3>2. QED
      BY <1>4, <3>1 DEF OutcomeFits
  <2>4. QED
    BY <2>1, <2>2, <2>3
<1>9. QED
  BY <1>4, <1>6, <1>8 DEF LaunchInv

LEMMA PumpTakesStep == ASSUME LaunchInv, PumpTakes PROVE LaunchInv'
<1>1. /\ InRuntime /\ InRuntime' /\ held = Nil /\ acts # <<>> /\ acts' = Tail(acts) /\ held' = Head(acts)
      /\ UNCHANGED <<files, order, cur, bar, listing, default, loop, outcome, cmds, stale, chose>>
  BY DEF PumpTakes, InRuntime
<1>2. acts \in Seq(Items) /\ engine \in AgentModes /\ bar \in AgentModes /\ Nil \in ModesEver /\ changed \in Seq(AgentModes)
  BY <1>1 DEF LaunchInv, RtTypes, SessionRuns, ModesEver
<1>3. PICK h \in Items : h = Head(acts)
  BY <1>1, <1>2
<1>4. acts' \in Seq(Items) /\ Leads(cmds, cur.mode, engine) /\ Leads(acts, engine, chose[cur.id])
  BY <1>1, <1>2, NoModeRun DEF LaunchInv, Chain
<1>5. Unused' = Unused
  BY <1>1 DEF Unused
<1>6. CASE h = "run"
  <2>1. UNCHANGED <<engine, changed>> /\ h \notin AgentModes
    BY <1>3, <1>6, NoModeRun DEF PumpTakes
  <2>2. LaunchTypes' /\ FilesTell' /\ SessionRuns' /\ Written' = Written
    BY <1>1, <1>2, <2>1, SameSession
  <2>3. Leads(acts', engine, chose[cur.id]) /\ (HasMode(acts) => HasMode(acts'))
    BY <1>1, <1>2, <1>3, <1>4, <1>6, <2>1, LeadsTail, HasModeTail
  <2>4. RtTypes' /\ Listed1' /\ OutcomeFits'
    BY <1>1, <1>3, <1>4, <1>5, <2>1, <2>2 DEF LaunchInv, RtTypes, Listed1, OutcomeFits
  <2>5. Chain' /\ BarTells'
    BY <1>1, <1>3, <1>4, <2>1, <2>3 DEF LaunchInv, Chain, BarTells
  <2>6. QED
    BY <2>2, <2>4, <2>5 DEF LaunchInv
<1>7. CASE h \in AgentModes
  <2>1. engine' = h /\ changed' = Append(changed, h)
    BY <1>3, <1>7, NoModeRun DEF PumpTakes
  <2>2. LaunchTypes' /\ FilesTell' /\ SessionRuns' /\ Written' = Written
    BY <1>1, <1>2, <1>7, <2>1, SameSession
  <2>3. Leads(acts', h, chose[cur.id])
    BY <1>1, <1>2, <1>3, <1>4, <1>7, LeadsTail
  <2>4. changed' \in Seq(AgentModes) /\ changed' # <<>> /\ Last(changed') = h
    <3>1. Len(Append(changed, h)) = Len(changed) + 1 /\ Append(changed, h)[Len(changed) + 1] = h
      BY <1>2
    <3>2. QED
      BY <1>2, <1>7, <2>1, <3>1 DEF Last
  <2>5. RtTypes' /\ Listed1' /\ OutcomeFits'
    BY <1>1, <1>3, <1>4, <1>5, <2>2, <2>4 DEF LaunchInv, RtTypes, Listed1, OutcomeFits
  <2>6. Chain' /\ BarTells'
    BY <1>1, <1>3, <1>7, <2>1, <2>3, <2>4 DEF LaunchInv, Chain, BarTells
  <2>7. QED
    BY <2>2, <2>5, <2>6 DEF LaunchInv
<1>8. QED
  BY <1>6, <1>7 DEF Items

LEMMA PumpSendsStep == ASSUME LaunchInv, PumpSends PROVE LaunchInv'
<1>1. /\ InRuntime /\ InRuntime' /\ held # Nil /\ cmds' = Append(cmds, held) /\ held' = Nil
      /\ UNCHANGED <<files, order, cur, engine, bar, listing, default, loop, outcome, acts, changed, stale, chose>>
  BY DEF PumpSends, InRuntime
<1>2. cmds \in Seq(Items) /\ engine \in AgentModes /\ bar \in AgentModes /\ Nil \in ModesEver /\ held \in Items
  BY <1>1 DEF LaunchInv, RtTypes, SessionRuns, ModesEver
<1>3. LaunchTypes' /\ FilesTell' /\ SessionRuns' /\ Written' = Written
  BY <1>1, <1>2, SameSession
<1>4. Leads(cmds', cur.mode, engine)
  <2>1. CASE held \in AgentModes
    BY <1>1, <1>2, <2>1, LeadsAppend DEF LaunchInv, Chain
  <2>2. CASE held = "run"
    BY <1>1, <1>2, <2>2, LeadsAppend, NoModeRun DEF LaunchInv, Chain
  <2>3. QED
    BY <1>2, <2>1, <2>2 DEF Items
<1>5. Unused' = Unused
  BY <1>1 DEF Unused
<1>6. RtTypes' /\ Listed1' /\ OutcomeFits'
  BY <1>1, <1>2, <1>3, <1>5 DEF LaunchInv, RtTypes, Listed1, OutcomeFits
<1>7. Chain' /\ BarTells'
  BY <1>1, <1>4, NoModeRun DEF LaunchInv, Chain, BarTells
<1>8. QED
  BY <1>3, <1>6, <1>7 DEF LaunchInv

\* A record is appended to the running session's file, which it may create.
LEMMA Appends ==
  ASSUME LaunchInv, InRuntime, UNCHANGED <<engine, bar, listing, default, loop, outcome, chose>>,
         NEW f \in FileRecs, Append1(f), cur' \in Sessions,
         cur'.id = cur.id, LoadedMode(f) = cur'.mode, cur'.mode \in AgentModes
  PROVE  LaunchTypes' /\ Listed1' /\ FilesTell' /\ SessionRuns' /\ OutcomeFits' /\ InRuntime'
<1> USE DEF LaunchInv
<1>1. cur.id \in SessionIds /\ InRuntime'
  BY DEF SessionRuns, InRuntime
<1>2. files' = [files EXCEPT ![cur.id] = <<f>>] /\ order' = Append(order, cur.id)
  BY DEF Append1
<1>3. LaunchTypes'
  <2>1. files' \in [SessionIds -> {<<>>} \cup {<<x>> : x \in FileRecs}]
    BY <1>1, <1>2 DEF LaunchTypes
  <2>2. order' \in Seq(SessionIds)
    BY <1>1, <1>2 DEF LaunchTypes
  <2>3. QED
    BY <2>1, <2>2 DEF LaunchTypes
<1>4. Written' = Written \cup {cur.id} /\ files'[cur.id] = <<f>>
  BY <1>1, <1>2 DEF LaunchTypes, Written
<1>5. Listed1'
  <2>1. \A k \in 1..Len(order') : order'[k] \in Written'
    BY <1>1, <1>2, <1>4 DEF LaunchTypes, Listed1
  <2>2. QED
    BY <1>4, <2>1 DEF Listed1
<1>6. FilesTell'
  <2>1. ASSUME NEW i \in Written' PROVE LoadedMode(files'[i][1]) = IF InRuntime' /\ i = cur'.id THEN cur'.mode ELSE chose'[i]
    <3>1. CASE i = cur.id
      BY <1>1, <1>4, <3>1
    <3>2. CASE i # cur.id
      <4>1. i \in Written /\ i \in SessionIds
        BY <1>4, <3>2 DEF Written
      <4>2. files'[i] = files[i] /\ chose'[i] = chose[i]
        BY <1>2, <3>2, <4>1 DEF LaunchTypes
      <4>3. QED
        BY <3>2, <4>1, <4>2 DEF FilesTell
    <3>3. QED
      BY <3>1, <3>2
  <2>2. QED
    BY <2>1 DEF FilesTell
<1>7. SessionRuns'
  BY <1>1, <1>4 DEF SessionRuns
<1>8. OutcomeFits'
  <2>1. Unused \subseteq Unused'
    <3>1. ASSUME NEW i \in Unused PROVE i \in Unused'
      <4>1. i \in SessionIds /\ files[i] = <<>> /\ i # cur.id /\ chose[i] = Nil
        BY DEF Unused
      <4>2. files'[i] = files[i]
        BY <1>2, <4>1 DEF LaunchTypes
      <4>3. QED
        BY <4>1, <4>2 DEF Unused
    <3>2. QED
      BY <3>1
  <2>2. QED
    BY <1>4, <2>1 DEF OutcomeFits
<1>9. QED
  BY <1>1, <1>3, <1>5, <1>6, <1>7, <1>8

\* The record the running session's file has, or will be created with.
LEMMA FileNowTells ==
  ASSUME LaunchInv, InRuntime
  PROVE  FileNow \in FileRecs /\ LoadedMode(FileNow) = cur.mode
<1> USE DEF LaunchInv
<1>1. cur.id \in SessionIds /\ cur.mode \in AgentModes
  BY DEF SessionRuns
<1>2. CASE files[cur.id] = <<>>
  BY <1>1, <1>2 DEF FileNow, LoadedMode, SessionRuns, FileRecs
<1>3. CASE files[cur.id] # <<>>
  <2>1. PICK f \in FileRecs : files[cur.id] = <<f>>
    BY <1>1, <1>3 DEF LaunchTypes
  <2>2. FileNow = f /\ files[cur.id][1] = f
    BY <1>3, <2>1 DEF FileNow
  <2>3. cur.id \in Written
    BY <1>1, <1>3 DEF Written
  <2>4. QED
    BY <2>2, <2>3 DEF FilesTell
<1>4. QED
  BY <1>2, <1>3

LEMMA TurnEndsStep == ASSUME LaunchInv, TurnEnds PROVE LaunchInv'
<1>1. InRuntime /\ UNCHANGED <<engine, bar, listing, default, loop, outcome, acts, cmds, held, changed, stale, chose>>
  BY DEF TurnEnds
<1>2. PICK f \in FileRecs : f = FileNow /\ LoadedMode(f) = cur.mode
  BY <1>1, FileNowTells
<1>3. PICK g : g = [f EXCEPT !.turns = @ + 1]
  OBVIOUS
<1>4. g \in FileRecs /\ g.mode = f.mode /\ g.notes = f.notes
  BY <1>3 DEF FileRecs
<1>5. LoadedMode(g) = cur.mode
  BY <1>2, <1>4 DEF LoadedMode
<1>6. cur' = [cur EXCEPT !.turns = @ + 1] /\ Append1(g)
  BY <1>2, <1>3 DEF TurnEnds
<1>7. cur' \in Sessions /\ cur'.id = cur.id /\ cur'.mode = cur.mode
  BY <1>6 DEF LaunchInv, LaunchTypes, Sessions
<1>8. cur.mode \in AgentModes
  BY <1>1 DEF LaunchInv, SessionRuns
<1>9. LaunchTypes' /\ Listed1' /\ FilesTell' /\ SessionRuns' /\ OutcomeFits' /\ InRuntime'
  BY <1>1, <1>4, <1>5, <1>6, <1>7, <1>8, Appends
<1>10. RtTypes' /\ Chain' /\ BarTells'
  BY <1>1, <1>7, <1>9 DEF LaunchInv, RtTypes, Chain, BarTells
<1>11. QED
  BY <1>9, <1>10 DEF LaunchInv

LEMMA DriverRunsStep == ASSUME LaunchInv, DriverRuns PROVE LaunchInv'
<1>1. /\ InRuntime /\ InRuntime' /\ cmds # <<>> /\ Head(cmds) = "run" /\ cmds' = Tail(cmds)
      /\ UNCHANGED <<files, order, cur, engine, bar, listing, default, loop, outcome, acts, held, changed, stale, chose>>
  BY DEF DriverRuns, InRuntime
<1>2. cmds \in Seq(Items) /\ engine \in AgentModes /\ bar \in AgentModes /\ Nil \in ModesEver
  BY <1>1 DEF LaunchInv, RtTypes, SessionRuns, ModesEver
<1>3. LaunchTypes' /\ FilesTell' /\ SessionRuns' /\ Written' = Written
  BY <1>1, <1>2, SameSession
<1>4. held \notin AgentModes => Leads(cmds', cur.mode, engine)
  BY <1>1, <1>2, LeadsTail DEF LaunchInv, Chain
<1>5. Unused' = Unused
  BY <1>1 DEF Unused
<1>6. RtTypes' /\ Listed1' /\ OutcomeFits'
  BY <1>1, <1>2, <1>3, <1>5 DEF LaunchInv, RtTypes, Listed1, OutcomeFits
<1>7. Chain' /\ BarTells'
  BY <1>1, <1>4 DEF LaunchInv, Chain, BarTells
<1>8. QED
  BY <1>3, <1>6, <1>7 DEF LaunchInv

LEMMA DriverSetsModeStep == ASSUME LaunchInv, DriverSetsMode PROVE LaunchInv'
<1>1. /\ InRuntime /\ InRuntime' /\ cmds # <<>> /\ Head(cmds) # "run" /\ cmds' = Tail(cmds)
      /\ UNCHANGED <<engine, bar, listing, default, loop, outcome, acts, held, changed, stale, chose>>
  BY DEF DriverSetsMode, InRuntime
<1>2. cmds \in Seq(Items) /\ engine \in AgentModes /\ bar \in AgentModes /\ Nil \in ModesEver
  BY <1>1 DEF LaunchInv, RtTypes, SessionRuns, ModesEver
<1>3. PICK m \in AgentModes : m = Head(cmds)
  BY <1>1, <1>2 DEF Items
<1>4. cmds' \in Seq(Items) /\ (held \notin AgentModes => Leads(cmds', m, engine))
  BY <1>1, <1>2, <1>3, LeadsTail DEF LaunchInv, Chain
<1>5. CASE m = cur.mode
  <2>1. UNCHANGED <<files, order, cur>>
    BY <1>3, <1>5 DEF DriverSetsMode
  <2>2. LaunchTypes' /\ FilesTell' /\ SessionRuns' /\ Written' = Written /\ Unused' = Unused
    BY <1>1, <1>2, <2>1, SameSession DEF Unused
  <2>3. RtTypes' /\ Listed1' /\ OutcomeFits'
    BY <1>1, <1>4, <2>1, <2>2 DEF LaunchInv, RtTypes, Listed1, OutcomeFits
  <2>4. Chain' /\ BarTells'
    BY <1>1, <1>4, <1>5, <2>1 DEF LaunchInv, Chain, BarTells
  <2>5. QED
    BY <2>2, <2>3, <2>4 DEF LaunchInv
<1>6. CASE m # cur.mode
  <2>1. PICK f \in FileRecs : f = FileNow
    BY <1>1, FileNowTells
  <2>2. PICK n \in Seq(AgentModes) : n = Append(f.notes, m) /\ n # <<>> /\ n[Len(n)] = m
    <3>1. PICK o \in Seq(AgentModes) : o = f.notes
      BY DEF FileRecs
    <3>2. Append(o, m) \in Seq(AgentModes) /\ Append(o, m) # <<>> /\ Append(o, m)[Len(Append(o, m))] = m
      BY AppendProperties
    <3>3. QED
      BY <3>1, <3>2, Zenon
  <2>3. PICK g : g = [f EXCEPT !.notes = n]
    OBVIOUS
  <2>4. g \in FileRecs /\ g.notes = n
    BY <2>3 DEF FileRecs
  <2>5. LoadedMode(g) = m
    BY <2>2, <2>4 DEF LoadedMode, Last
  <2>6. cur' = [cur EXCEPT !.mode = m] /\ Append1(g)
    <3>1. [f EXCEPT !.notes = Append(@, m)] = g
      BY <2>2, <2>3 DEF FileRecs
    <3>2. QED
      BY <1>3, <1>6, <2>1, <3>1 DEF DriverSetsMode
  <2>7. cur' \in Sessions /\ cur'.id = cur.id /\ cur'.mode = m
    BY <2>6 DEF LaunchInv, LaunchTypes, Sessions, ModesEver
  <2>8. LaunchTypes' /\ Listed1' /\ FilesTell' /\ SessionRuns' /\ OutcomeFits'
    BY <1>1, <2>4, <2>5, <2>6, <2>7, Appends
  <2>9. RtTypes' /\ Chain' /\ BarTells'
    BY <1>1, <1>4, <2>7 DEF LaunchInv, RtTypes, Chain, BarTells
  <2>10. QED
    BY <2>8, <2>9 DEF LaunchInv
<1>7. QED
  BY <1>5, <1>6

\* The next turn of the loop, with what was asked for or what the driver got to.
LEMMA RebuildStep ==
  ASSUME LaunchInv, loop = "leaving", NEW left, LeftTells(left), OthersKept(left), Rebuild(left)
  PROVE  LaunchInv'
<1>1. UNCHANGED <<files, order, listing, default>> /\ outcome.do \in {"quit", "resume", "new", "reload"}
  BY DEF Rebuild, LaunchInv, OutcomeFits
<1>2. CASE outcome.do = "quit"
  <2>1. loop' = "closed" /\ Restarted /\ chose' = left /\ cur' = cur
    BY <1>2 DEF Rebuild
  <2>2. cur' \in Sessions /\ LeftTells(chose')
    BY <2>1 DEF LaunchInv, LaunchTypes
  <2>3. QED
    BY <1>1, <2>1, <2>2, Leaves
<1>3. CASE outcome.do = "resume"
  <2>1. EnterSession(LoadedSession(outcome.id), left) /\ outcome.id \in Written
    BY <1>3 DEF Rebuild, LaunchInv, OutcomeFits
  <2>2. QED
    BY <1>1, <2>1, Enters
<1>4. CASE outcome.do = "new"
  <2>1. EnterSession(Fresh(CHOOSE i \in Unused : TRUE), left) /\ Unused # {}
    BY <1>4 DEF Rebuild, LaunchInv, OutcomeFits
  <2>2. QED
    BY <1>1, <2>1, UnusedFresh, Enters
<1>5. CASE outcome.do = "reload"
  <2>1. IF files[cur.id] = <<>> THEN Fails ELSE EnterSession(LoadedSession(cur.id), left)
    BY <1>5 DEF Rebuild
  <2>2. cur.id \in SessionIds /\ InRuntime
    BY DEF LaunchInv, SessionRuns, InRuntime
  <2>3. CASE files[cur.id] # <<>>
    <3>1. cur.id \in Written
      BY <2>2, <2>3 DEF Written
    <3>2. QED
      BY <1>1, <2>1, <2>3, <3>1, Enters
  <2>4. CASE files[cur.id] = <<>>
    <3>1. Restarted /\ loop' = "error" /\ cur' \in Sessions /\ chose' = chose
      BY <2>1, <2>4, NoSessionTyped DEF Fails
    <3>2. LeftTells(chose')
      BY <2>4, <3>1 DEF LeftTells, LaunchInv, LaunchTypes, FilesTell, Written
    <3>3. QED
      BY <1>1, <3>1, <3>2, Leaves
  <2>5. QED
    BY <2>3, <2>4
<1>6. QED
  BY <1>1, <1>2, <1>3, <1>4, <1>5

LEMMA ShutDownStep == ASSUME LaunchInv, ShutDown PROVE LaunchInv'
<1>1. loop = "leaving" /\ InRuntime /\ acts = <<>> /\ held = Nil /\ cmds = <<>> /\ Rebuild(chose)
  BY DEF ShutDown, Drained, InRuntime
<1>2. chose[cur.id] = cur.mode
  BY <1>1, NoModeRun DEF LaunchInv, Chain, Leads, Runs
<1>3. LeftTells(chose)
  BY <1>1, <1>2 DEF LeftTells, LaunchInv, LaunchTypes, FilesTell
<1>4. OthersKept(chose)
  BY DEF OthersKept
<1>5. QED
  BY <1>1, <1>3, <1>4, RebuildStep

LEMMA AbortedStep == ASSUME LaunchInv, Aborted PROVE LaunchInv'
<1>1. loop = "leaving" /\ InRuntime /\ Rebuild([chose EXCEPT ![cur.id] = cur.mode])
  BY DEF Aborted, InRuntime
<1>2. PICK left : left = [chose EXCEPT ![cur.id] = cur.mode]
  OBVIOUS
<1>3. LeftTells(left)
  <2>1. cur.id \in SessionIds /\ cur.mode \in ModesEver /\ chose \in [SessionIds -> ModesEver]
    BY <1>1 DEF LaunchInv, SessionRuns, LaunchTypes, ModesEver
  <2>2. left \in [SessionIds -> ModesEver] /\ left[cur.id] = cur.mode /\ \A i \in SessionIds : i # cur.id => left[i] = chose[i]
    BY <1>2, <2>1
  <2>3. \A i \in Written : i \in SessionIds
    BY DEF Written
  <2>4. QED
    BY <1>1, <2>2, <2>3 DEF LeftTells, LaunchInv, FilesTell
<1>4. OthersKept(left)
  BY <1>1, <1>2 DEF OthersKept, LaunchInv, SessionRuns, LaunchTypes
<1>5. QED
  BY <1>1, <1>2, <1>3, <1>4, RebuildStep

\* However mode changes cross turns, other changes, a full channel, a shutdown and its abort on
\* their way from the status bar to the session, and however sessions are created, left,
\* resumed, reloaded and entered again: once they have arrived the engine and the session are in
\* the mode last asked for, and the bar shows it.  For channels of any size.
THEOREM ModesAgreeAlways == LaunchSpec => []ModesAgree
<1>1. ASSUME LaunchInv, [LaunchNext]_launchVars PROVE LaunchInv'
  <2>1. CASE UNCHANGED launchVars
    <3>1. UNCHANGED <<files, order, cur, engine, bar, listing, default, loop, outcome, acts, cmds, held, changed, stale, chose>>
      BY <2>1 DEF launchVars, rtVars
    <3>2. Written' = Written /\ Unused' = Unused /\ InRuntime' = InRuntime
      BY <3>1 DEF Written, Unused, InRuntime
    <3>3. QED
      BY <1>1, <3>1, <3>2 DEF LaunchInv, LaunchTypes, RtTypes, Listed1, FilesTell, SessionRuns, Chain, BarTells, OutcomeFits
  <2>2. CASE LaunchNext
    BY <1>1, <2>2, LaunchStep1, SubmitStep, SetModeStep, DrainStep, MenuStep, PumpTakesStep, PumpSendsStep,
       DriverSetsModeStep, DriverRunsStep, TurnEndsStep, ShutDownStep, AbortedStep DEF LaunchNext
  <2>3. QED
    BY <1>1, <2>1, <2>2
<1>2. LaunchInv => ModesAgree
  <2>1. SUFFICES ASSUME LaunchInv, loop = "tui", ModesSettled
                 PROVE  /\ engine = cur.mode /\ chose[cur.id] = cur.mode
                        /\ changed = <<>> /\ ~stale => bar = cur.mode
    BY DEF ModesAgree
  <2>2. InRuntime /\ acts \in Seq(Items) /\ cmds \in Seq(Items) /\ held \notin AgentModes
    BY <2>1 DEF InRuntime, LaunchInv, RtTypes, ModesSettled
  <2>3. Range(acts) \cap AgentModes = {} /\ Range(cmds) \cap AgentModes = {}
    BY <2>1 DEF ModesSettled
  <2>4. Leads(cmds, cur.mode, engine) /\ Leads(acts, engine, chose[cur.id])
    BY <2>1, <2>2 DEF LaunchInv, Chain
  <2>5. engine = cur.mode /\ chose[cur.id] = engine
    BY <2>2, <2>3, <2>4, LeadsSettled
  <2>6. ~HasMode(acts)
    BY <2>2, <2>3 DEF HasMode, Range
  <2>7. QED
    BY <2>1, <2>2, <2>5, <2>6 DEF LaunchInv, BarTells
<1>3. QED
  BY <1>1, <1>2, LaunchStarts, PTL DEF LaunchSpec

-----------------------------------------------------------------------------
(* Induction over an initial segment of the naturals, by least             *)
(* counterexample, so that no operator has to be instantiated.             *)

LEMMA Least ==
  ASSUME NEW S, S \subseteq Nat, S # {}
  PROVE  \E x \in S : \A y \in S : x <= y
<1> DEFINE Less == {ss \in Nat \X Nat : ss[1] < ss[2]}
<1>1. IsWellFoundedOn(Less, Nat)
  BY NatLessThanWellFounded, Zenon DEF OpToRel
<1> HIDE DEF Less
<1>2. PICK x \in S : \A y \in S : ~(<<y, x>> \in Less)
  BY <1>1, WFMin
<1>3. ASSUME NEW y \in S PROVE x <= y
  <2>1. <<y, x>> \in Nat \X Nat
    OBVIOUS
  <2>2. <<y, x>> \notin Less
    BY <1>2
  <2>3. QED
    BY <2>1, <2>2 DEF Less
<1>4. QED
  BY <1>3

LEMMA Segment ==
  ASSUME NEW L \in Nat, NEW S, 0 \in S, \A n \in 1..L : n - 1 \in S => n \in S
  PROVE  0..L \subseteq S
<1> DEFINE Bad == (0..L) \ S
<1>1. SUFFICES ASSUME Bad # {} PROVE FALSE
  OBVIOUS
<1>2. Bad \subseteq Nat
  OBVIOUS
<1>3. PICK m \in Bad : \A y \in Bad : m <= y
  BY <1>1, <1>2, Least, Zenon
<1>4. m \in 1..L /\ m - 1 \in 0..L /\ ~(m <= m - 1)
  OBVIOUS
<1>5. m - 1 \notin Bad
  BY <1>3, <1>4
<1>6. QED
  BY <1>4, <1>5

\* The function on 0..L that starts at e and goes on by F.
Iterates(h, L, S, e, F) ==
  h \in [0..L -> S] /\ h[0] = e /\ \A n \in 1..L : h[n] = F[<<n, h[n - 1]>>]

\* A step function on a set defines a function on the segment.
LEMMA Recursion ==
  ASSUME NEW S, NEW L, L \in Nat, NEW e, e \in S, NEW F, F \in [(1..L) \X S -> S]
  PROVE  \E h : Iterates(h, L, S, e, F)
<1> DEFINE Upto(m, h) == h \in [0..m -> S] /\ h[0] = e /\ \A n \in 1..m : h[n] = F[<<n, h[n - 1]>>]
           Good == {m \in 0..L : \E h : Upto(m, h)}
<1>1. 0 \in Good
  <2>1. Upto(0, [n \in 0..0 |-> e])
    OBVIOUS
  <2> HIDE DEF Upto
  <2>2. QED
    BY <2>1
<1>2. ASSUME NEW m \in 1..L, m - 1 \in Good PROVE m \in Good
  <2>1. PICK h : Upto(m - 1, h)
    BY <1>2
  <2>2. m - 1 \in 0..(m - 1) /\ h[m - 1] \in S /\ <<m, h[m - 1]>> \in (1..L) \X S
    BY <2>1
  <2>3. F[<<m, h[m - 1]>>] \in S
    BY <2>2
  <2> DEFINE x1 == F[<<m, h[m - 1]>>]
             g == [n \in 0..m |-> IF n = m THEN x1 ELSE h[n]]
  <2> HIDE DEF x1
  <2>4. g \in [0..m -> S]
    <3>1. ASSUME NEW n \in 0..m PROVE (IF n = m THEN x1 ELSE h[n]) \in S
      <4>1. n # m => n \in 0..(m - 1)
        OBVIOUS
      <4>2. QED
        BY <2>1, <2>3, <4>1 DEF x1
    <3>2. QED
      BY <3>1
  <2>5. g[0] = e
    BY <2>1
  <2>6. g[m] = x1 /\ g[m - 1] = h[m - 1]
    BY <2>2
  <2>7. ASSUME NEW n \in 1..m, n # m PROVE g[n] = F[<<n, g[n - 1]>>]
    <3>1. n \in 1..(m - 1) /\ n \in 0..m /\ n - 1 \in 0..m /\ n - 1 # m
      BY <2>7
    <3>2. g[n] = h[n] /\ g[n - 1] = h[n - 1]
      BY <2>7, <3>1
    <3>3. QED
      BY <2>1, <3>1, <3>2
  <2> HIDE DEF g
  <2>8. Upto(m, g)
    BY <2>4, <2>5, <2>6, <2>7 DEF x1
  <2> HIDE DEF Upto
  <2>9. QED
    BY <2>8
<1>3. 0..L \subseteq Good
  <2> HIDE DEF Good
  <2>1. QED
    BY <1>1, <1>2, Segment
<1>4. L \in Good
  BY <1>3
<1>5. QED
  BY <1>4 DEF Iterates

-----------------------------------------------------------------------------
(* The session file.                                                       *)

LogLines == [recs : Seq(Nat), end : Ends \cup {"ended"}, bad : BOOLEAN]
TurnKinds == {"user", "call", "final", "result"}

\* The records of the file, up to line n, that load gives back.
LEMMA LoadRuns ==
  ASSUME file \in Seq(LogLines), \A i \in 1..Len(file) : file[i].recs # <<>>
  PROVE  \E h \in [0..Len(file) -> Seq(Nat)] :
           /\ h[0] = <<>>
           /\ \A n \in 1..Len(file) : h[n] = IF Turn(n) THEN Append(h[n - 1], file[n].recs[1]) ELSE h[n - 1]
           /\ load = h[Len(file)]
<1> DEFINE L == Len(file)
           Goes(n, q) == IF Turn(n) THEN Append(q, file[n].recs[1]) ELSE q
           F == [p \in (1..L) \X Seq(Nat) |-> Goes(p[1], p[2])]
           Rec(h) == h = [n \in 0..L |-> IF n = 0 THEN <<>> ELSE IF Turn(n) THEN Append(h[n - 1], file[n].recs[1]) ELSE h[n - 1]]
<1>1. L \in Nat
  OBVIOUS
<1>2. ASSUME NEW n \in 1..L, NEW q \in Seq(Nat) PROVE Goes(n, q) \in Seq(Nat)
  <2>1. file[n].recs[1] \in Nat
    <3>1. file[n] \in LogLines
      BY ElementOfSeq
    <3>2. PICK r \in Seq(Nat) : r = file[n].recs
      BY <3>1 DEF LogLines
    <3>3. r # <<>>
      BY <3>2
    <3>4. Len(r) \in Nat \ {0} /\ 1 \in 1..Len(r)
      BY <3>3, EmptySeq
    <3>5. r[1] \in Nat
      BY <3>4, ElementOfSeq
    <3>6. QED
      BY <3>2, <3>5
  <2>2. Append(q, file[n].recs[1]) \in Seq(Nat)
    BY <2>1, AppendProperties
  <2>3. QED
    BY <2>2
<1> HIDE DEF Goes
<1>3. F \in [(1..L) \X Seq(Nat) -> Seq(Nat)]
  BY <1>2
<1>4. \A n \in 1..L, q \in Seq(Nat) : F[<<n, q>>] = Goes(n, q)
  OBVIOUS
<1>5. <<>> \in Seq(Nat)
  OBVIOUS
<1> HIDE DEF F
<1>6. PICK g : Iterates(g, L, Seq(Nat), <<>>, F)
  BY <1>1, <1>3, <1>5, Recursion, Zenon
<1>7. g \in [0..L -> Seq(Nat)] /\ g[0] = <<>> /\ \A n \in 1..L : g[n] = F[<<n, g[n - 1]>>]
  BY <1>6 DEF Iterates
<1>8. \A n \in 1..L : g[n] = Goes(n, g[n - 1])
  <2>1. ASSUME NEW n \in 1..L PROVE g[n] = Goes(n, g[n - 1])
    <3>1. n - 1 \in 0..L
      BY <1>1
    <3>2. g[n - 1] \in Seq(Nat)
      BY <1>7, <3>1
    <3>3. QED
      BY <1>4, <1>7, <3>2
  <2>2. QED
    BY <2>1
<1>9. Rec(g)
  <2>1. ASSUME NEW n \in 0..L
        PROVE  g[n] = IF n = 0 THEN <<>> ELSE IF Turn(n) THEN Append(g[n - 1], file[n].recs[1]) ELSE g[n - 1]
    <3>1. CASE n = 0
      BY <1>7, <3>1
    <3>2. CASE n # 0
      <4>1. n \in 1..L
        BY <1>1, <3>2
      <4>2. QED
        BY <1>8, <3>2, <4>1 DEF Goes
    <3>3. QED
      BY <3>1, <3>2
  <2>2. QED
    BY <1>7, <2>1
<1> DEFINE h == CHOOSE f : Rec(f)
<1>10. Rec(h)
  BY <1>9
<1>11. load = h[L]
  BY DEF load
<1> HIDE DEF h
<1>12. DOMAIN h = 0..L /\ h[0] = <<>> /\ \A n \in 1..L : h[n] = Goes(n, h[n - 1])
  <2>1. \A n \in 1..L : n - 1 \in 0..L /\ n \in 0..L /\ n # 0
    BY <1>1
  <2>2. DOMAIN h = 0..L
    BY <1>10
  <2>3. ASSUME NEW n \in 0..L
        PROVE  h[n] = IF n = 0 THEN <<>> ELSE IF Turn(n) THEN Append(h[n - 1], file[n].recs[1]) ELSE h[n - 1]
    BY <1>10
  <2>4. h[0] = <<>>
    BY <1>1, <2>3
  <2>5. ASSUME NEW n \in 1..L PROVE h[n] = Goes(n, h[n - 1])
    BY <2>1, <2>3 DEF Goes
  <2>6. QED
    BY <2>2, <2>4, <2>5
<1> DEFINE InType == {n \in 0..L : h[n] \in Seq(Nat)}
<1>13. 0 \in InType
  <2>1. 0 \in 0..L /\ h[0] \in Seq(Nat)
    BY <1>1, <1>12
  <2>2. QED
    BY <2>1
<1>14. ASSUME NEW n \in 1..L, n - 1 \in InType PROVE n \in InType
  <2>1. h[n - 1] \in Seq(Nat) /\ n \in 0..L
    BY <1>1, <1>14
  <2>2. QED
    BY <1>2, <1>12, <2>1
<1>15. 0..L \subseteq InType
  <2> HIDE DEF InType
  <2>1. QED
    BY <1>1, <1>13, <1>14, Segment
<1>16. h \in [0..L -> Seq(Nat)]
  BY <1>10, <1>15
<1>17. QED
  BY <1>11, <1>12, <1>16 DEF Goes

\* Sequences of numbers: one that goes up, and one that names its own places.
Rising(q) == \A i, j \in 1..Len(q) : i < j => q[i] < q[j]
Counts(q) == \A i \in 1..Len(q) : q[i] = i

LEMMA RisingNext ==
  ASSUME NEW q \in Seq(Nat), NEW x \in Nat, Rising(q), \A i \in 1..Len(q) : q[i] < x
  PROVE  Rising(Append(q, x))
<1>1. Len(q) \in Nat /\ Append(q, x) \in Seq(Nat) /\ Len(Append(q, x)) = Len(q) + 1
  OBVIOUS
<1>2. \A i \in 1..(Len(q) + 1) : Append(q, x)[i] = IF i = Len(q) + 1 THEN x ELSE q[i]
  OBVIOUS
<1>3. ASSUME NEW i \in 1..(Len(q) + 1), NEW j \in 1..(Len(q) + 1), i < j PROVE Append(q, x)[i] < Append(q, x)[j]
  <2>1. i \in 1..Len(q) /\ i # Len(q) + 1
    BY <1>1, <1>3
  <2>2. CASE j = Len(q) + 1
    BY <1>2, <2>1, <2>2
  <2>3. CASE j # Len(q) + 1
    <3>1. j \in 1..Len(q)
      BY <1>1, <2>3
    <3>2. q[i] < q[j]
      BY <1>3, <2>1, <3>1 DEF Rising
    <3>3. QED
      BY <1>2, <2>1, <2>3, <3>2
  <2>4. QED
    BY <2>2, <2>3
<1>4. QED
  BY <1>1, <1>3 DEF Rising

\* load gives the first record of every turn line it reaches, in the file's order.
LEMMA LoadSays ==
  ASSUME file \in Seq(LogLines), \A i \in 1..Len(file) : file[i].recs # <<>> /\ file[i].recs[1] \in Nat
  PROVE  /\ load \in Seq(Nat)
         /\ \A k \in 1..Len(load) : \E n \in 1..Len(file) : Turn(n) /\ load[k] = file[n].recs[1]
         /\ \A n \in 1..Len(file) : Turn(n) => \E k \in 1..Len(load) : load[k] = file[n].recs[1]
         /\ (\A i, j \in 1..Len(file) : i < j => file[i].recs[1] < file[j].recs[1]) => Rising(load)
<1> DEFINE L == Len(file)
           rec(n) == file[n].recs[1]
           Ascends == \A i, j \in 1..L : i < j => rec(i) < rec(j)
<1>1. L \in Nat
  OBVIOUS
<1>2. PICK h \in [0..L -> Seq(Nat)] :
           /\ h[0] = <<>>
           /\ \A n \in 1..L : h[n] = IF Turn(n) THEN Append(h[n - 1], rec(n)) ELSE h[n - 1]
           /\ load = h[L]
  BY LoadRuns
<1> DEFINE From(n) == \A k \in 1..Len(h[n]) : \E m \in 1..n : Turn(m) /\ h[n][k] = rec(m)
           All(n) == \A m \in 1..n : Turn(m) => \E k \in 1..Len(h[n]) : h[n][k] = rec(m)
           Good == {n \in 0..L : From(n) /\ All(n) /\ (Ascends => Rising(h[n]))}
<1>3. \A n \in 1..L : rec(n) \in Nat
  OBVIOUS
<1> HIDE DEF rec
<1>4. 0 \in Good
  <2>1. h[0] = <<>> /\ Len(<<>>) = 0 /\ 0 \in 0..L
    BY <1>1, <1>2
  <2>2. From(0) /\ All(0) /\ Rising(h[0])
    BY <2>1 DEF Rising
  <2>3. QED
    BY <2>1, <2>2
<1>5. ASSUME NEW n \in 1..L, n - 1 \in Good PROVE n \in Good
  <2>1. From(n - 1) /\ All(n - 1) /\ (Ascends => Rising(h[n - 1]))
    BY <1>5
  <2>2. n \in 0..L /\ n - 1 \in 0..L /\ (\A m \in 1..(n - 1) : m \in 1..n) /\ (\A m \in 1..n : m = n \/ m \in 1..(n - 1)) /\ n \in 1..n
    BY <1>1
  <2>3. h[n - 1] \in Seq(Nat) /\ rec(n) \in Nat
    BY <1>2, <1>3, <2>2
  <2>4. CASE ~Turn(n)
    <3>1. h[n] = h[n - 1]
      BY <1>2, <2>4
    <3>2. From(n)
      BY <2>1, <2>2, <3>1
    <3>3. All(n)
      BY <2>1, <2>2, <2>4, <3>1
    <3>4. QED
      BY <2>1, <2>2, <3>1, <3>2, <3>3
  <2>5. CASE Turn(n)
    <3>1. h[n] = Append(h[n - 1], rec(n))
      BY <1>2, <2>5
    <3>2. PICK q \in Seq(Nat) : q = h[n - 1]
      BY <2>3
    <3>3. PICK x \in Nat : x = rec(n)
      BY <2>3
    <3>4. Append(q, x) \in Seq(Nat) /\ Len(Append(q, x)) = Len(q) + 1 /\ Len(q) \in Nat
      OBVIOUS
    <3>5. (\A k \in 1..Len(q) : Append(q, x)[k] = q[k]) /\ Append(q, x)[Len(q) + 1] = x
      OBVIOUS
    <3>6. h[n] = Append(q, x)
      BY <3>1, <3>2, <3>3
    <3>7. From(n)
      <4>1. ASSUME NEW k \in 1..(Len(q) + 1) PROVE \E m \in 1..n : Turn(m) /\ Append(q, x)[k] = rec(m)
        <5>1. CASE k = Len(q) + 1
          BY <2>2, <2>5, <3>3, <3>5, <5>1
        <5>2. CASE k # Len(q) + 1
          <6>1. k \in 1..Len(q)
            BY <3>4, <5>2
          <6>2. PICK m \in 1..(n - 1) : Turn(m) /\ q[k] = rec(m)
            BY <2>1, <3>2, <6>1
          <6>3. QED
            BY <2>2, <3>5, <6>1, <6>2
        <5>3. QED
          BY <5>1, <5>2
      <4>2. QED
        BY <3>4, <3>6, <4>1
    <3>8. All(n)
      <4>1. ASSUME NEW m \in 1..n, Turn(m) PROVE \E k \in 1..(Len(q) + 1) : Append(q, x)[k] = rec(m)
        <5>1. CASE m = n
          <6>1. Len(q) + 1 \in 1..(Len(q) + 1)
            BY <3>4
          <6>2. QED
            BY <3>3, <3>5, <5>1, <6>1
        <5>2. CASE m # n
          <6>1. PICK k \in 1..Len(q) : q[k] = rec(m)
            BY <2>1, <2>2, <3>2, <4>1, <5>2
          <6>2. k \in 1..(Len(q) + 1)
            BY <3>4
          <6>3. QED
            BY <3>5, <6>1, <6>2
        <5>3. QED
          BY <5>1, <5>2
      <4>2. QED
        BY <3>4, <3>6, <4>1
    <3>9. ASSUME Ascends PROVE Rising(h[n])
      <4>1. ASSUME NEW k \in 1..Len(q) PROVE q[k] < x
        <5>1. PICK m \in 1..(n - 1) : q[k] = rec(m)
          BY <2>1, <3>2
        <5>2. m \in 1..L /\ m < n
          BY <1>1
        <5>3. rec(m) < rec(n)
          BY <3>9, <5>2
        <5>4. QED
          BY <3>3, <5>1, <5>3
      <4>2. Rising(q)
        BY <2>1, <3>2, <3>9
      <4>3. Rising(Append(q, x))
        BY <4>1, <4>2, RisingNext
      <4>4. QED
        BY <3>6, <4>3
    <3>10. QED
      BY <2>2, <3>7, <3>8, <3>9
  <2>6. QED
    BY <2>4, <2>5
<1>6. 0..L \subseteq Good
  <2> HIDE DEF Good
  <2>1. QED
    BY <1>1, <1>4, <1>5, Segment
<1>7. L \in 0..L
  BY <1>1
<1>8. From(L) /\ All(L) /\ (Ascends => Rising(load)) /\ load = h[L] /\ load \in Seq(Nat)
  BY <1>2, <1>6, <1>7
<1>9. QED
  BY <1>8 DEF rec

\* When the turn lines are the second to the K-th and each holds its own number,
\* load counts.
LEMMA LoadCounts ==
  ASSUME file \in Seq(LogLines), NEW K \in 1..Len(file), \A n \in 1..Len(file) : file[n].recs = <<n - 1>>,
         \A n \in 1..Len(file) : Turn(n) <=> (n > 1 /\ n <= K)
  PROVE  load \in Seq(Nat) /\ Len(load) = K - 1 /\ Counts(load)
<1> DEFINE L == Len(file)
<1>1. L \in Nat /\ K \in Nat
  OBVIOUS
<1>2. \A n \in 1..L : file[n].recs # <<>> /\ file[n].recs[1] = n - 1
  <2>1. ASSUME NEW n \in 1..L PROVE file[n].recs # <<>> /\ file[n].recs[1] = n - 1
    <3>1. file[n].recs = <<n - 1>>
      OBVIOUS
    <3>2. QED
      BY <3>1
  <2>2. QED
    BY <2>1
<1>3. PICK h \in [0..L -> Seq(Nat)] :
           /\ h[0] = <<>>
           /\ \A n \in 1..L : h[n] = IF Turn(n) THEN Append(h[n - 1], file[n].recs[1]) ELSE h[n - 1]
           /\ load = h[L]
  BY <1>2, LoadRuns
<1> DEFINE Size(n) == IF n = 0 THEN 0 ELSE IF n <= K THEN n - 1 ELSE K - 1
           Good == {n \in 0..L : Len(h[n]) = Size(n) /\ Counts(h[n])}
<1>4. 0 \in Good
  BY <1>1, <1>3 DEF Counts
<1>5. ASSUME NEW n \in 1..L, n - 1 \in Good PROVE n \in Good
  <2>1. Len(h[n - 1]) = Size(n - 1) /\ Counts(h[n - 1]) /\ n \in 0..L /\ n - 1 \in 0..L
    BY <1>1, <1>5
  <2>2. PICK q \in Seq(Nat) : q = h[n - 1]
    BY <1>3, <2>1
  <2>3. CASE n > 1 /\ n <= K
    <3>1. h[n] = Append(q, n - 1)
      BY <1>2, <1>3, <2>2, <2>3
    <3>2. Len(q) = n - 2 /\ Counts(q) /\ n - 1 \in Nat
      BY <1>1, <2>1, <2>2, <2>3
    <3>3. Len(Append(q, n - 1)) = n - 1 /\ \A i \in 1..(n - 1) : Append(q, n - 1)[i] = IF i = n - 1 THEN n - 1 ELSE q[i]
      BY <2>3, <3>2
    <3>4. \A i \in 1..(n - 1) : i # n - 1 => i \in 1..(n - 2)
      BY <2>3
    <3>5. Counts(Append(q, n - 1))
      BY <3>2, <3>3, <3>4 DEF Counts
    <3>6. Size(n) = n - 1
      BY <1>1, <2>3
    <3>7. Len(h[n]) = Size(n) /\ Counts(h[n])
      BY <3>1, <3>3, <3>5, <3>6
    <3>8. QED
      BY <2>1, <3>7
  <2>4. CASE ~(n > 1 /\ n <= K)
    <3>1. h[n] = q
      BY <1>3, <2>2, <2>4
    <3>2. Size(n) = Size(n - 1)
      BY <1>1, <2>4
    <3>3. QED
      BY <2>1, <2>2, <3>1, <3>2
  <2>5. QED
    BY <2>3, <2>4
<1>6. 0..L \subseteq Good
  <2> HIDE DEF Good
  <2>1. QED
    BY <1>1, <1>4, <1>5, Segment
<1>7. L \in 0..L /\ L # 0 /\ K <= L
  BY <1>1
<1>8. Len(load) = Size(L) /\ Counts(load) /\ load \in Seq(Nat)
  BY <1>3, <1>6, <1>7
<1>9. Size(L) = K - 1
  BY <1>1, <1>7
<1>10. QED
  BY <1>8, <1>9

\* The last turn given to the writer, and the last one its lines may hold.
Given == Len(log) - Len(queue)
Reach == IF stage = "none" /\ buf # <<>> THEN Given - 1 ELSE Given
Newest(line) == line.recs[Len(line.recs)]

LogTypes ==
  /\ file \in Seq(LogLines) /\ buf \in Seq(Nat) /\ queue \in Seq(Nat) /\ messages \in Seq(Nat)
  /\ log \in Seq(TurnKinds) /\ flushed \subseteq Nat /\ crashes \in Nat
  /\ stage \in Ends \cup {"none"} /\ lazy \in BOOLEAN /\ process \in {"up", "exiting", "down"}

\* The queue is the last turns pushed, the buffer the one before them, alone or
\* behind the header.
Waiting ==
  /\ Len(queue) <= Len(log) /\ \A i \in 1..Len(queue) : queue[i] = Given + i
  /\ buf = <<>> \/ (Given >= 1 /\ (buf = <<Given>> \/ buf = <<0, Given>>))
  /\ process = "down" => buf = <<>> /\ queue = <<>>

\* A record that is partly written is the newest of the open last line.
Writing ==
  stage # "none" => /\ buf # <<>> /\ file # <<>>
                    /\ file[Len(file)].end = stage /\ Newest(file[Len(file)]) = buf[1]

\* The header is written first, by the process that created the file.
HeaderFirst ==
  /\ lazy => file = <<>> /\ buf = <<>>
  /\ process # "down" /\ file = <<>> /\ ~lazy => buf # <<>> /\ buf[1] = 0
  /\ buf # <<>> /\ buf[1] = 0 => file = <<>> \/ (stage # "none" /\ Len(file) = 1 /\ file[1].recs = <<0>>)

LinesRise ==
  /\ \A i \in 1..Len(file) : /\ file[i].recs # <<>> /\ (i = Len(file) \/ file[i].end = "ended")
                             /\ i = 1 => file[i].recs[1] = 0
                             /\ i > 1 => file[i].recs[1] >= 1
                             /\ file[i].recs[1] <= Reach
  /\ \A i, j \in 1..Len(file) : i < j => file[i].recs[1] < file[j].recs[1]

FlushedEnd == \A t \in flushed : \E i \in 1..Len(file) : file[i].end = "ended" /\ Newest(file[i]) = t

\* A line of several records, and an open line that will become one, cost a crash each.
Joined == {i \in 1..Len(file) : Len(file[i].recs) > 1}
JoinedFew == Cardinality(Joined) + (IF Open /\ stage = "none" THEN 1 ELSE 0) <= crashes

\* Until the first crash each line is one turn, and everything has its number.
Unbroken ==
  crashes = 0 =>
    /\ \A i \in 1..Len(file) : file[i].recs = <<i - 1>> /\ ~file[i].bad
    /\ Len(messages) = Len(log) /\ Counts(messages)
    /\ IF file = <<>> /\ buf = <<>> THEN Given = 0
       ELSE Len(file) - 1 = Given - Len(buf) + (IF stage = "none" THEN 0 ELSE 1)

LogInv ==
  LogTypes /\ Waiting /\ Writing /\ HeaderFirst /\ LinesRise /\ FlushedEnd /\ JoinedFew /\ Unbroken

LEMMA LineFacts ==
  ASSUME LogTypes, LinesRise, NEW i \in 1..Len(file)
  PROVE  /\ Len(file) \in Nat /\ file[i] \in LogLines /\ file[i].recs \in Seq(Nat) /\ file[i].recs # <<>>
         /\ Len(file[i].recs) \in Nat \ {0} /\ file[i].recs[1] \in Nat /\ Newest(file[i]) \in Nat
<1>1. file[i] \in LogLines /\ Len(file) \in Nat
  BY ElementOfSeq DEF LogTypes
<1>2. PICK r \in Seq(Nat) : r = file[i].recs /\ r # <<>>
  BY <1>1 DEF LogLines, LinesRise
<1>3. Len(r) \in Nat \ {0} /\ 1 \in 1..Len(r) /\ Len(r) \in 1..Len(r)
  BY <1>2, EmptySeq
<1>4. r[1] \in Nat /\ r[Len(r)] \in Nat
  BY <1>3, ElementOfSeq
<1>5. QED
  BY <1>1, <1>2, <1>3, <1>4 DEF Newest

\* A line is a turn that load gives back unless it is torn or comes after a cut.
LEMMA TurnLine ==
  ASSUME LogTypes, LinesRise, NEW n \in 1..Len(file)
  PROVE  Turn(n) <=> (n > 1 /\ (\A j \in 1..n : Readable(file[j])) /\ Parses(file[n]))
<1>1. DOMAIN file = 1..Len(file)
  BY DEF LogTypes
<1>2. QED
  BY <1>1 DEF Turn, Reached

LEMMA InvLoadsInOrder == ASSUME LogInv PROVE LoadInOrder
<1>1. LogTypes /\ LinesRise /\ Waiting
  BY DEF LogInv
<1>2. \A i \in 1..Len(file) : file[i].recs # <<>> /\ file[i].recs[1] \in Nat
  BY <1>1, LineFacts
<1>3. file \in Seq(LogLines) /\ \A i, j \in 1..Len(file) : i < j => file[i].recs[1] < file[j].recs[1]
  BY <1>1 DEF LogTypes, LinesRise
<1>4. /\ load \in Seq(Nat) /\ Rising(load)
      /\ \A k \in 1..Len(load) : \E n \in 1..Len(file) : Turn(n) /\ load[k] = file[n].recs[1]
  BY <1>2, <1>3, LoadSays
<1>5. Len(log) \in Nat /\ DOMAIN log = 1..Len(log) /\ Len(queue) \in Nat /\ DOMAIN load = 1..Len(load)
  BY <1>1, <1>4 DEF LogTypes
<1>6. ASSUME NEW k \in 1..Len(load) PROVE load[k] \in 1..Len(log)
  <2>1. PICK n \in 1..Len(file) : Turn(n) /\ load[k] = file[n].recs[1]
    BY <1>4
  <2>2. n > 1
    BY <2>1 DEF Turn
  <2>3. file[n].recs[1] >= 1 /\ file[n].recs[1] <= Reach /\ file[n].recs[1] \in Nat
    BY <1>1, <1>2, <2>2 DEF LinesRise
  <2>4. Reach <= Len(log) /\ Reach \in Int
    BY <1>1, <1>5 DEF Reach, Given, Waiting
  <2>5. QED
    BY <1>5, <2>1, <2>3, <2>4
<1>7. CASE Loadable
  BY <1>4, <1>5, <1>6, <1>7 DEF LoadInOrder, Loaded, Rising
<1>8. CASE ~Loadable
  BY <1>8 DEF LoadInOrder, Loaded
<1>9. QED
  BY <1>7, <1>8

LEMMA InvBoundsLoss == ASSUME LogInv PROVE LossBounded
<1>1. SUFFICES ASSUME Loadable, \A i \in DOMAIN file : ~file[i].bad
               PROVE  Cardinality(Turns \ Range(Loaded)) <= crashes
  BY DEF LossBounded
<1>2. LogTypes /\ LinesRise /\ FlushedEnd /\ JoinedFew
  BY DEF LogInv
<1>3. file \in Seq(LogLines) /\ Len(file) \in Nat /\ DOMAIN file = 1..Len(file) /\ crashes \in Nat
  BY <1>2 DEF LogTypes
<1>4. /\ load \in Seq(Nat)
      /\ \A n \in 1..Len(file) : Turn(n) => \E k \in 1..Len(load) : load[k] = file[n].recs[1]
  <2>1. \A i \in 1..Len(file) : file[i].recs # <<>> /\ file[i].recs[1] \in Nat
    BY <1>2, LineFacts
  <2>2. QED
    BY <1>3, <2>1, LoadSays
<1> DEFINE Lost == Turns \ Range(Loaded)
           g == [i \in Joined |-> Newest(file[i])]
<1>5. ASSUME NEW t \in Lost PROVE \E i \in Joined : Newest(file[i]) = t
  <2>1. t \in flushed /\ t # 0 /\ t \notin Range(load)
    BY <1>1 DEF Turns, Loaded
  <2> HIDE DEF Lost, g
  <2>2. PICK i \in 1..Len(file) : file[i].end = "ended" /\ Newest(file[i]) = t
    BY <1>2, <2>1 DEF FlushedEnd
  <2>3. SUFFICES ASSUME i \notin Joined PROVE FALSE
    BY <2>2
  <2>4. Len(file[i].recs) = 1 /\ file[i].recs[1] = t
    <3>1. Len(file[i].recs) \in Nat \ {0}
      BY <1>2, <2>2, LineFacts
    <3>a. ~(Len(file[i].recs) > 1)
      BY <2>3 DEF Joined
    <3>b. PICK c \in Nat \ {0} : c = Len(file[i].recs)
      BY <3>1
    <3>c. ~(c > 1)
      BY <3>a, <3>b
    <3>d. c = 1
      BY <3>c
    <3>2. Len(file[i].recs) = 1
      BY <3>b, <3>d, Zenon
    <3>3. QED
      BY <2>2, <3>2 DEF Newest
  <2>5. i > 1
    <3>1. i = 1 => file[i].recs[1] = 0
      BY <1>2 DEF LinesRise
    <3>2. i \in Nat \ {0}
      BY <1>3
    <3>3. QED
      BY <2>1, <2>4, <3>1, <3>2
  <2>6. ASSUME NEW j \in 1..i PROVE Readable(file[j])
    <3>0. Len(file) \in Nat /\ i \in Nat
      BY <1>3
    <3>1. j \in 1..Len(file) /\ (j = i \/ j # Len(file))
      BY <3>0
    <3>2. file[j].end = "ended"
      BY <1>2, <2>2, <3>1 DEF LinesRise
    <3>3. ~file[j].bad
      BY <1>1, <1>3, <3>1
    <3>4. QED
      BY <3>2, <3>3 DEF Readable
  <2>7. Parses(file[i])
    BY <2>2, <2>4 DEF Parses
  <2>8. Turn(i)
    BY <1>2, <2>5, <2>6, <2>7, TurnLine
  <2>9. PICK k \in 1..Len(load) : load[k] = t
    BY <1>4, <2>4, <2>8
  <2>10. k \in DOMAIN load
    BY <1>4
  <2>11. QED
    BY <2>1, <2>9, <2>10 DEF Range
<1>6. IsFiniteSet(Joined)
  <2>1. IsFiniteSet(1..Len(file))
    BY <1>3, FS_Interval
  <2>2. QED
    BY <2>1, FS_Subset DEF Joined
<1>7. g \in Surjection(Joined, Range(g))
  BY DEF Surjection, Range
<1>8. IsFiniteSet(Range(g)) /\ Cardinality(Range(g)) <= Cardinality(Joined) /\ Cardinality(Joined) \in Nat
  BY <1>6, <1>7, FS_Surjection, FS_CardinalityType
<1>9. Lost \in SUBSET Range(g)
  BY <1>5 DEF Range
<1>10. Cardinality(Lost) <= Cardinality(Range(g)) /\ IsFiniteSet(Lost)
  BY <1>8, <1>9, FS_Subset
<1>11. Cardinality(Lost) \in Nat /\ Cardinality(Range(g)) \in Nat
  BY <1>8, <1>10, FS_CardinalityType
<1>12. Cardinality(Joined) <= crashes
  BY <1>2, <1>3, <1>8 DEF JoinedFew
<1> HIDE DEF g
<1>13. QED
  BY <1>3, <1>8, <1>10, <1>11, <1>12

\* Two sequences of the same length that both count are the same.
LEMMA CountSame ==
  ASSUME NEW p \in Seq(Nat), NEW q \in Seq(Nat), Len(p) = Len(q), Counts(p), Counts(q)
  PROVE  p = q
<1>1. Len(p) \in Nat /\ \A i \in 1..Len(p) : p[i] = q[i]
  BY DEF Counts
<1>2. QED
  BY <1>1, SeqEqual

\* Counting goes on in a sequence appended.
LEMMA CountsOn ==
  ASSUME NEW p \in Seq(Nat), NEW q \in Seq(Nat), Counts(p), \A i \in 1..Len(q) : q[i] = Len(p) + i
  PROVE  p \o q \in Seq(Nat) /\ Len(p \o q) = Len(p) + Len(q) /\ Counts(p \o q)
<1>1. Len(p) \in Nat /\ Len(q) \in Nat /\ p \o q \in Seq(Nat) /\ Len(p \o q) = Len(p) + Len(q)
  OBVIOUS
<1>2. ASSUME NEW i \in 1..(Len(p) + Len(q)) PROVE (p \o q)[i] = i
  <2>1. (p \o q)[i] = IF i <= Len(p) THEN p[i] ELSE q[i - Len(p)]
    OBVIOUS
  <2>2. CASE i <= Len(p)
    <3>1. i \in 1..Len(p)
      BY <1>1, <2>2
    <3>2. QED
      BY <2>1, <2>2, <3>1 DEF Counts
  <2>3. CASE ~(i <= Len(p))
    <3>1. i - Len(p) \in 1..Len(q) /\ Len(p) + (i - Len(p)) = i
      BY <1>1, <2>3
    <3>2. QED
      BY <2>1, <2>3, <3>1
  <2>4. QED
    BY <2>2, <2>3
<1>3. QED
  BY <1>1, <1>2 DEF Counts

LEMMA InvMissesNothing == ASSUME LogInv PROVE NothingMissing
<1>1. SUFFICES ASSUME crashes = 0, Loadable
               PROVE  /\ \A i \in DOMAIN messages : messages[i] \in Range(Loaded) \cup Range(buf) \cup Range(queue)
                      /\ process = "down" => Loaded = messages
                      /\ stage = "none" => messages = Loaded \o (IF buf # <<>> /\ Head(buf) = 0 THEN Tail(buf) ELSE buf) \o queue
  BY DEF NothingMissing
<1>2. LogTypes /\ Waiting /\ Writing /\ HeaderFirst /\ LinesRise /\ JoinedFew /\ Unbroken
  BY DEF LogInv
<1>3. /\ file \in Seq(LogLines) /\ buf \in Seq(Nat) /\ queue \in Seq(Nat) /\ messages \in Seq(Nat)
      /\ Len(file) \in Nat /\ Len(log) \in Nat /\ Len(queue) \in Nat /\ Len(messages) \in Nat /\ Len(buf) \in Nat
      /\ DOMAIN messages = 1..Len(messages) /\ DOMAIN queue = 1..Len(queue)
  BY <1>2 DEF LogTypes
<1>l. PICK L \in Nat : L = Len(file)
  BY <1>3
<1>q. PICK Q \in Nat : Q = Len(queue)
  BY <1>3
<1>b. PICK B \in Nat : B = Len(buf)
  BY <1>3
<1>g. PICK G \in Nat : G = Given /\ Len(log) = G + Q
  <2>1. Given \in Nat /\ Len(log) = Given + Len(queue)
    BY <1>2, <1>3 DEF Waiting, Given
  <2>2. QED
    BY <1>q, <2>1
<1>4. file # <<>> /\ L >= 1 /\ Loaded = load
  <2>1. file # <<>> /\ Len(file) # 0
    BY <1>1, <1>3, EmptySeq DEF Loadable
  <2>2. L # 0
    BY <1>l, <2>1
  <2>3. QED
    BY <1>1, <2>1, <2>2 DEF Loaded
<1>5. (\A i \in 1..L : file[i].recs = <<i - 1>> /\ ~file[i].bad) /\ Len(messages) = G + Q /\ Counts(messages)
  BY <1>1, <1>2, <1>g, <1>l DEF Unbroken
<1>6. \A i \in 1..Q : queue[i] = G + i
  BY <1>2, <1>g, <1>q DEF Waiting
<1>7. L - 1 = G - B + (IF stage = "none" THEN 0 ELSE 1)
  BY <1>1, <1>2, <1>4, <1>l, <1>g, <1>b DEF Unbroken
<1>8. ASSUME NEW i \in 1..L, NEW m \in 1..i, file[i].end = "ended" PROVE file[m].end = "ended"
  <2>1. m \in 1..L /\ (m = L => m = i)
    OBVIOUS
  <2>2. QED
    BY <1>2, <1>8, <1>l, <2>1 DEF LinesRise
<1>9. ASSUME NEW i \in 1..L, i > 1, file[i].end = "ended" PROVE Turn(i)
  <2>1. ASSUME NEW m \in 1..i PROVE Readable(file[m])
    <3>1. file[m].end = "ended" /\ m \in 1..L
      BY <1>3, <1>8, <1>9
    <3>2. ~file[m].bad
      BY <1>5, <3>1
    <3>3. QED
      BY <3>1, <3>2 DEF Readable
  <2>2. Parses(file[i])
    <3>1. file[i].recs = <<i - 1>>
      BY <1>5
    <3>2. Len(file[i].recs) = 1
      BY <3>1
    <3>3. QED
      BY <1>9, <3>2 DEF Parses
  <2>3. QED
    BY <1>2, <1>9, <1>l, <2>1, <2>2, TurnLine
<1>10. ASSUME stage = "none" PROVE \A i \in 1..L : file[i].end = "ended"
  <2>1. ~Open
    <3>1. IsFiniteSet(Joined)
      <4>1. IsFiniteSet(1..L)
        BY FS_Interval
      <4>2. QED
        BY <1>l, <4>1, FS_Subset DEF Joined
    <3>2. Cardinality(Joined) \in Nat
      BY <3>1, FS_CardinalityType
    <3>3. QED
      BY <1>1, <1>2, <1>10, <3>2 DEF JoinedFew
  <2>2. file[L].end = "ended"
    BY <1>4, <1>l, <2>1 DEF Open, Last
  <2>3. L \in 1..L
    BY <1>3, <1>4
  <2>4. QED
    BY <1>8, <2>2, <2>3
<1>11. ASSUME stage = "none" PROVE load \in Seq(Nat) /\ Len(load) = L - 1 /\ Counts(load)
  <2>1. \A i \in 1..L : Turn(i) <=> (i > 1 /\ i <= L)
    <3>1. \A i \in 1..L : Turn(i) => i > 1
      BY DEF Turn
    <3>2. QED
      BY <1>9, <1>10, <1>11, <3>1
  <2>2. L \in 1..L
    BY <1>3, <1>4
  <2>3. QED
    BY <1>3, <1>5, <1>l, <2>1, <2>2, LoadCounts
<1>12. buf = <<>> \/ buf = <<G>> \/ (buf = <<0, G>> /\ stage # "none" /\ L = 1)
  <2>1. CASE buf = <<0, G>>
    <3>1. buf # <<>> /\ buf[1] = 0
      BY <2>1
    <3>2. QED
      BY <1>2, <1>4, <1>l, <2>1, <3>1 DEF HeaderFirst
  <2>2. QED
    BY <1>2, <1>g, <2>1 DEF Waiting
<1> DEFINE rest == IF buf # <<>> /\ Head(buf) = 0 THEN Tail(buf) ELSE buf
<1>13. ASSUME stage = "none" PROVE messages = load \o rest \o queue
  <2>1. PICK p \in Seq(Nat) : p = load /\ Len(p) = L - 1 /\ Counts(p)
    BY <1>11, <1>13
  <2>2. \E r \in Seq(Nat) : r = load \o rest /\ Len(r) = G /\ Counts(r)
    <3>1. CASE buf = <<>>
      <4>1. rest = <<>> /\ B = 0
        BY <1>b, <3>1
      <4>2. L - 1 = G
        BY <1>7, <1>13, <4>1
      <4>3. p \o <<>> = p
        OBVIOUS
      <4>4. load \o rest = p
        BY <2>1, <4>1, <4>3, Zenon
      <4>5. QED
        BY <2>1, <4>2, <4>4
    <3>2. CASE buf = <<G>>
      <4>1. B = 1 /\ buf # <<>> /\ Head(buf) = G
        BY <1>b, <3>2
      <4>2. L = G /\ G # 0
        BY <1>4, <1>7, <1>13, <4>1
      <4>3. rest = <<G>>
        BY <3>2, <4>1, <4>2
      <4>4. <<G>> \in Seq(Nat) /\ Len(<<G>>) = 1 /\ \A i \in 1..1 : <<G>>[i] = Len(p) + i
        BY <2>1, <4>2
      <4>5. p \o <<G>> \in Seq(Nat) /\ Len(p \o <<G>>) = Len(p) + 1 /\ Counts(p \o <<G>>)
        BY <2>1, <4>4, CountsOn
      <4>6. load \o rest = p \o <<G>>
        BY <2>1, <4>3, Zenon
      <4>7. Len(p) + 1 = G
        BY <2>1, <4>2
      <4>8. QED
        BY <4>5, <4>6, <4>7
    <3>3. QED
      BY <1>12, <1>13, <3>1, <3>2
  <2> HIDE DEF rest
  <2>3. PICK r \in Seq(Nat) : r = load \o rest /\ Len(r) = G /\ Counts(r)
    BY <2>2
  <2>4. r \o queue \in Seq(Nat) /\ Len(r \o queue) = G + Q /\ Counts(r \o queue)
    BY <1>3, <1>6, <1>q, <2>3, CountsOn
  <2>5. messages = r \o queue
    BY <1>3, <1>5, <2>4, CountSame
  <2>6. QED
    BY <2>3, <2>5, Zenon
<1>14. ASSUME NEW i \in DOMAIN messages PROVE messages[i] \in Range(load) \cup Range(buf) \cup Range(queue)
  <2>1. messages[i] = i /\ i \in 1..(G + Q)
    BY <1>3, <1>5 DEF Counts
  <2>2. CASE i > G
    <3>1. i - G \in 1..Q /\ G + (i - G) = i
      BY <2>1, <2>2
    <3>2. queue[i - G] = i
      BY <1>6, <3>1
    <3>3. QED
      BY <1>3, <1>q, <2>1, <3>1, <3>2 DEF Range
  <2>3. CASE i = G /\ buf # <<>>
    <3>1. CASE buf = <<G>>
      <4>1. 1 \in DOMAIN buf /\ buf[1] = G
        BY <3>1
      <4>2. QED
        BY <2>1, <2>3, <4>1 DEF Range
    <3>2. CASE buf = <<0, G>>
      <4>1. 2 \in DOMAIN buf /\ buf[2] = G
        BY <3>2
      <4>2. QED
        BY <2>1, <2>3, <4>1 DEF Range
    <3>3. QED
      BY <1>12, <2>3, <3>1, <3>2
  <2>4. CASE i <= G /\ ~(i = G /\ buf # <<>>)
    <3>1. i + 1 \in 1..L /\ (stage = "none" \/ i + 1 # L)
      <4>1. CASE buf = <<>>
        <5>1. stage = "none" /\ B = 0
          BY <1>2, <1>b, <4>1 DEF Writing
        <5>2. QED
          BY <1>7, <2>1, <2>4, <4>1, <5>1
      <4>2. CASE buf = <<G>>
        <5>1. B = 1 /\ buf # <<>>
          BY <1>b, <4>2
        <5>2. i < G
          BY <2>1, <2>4, <5>1
        <5>3. QED
          BY <1>7, <2>1, <5>1, <5>2
      <4>3. CASE buf = <<0, G>> /\ stage # "none" /\ L = 1
        <5>1. B = 2 /\ buf # <<>>
          BY <1>b, <4>3
        <5>2. QED
          BY <1>7, <2>1, <2>4, <4>3, <5>1
      <4>4. QED
        BY <1>12, <4>1, <4>2, <4>3
    <3>2. file[i + 1].end = "ended"
      BY <1>2, <1>l, <1>10, <3>1 DEF LinesRise
    <3>3. i + 1 > 1 /\ (i + 1) - 1 = i
      BY <2>1
    <3>4. Turn(i + 1)
      BY <1>9, <3>1, <3>2, <3>3
    <3>5. /\ load \in Seq(Nat)
          /\ \A n \in 1..L : Turn(n) => \E k \in 1..Len(load) : load[k] = file[n].recs[1]
      <4>1. \A k \in 1..L : file[k].recs # <<>> /\ file[k].recs[1] \in Nat
        BY <1>2, <1>l, LineFacts
      <4>2. QED
        BY <1>3, <1>l, <4>1, LoadSays
    <3>6. PICK k \in 1..Len(load) : load[k] = file[i + 1].recs[1]
      BY <3>1, <3>4, <3>5
    <3>7. file[i + 1].recs[1] = i
      <4>1. file[i + 1].recs = <<(i + 1) - 1>>
        BY <1>5, <3>1
      <4>2. QED
        BY <3>3, <4>1
    <3>8. k \in DOMAIN load
      BY <3>5
    <3>9. QED
      BY <2>1, <3>6, <3>7, <3>8 DEF Range
  <2>5. QED
    BY <2>1, <2>2, <2>3, <2>4
<1>15. ASSUME process = "down" PROVE load = messages
  <2>1. buf = <<>> /\ queue = <<>> /\ stage = "none"
    BY <1>2, <1>15 DEF Waiting, Writing
  <2>2. load \in Seq(Nat) /\ Len(load) = L - 1 /\ Counts(load) /\ B = 0 /\ Q = 0
    BY <1>11, <1>b, <1>q, <2>1
  <2>3. Len(load) = Len(messages)
    BY <1>5, <1>7, <2>1, <2>2
  <2>4. QED
    BY <1>3, <1>5, <2>2, <2>3, CountSame
<1>16. QED
  BY <1>1, <1>4, <1>13, <1>14, <1>15

-----------------------------------------------------------------------------
(* What a write leaves in the file.                                        *)

Marks == Ends \cup {"ended"}

\* It starts a line of its own after a closed one ...
LEMMA PutNew ==
  ASSUME LogTypes, buf # <<>>, ~Open, NEW e \in Marks, Put(e)
  PROVE  /\ file' \in Seq(LogLines) /\ Len(file') = Len(file) + 1
         /\ \A i \in 1..Len(file) : file'[i] = file[i]
         /\ file'[Len(file')] = [recs |-> <<buf[1]>>, end |-> e, bad |-> FALSE]
<1>1. PICK f \in Seq(LogLines) : f = file
  BY DEF LogTypes
<1>2. PICK b \in Nat : b = buf[1] /\ b = Head(buf)
  <2>1. Len(buf) \in Nat \ {0} /\ 1 \in 1..Len(buf)
    BY EmptySeq DEF LogTypes
  <2>2. buf[1] \in Nat /\ Head(buf) = buf[1]
    BY <2>1, ElementOfSeq DEF LogTypes
  <2>3. QED
    BY <2>2
<1>3. PICK l \in LogLines : l = [recs |-> <<b>>, end |-> e, bad |-> FALSE]
  <2>1. <<b>> \in Seq(Nat)
    OBVIOUS
  <2>2. QED
    BY <2>1 DEF LogLines, Marks
<1>4. file' = Append(f, l)
  BY <1>1, <1>2, <1>3 DEF Put, Line
<1>5. Append(f, l) \in Seq(LogLines) /\ Len(Append(f, l)) = Len(f) + 1 /\ \A i \in 1..Len(f) : Append(f, l)[i] = f[i]
  OBVIOUS
<1>6. Append(f, l)[Len(f) + 1] = l
  OBVIOUS
<1>7. QED
  BY <1>1, <1>2, <1>3, <1>4, <1>5, <1>6

\* ... and goes on with an open one.
LEMMA PutOld ==
  ASSUME LogTypes, buf # <<>>, Open, file[Len(file)].recs \in Seq(Nat), NEW e \in Marks, Put(e)
  PROVE  /\ file' \in Seq(LogLines) /\ Len(file') = Len(file) /\ Len(file) \in Nat \ {0}
         /\ \A i \in 1..Len(file) : i # Len(file) => file'[i] = file[i]
         /\ file'[Len(file')].end = e
         /\ stage # "none" => file'[Len(file')].recs = file[Len(file)].recs /\ file'[Len(file')].bad = file[Len(file)].bad
         /\ stage = "none" => file'[Len(file')].recs = Append(file[Len(file)].recs, buf[1])
<1>1. PICK f \in Seq(LogLines) : f = file /\ f # <<>>
  BY DEF LogTypes, Open
<1>2. PICK b \in Nat : b = buf[1] /\ b = Head(buf)
  <2>1. Len(buf) \in Nat \ {0} /\ 1 \in 1..Len(buf)
    BY EmptySeq DEF LogTypes
  <2>2. buf[1] \in Nat /\ Head(buf) = buf[1]
    BY <2>1, ElementOfSeq DEF LogTypes
  <2>3. QED
    BY <2>2
<1>3. Len(f) \in Nat \ {0} /\ Len(f) \in 1..Len(f)
  BY <1>1, EmptySeq
<1>4. PICK m \in Nat \ {0} : m = Len(f)
  BY <1>3
<1>5. PICK o \in LogLines : o = f[m]
  BY <1>3, <1>4, ElementOfSeq
<1>6. PICK r \in Seq(Nat) : r = o.recs
  BY <1>5 DEF LogLines
<1>7. PICK l \in LogLines : l = IF stage # "none" THEN [o EXCEPT !.end = e] ELSE [recs |-> Append(r, b), end |-> e, bad |-> (o.bad \/ o.end = "cut")]
  <2>1. Append(r, b) \in Seq(Nat)
    OBVIOUS
  <2>2. QED
    BY <2>1 DEF LogLines, Marks
<1>8. Last(file) = o /\ Front(file) = SubSeq(f, 1, m - 1)
  BY <1>1, <1>4, <1>5 DEF Last, Front
<1>9. PICK g \in Seq(LogLines) : g = SubSeq(f, 1, m - 1) /\ Len(g) = m - 1 /\ \A i \in 1..(m - 1) : g[i] = f[i]
  <2>1. SubSeq(f, 1, m - 1) \in Seq(LogLines) /\ Len(SubSeq(f, 1, m - 1)) = m - 1
    BY <1>4
  <2>2. \A i \in 1..(m - 1) : SubSeq(f, 1, m - 1)[i] = f[i]
    BY <1>4
  <2>3. QED
    BY <2>1, <2>2
<1>10. file' = Append(g, l)
  BY <1>2, <1>6, <1>7, <1>8, <1>9 DEF Put, Line
<1>11. Append(g, l) \in Seq(LogLines) /\ Len(Append(g, l)) = m /\ \A i \in 1..(m - 1) : Append(g, l)[i] = g[i]
  BY <1>9
<1>12. Append(g, l)[m] = l
  BY <1>9
<1>13. \A i \in 1..m : i # m => i \in 1..(m - 1)
  OBVIOUS
<1>14. l.end = e /\ (stage # "none" => l.recs = r /\ l.bad = o.bad) /\ (stage = "none" => l.recs = Append(r, b))
  BY <1>5, <1>6, <1>7 DEF LogLines
<1>15. Len(file) = m /\ Len(file') = m /\ file'[m] = l /\ file[m] = o
  BY <1>1, <1>4, <1>5, <1>10, <1>11, <1>12
<1>16. \A i \in 1..m : i # m => file'[i] = file[i]
  BY <1>1, <1>9, <1>10, <1>11, <1>13
<1>17. file' \in Seq(LogLines)
  BY <1>10, <1>11
<1>18. QED
  BY <1>2, <1>6, <1>14, <1>15, <1>16, <1>17

\* More of the buffer's first record is on disk: part of it, or its newline too.
Wrote(e) ==
  /\ Put(e)
  /\ IF e = "ended" THEN stage' = "none" /\ buf' = Tail(buf) /\ flushed' = flushed \cup {Head(buf)}
     ELSE stage' = e /\ buf' = buf /\ flushed' = flushed
  /\ UNCHANGED <<lazy, queue, messages, process, next, log, crashes>>

\* The buffer holds the turn given last, alone or behind the header.
LEMMA BufSays ==
  ASSUME LogTypes, Waiting, buf # <<>>
  PROVE  \E G \in Nat \ {0} : /\ G = Given /\ buf[1] \in Nat /\ Head(buf) = buf[1]
                              /\ \/ buf = <<G>> /\ buf[1] = G /\ Tail(buf) = <<>> /\ Len(buf) = 1
                                 \/ buf = <<0, G>> /\ buf[1] = 0 /\ Tail(buf) = <<G>> /\ Len(buf) = 2
<1>1. Len(log) \in Nat /\ Len(queue) \in Nat /\ Len(queue) <= Len(log)
  BY DEF LogTypes, Waiting
<1>2. PICK G \in Nat \ {0} : G = Given
  BY <1>1 DEF Waiting, Given
<1>3. CASE buf = <<G>>
  <2>1. <<G>>[1] = G /\ Tail(<<G>>) = <<>> /\ Len(<<G>>) = 1 /\ Head(<<G>>) = G
    OBVIOUS
  <2>2. QED
    BY <1>2, <1>3, <2>1
<1>4. CASE buf = <<0, G>>
  <2>1. <<0, G>>[1] = 0 /\ Tail(<<0, G>>) = <<G>> /\ Len(<<0, G>>) = 2 /\ Head(<<0, G>>) = 0
    OBVIOUS
  <2>2. QED
    BY <1>2, <1>4, <2>1
<1>5. QED
  BY <1>2, <1>3, <1>4 DEF Waiting

\* The last line after a write: a new one, the record's own, or a dead record's
\* line that it continues.
NewLine ==
  /\ ~Open /\ stage = "none" /\ Len(file') = Len(file) + 1
  /\ file'[Len(file')].recs = <<buf[1]>> /\ ~file'[Len(file')].bad
OwnLine ==
  /\ Open /\ stage # "none" /\ Len(file') = Len(file)
  /\ file'[Len(file')].recs = file[Len(file)].recs /\ file'[Len(file')].bad = file[Len(file)].bad
JoinsLine ==
  /\ Open /\ stage = "none" /\ Len(file') = Len(file)
  /\ file'[Len(file')].recs[1] = file[Len(file)].recs[1]

LEMMA WroteSays ==
  ASSUME LogInv, buf # <<>>, process # "down", NEW e \in Marks, Wrote(e)
  PROVE  /\ file' \in Seq(LogLines) /\ Len(file') \in Nat \ {0} /\ Len(file) \in Nat
         /\ \A i \in 1..Len(file') : i # Len(file') => i \in 1..Len(file) /\ file'[i] = file[i] /\ file[i].end = "ended"
         /\ \A i \in 1..Len(file) : file[i].end = "ended" => i \in 1..Len(file') /\ i # Len(file')
         /\ file'[Len(file')].end = e /\ file'[Len(file')].recs \in Seq(Nat) /\ file'[Len(file')].recs # <<>>
         /\ Newest(file'[Len(file')]) = buf[1]
         /\ NewLine \/ OwnLine \/ JoinsLine
         /\ (file = <<>>) <=> (buf[1] = 0 /\ stage = "none")
<1>1. LogTypes /\ Waiting /\ Writing /\ HeaderFirst /\ LinesRise /\ Put(e)
  BY DEF LogInv, Wrote
<1>2. PICK b \in Nat : b = buf[1]
  BY <1>1, BufSays
<1>3. PICK m \in Nat : m = Len(file)
  BY <1>1 DEF LogTypes
<1>4. (file = <<>>) <=> (buf[1] = 0 /\ stage = "none")
  <2>1. file = <<>> => buf[1] = 0
    BY <1>1 DEF HeaderFirst
  <2>2. file = <<>> => stage = "none"
    BY <1>1 DEF Writing
  <2>3. buf[1] = 0 /\ stage = "none" => file = <<>>
    BY <1>1 DEF HeaderFirst
  <2>4. QED
    BY <2>1, <2>2, <2>3
<1>5. CASE ~Open
  <2>1. /\ file' \in Seq(LogLines) /\ Len(file') = m + 1 /\ \A i \in 1..m : file'[i] = file[i]
        /\ file'[m + 1] = [recs |-> <<b>>, end |-> e, bad |-> FALSE]
    BY <1>1, <1>2, <1>3, <1>5, PutNew
  <2>2. stage = "none"
    <3>1. SUFFICES ASSUME stage # "none" PROVE FALSE
      OBVIOUS
    <3>2. file # <<>> /\ file[Len(file)].end = stage /\ stage # "ended"
      BY <1>1, <3>1 DEF Writing, LogTypes, Ends
    <3>3. QED
      BY <1>5, <3>2 DEF Open, Last
  <2>3. \A i \in 1..m : file[i].end = "ended"
    <3>1. ASSUME NEW i \in 1..m PROVE file[i].end = "ended"
      <4>1. i # m => file[i].end = "ended"
        BY <1>1, <1>3 DEF LinesRise
      <4>2. file # <<>>
        BY <1>3, <1>1, EmptySeq DEF LogTypes
      <4>3. i = m => file[i].end = "ended"
        BY <1>3, <1>5, <4>2 DEF Open, Last
      <4>4. QED
        BY <4>1, <4>3
    <3>2. QED
      BY <3>1
  <2>4. \A i \in 1..(m + 1) : i # m + 1 => i \in 1..m
    OBVIOUS
  <2>5. \A i \in 1..m : i \in 1..(m + 1) /\ i # m + 1
    OBVIOUS
  <2>6. /\ file'[m + 1].end = e /\ file'[m + 1].recs = <<b>> /\ ~file'[m + 1].bad
    BY <2>1
  <2>7. <<b>> \in Seq(Nat) /\ <<b>> # <<>> /\ Len(<<b>>) = 1 /\ <<b>>[1] = b
    OBVIOUS
  <2>8. Newest(file'[m + 1]) = b
    BY <2>6, <2>7 DEF Newest
  <2>9. NewLine
    BY <1>2, <1>3, <1>5, <2>1, <2>2, <2>6 DEF NewLine
  <2>10. m + 1 \in Nat \ {0}
    OBVIOUS
  <2>11. QED
    BY <1>2, <1>3, <1>4, <2>1, <2>3, <2>4, <2>5, <2>6, <2>7, <2>8, <2>9, <2>10
<1>6. CASE Open
  <2>1. m \in Nat \ {0} /\ m \in 1..m
    <3>1. file # <<>>
      BY <1>6 DEF Open
    <3>2. m # 0
      BY <1>1, <1>3, <3>1, EmptySeq DEF LogTypes
    <3>3. QED
      BY <3>2
  <2>2. PICK r \in Seq(Nat) : r = file[m].recs /\ r # <<>> /\ Len(r) \in Nat \ {0}
    BY <1>1, <1>3, <2>1, LineFacts
  <2>3. /\ file' \in Seq(LogLines) /\ Len(file') = m
        /\ \A i \in 1..m : i # m => file'[i] = file[i]
        /\ file'[m].end = e
        /\ stage # "none" => file'[m].recs = r /\ file'[m].bad = file[m].bad
        /\ stage = "none" => file'[m].recs = Append(r, b)
    BY <1>1, <1>2, <1>3, <1>6, <2>2, PutOld
  <2>4. file[m].end # "ended"
    BY <1>3, <1>6 DEF Open, Last
  <2>5. \A i \in 1..m : i # m => file[i].end = "ended"
    BY <1>1, <1>3 DEF LinesRise
  <2>6. CASE stage # "none"
    <3>1. Newest(file[m]) = b
      BY <1>1, <1>2, <1>3, <2>6 DEF Writing
    <3>2. Newest(file'[m]) = b
      BY <2>2, <2>3, <2>6, <3>1 DEF Newest
    <3>3. OwnLine
      BY <1>3, <1>6, <2>2, <2>3, <2>6 DEF OwnLine
    <3>4. QED
      BY <1>2, <1>3, <1>4, <2>1, <2>2, <2>3, <2>4, <2>5, <2>6, <3>2, <3>3
  <2>7. CASE stage = "none"
    <3>1. /\ Append(r, b) \in Seq(Nat) /\ Len(Append(r, b)) = Len(r) + 1
          /\ Append(r, b)[Len(r) + 1] = b /\ Append(r, b)[1] = r[1]
      BY <2>2
    <3>2. Append(r, b) # <<>>
      BY <2>2, <3>1
    <3>3. Newest(file'[m]) = b
      BY <2>3, <2>7, <3>1 DEF Newest
    <3>4. JoinsLine
      BY <1>3, <1>6, <2>2, <2>3, <2>7, <3>1 DEF JoinsLine
    <3>5. QED
      BY <1>2, <1>3, <1>4, <2>1, <2>3, <2>4, <2>5, <2>7, <3>1, <3>2, <3>3, <3>4
  <2>8. QED
    BY <2>6, <2>7
<1>7. QED
  BY <1>5, <1>6

LEMMA WroteInv ==
  ASSUME LogInv, buf # <<>>, process # "down", NEW e \in Marks, Wrote(e)
  PROVE  LogInv'
<1>1. LogTypes /\ Waiting /\ Writing /\ HeaderFirst /\ LinesRise /\ FlushedEnd /\ JoinedFew /\ Unbroken
  BY DEF LogInv
<1>2. PICK G \in Nat \ {0} : /\ G = Given /\ buf[1] \in Nat /\ Head(buf) = buf[1]
                             /\ \/ buf = <<G>> /\ buf[1] = G /\ Tail(buf) = <<>> /\ Len(buf) = 1
                                \/ buf = <<0, G>> /\ buf[1] = 0 /\ Tail(buf) = <<G>> /\ Len(buf) = 2
  BY <1>1, BufSays
<1>3. PICK m \in Nat : m = Len(file)
  BY <1>1 DEF LogTypes
<1>4. PICK n \in Nat \ {0} : n = Len(file')
  BY WroteSays
<1>5. /\ \A i \in 1..n : i # n => i \in 1..m /\ file'[i] = file[i] /\ file[i].end = "ended"
      /\ \A i \in 1..m : file[i].end = "ended" => i \in 1..n /\ i # n
      /\ file'[n].end = e /\ file'[n].recs # <<>> /\ Newest(file'[n]) = buf[1]
      /\ NewLine \/ OwnLine \/ JoinsLine
      /\ (file = <<>>) <=> (buf[1] = 0 /\ stage = "none")
  BY <1>3, <1>4, WroteSays
<1>6. n \in 1..n /\ file' # <<>>
  <2>1. file' \in Seq(LogLines)
    BY WroteSays
  <2>2. QED
    BY <1>4, <2>1
<1>7. (file = <<>>) <=> (m = 0)
  BY <1>1, <1>3, EmptySeq DEF LogTypes
<1>8. /\ lazy' = lazy /\ queue' = queue /\ messages' = messages /\ process' = process /\ log' = log /\ crashes' = crashes
      /\ Given' = G
  BY <1>2 DEF Wrote, Given
<1>9. \/ e = "ended" /\ stage' = "none" /\ buf' = Tail(buf) /\ flushed' = flushed \cup {buf[1]}
      \/ e \in Ends /\ stage' = e /\ stage' # "none" /\ buf' = buf /\ flushed' = flushed
  BY <1>2 DEF Wrote, Marks, Ends
<1>10. buf' = <<>> \/ buf' = <<G>> \/ (buf' = <<0, G>> /\ buf' = buf /\ stage' # "none" /\ e # "ended" /\ buf[1] = 0)
  BY <1>2, <1>9 DEF Ends
<1>11. LogTypes'
  <2>1. buf' \in Seq(Nat)
    <3>1. <<G>> \in Seq(Nat) /\ <<>> \in Seq(Nat) /\ <<0, G>> \in Seq(Nat)
      OBVIOUS
    <3>2. QED
      BY <1>10, <3>1
  <2>2. flushed' \subseteq Nat
    BY <1>1, <1>2, <1>9 DEF LogTypes
  <2>3. stage' \in Ends \cup {"none"}
    BY <1>9
  <2>4. QED
    BY <1>1, <1>8, <2>1, <2>2, <2>3, WroteSays DEF LogTypes
<1>12. Waiting'
  <2>1. \A i \in 1..Len(queue') : queue'[i] = Given' + i
    BY <1>1, <1>2, <1>8 DEF Waiting
  <2>2. buf' = <<>> \/ (Given' >= 1 /\ (buf' = <<Given'>> \/ buf' = <<0, Given'>>))
    BY <1>8, <1>10
  <2>3. QED
    BY <1>1, <1>8, <2>1, <2>2 DEF Waiting
<1>13. Writing'
  <2>1. SUFFICES ASSUME stage' # "none" PROVE Writing'
    BY DEF Writing
  <2>2. e \in Ends /\ stage' = e /\ buf' = buf
    BY <1>9, <2>1
  <2>3. file'[Len(file')].end = stage' /\ Newest(file'[Len(file')]) = buf'[1]
    BY <1>4, <1>5, <2>2
  <2>4. Newest(file'[Len(file')]) = Newest(file[Len(file)])'
    BY DEF Newest
  <2>5. QED
    BY <1>6, <2>2, <2>3, <2>4 DEF Writing
<1>14. HeaderFirst'
  <2>1. ~lazy
    BY <1>1 DEF HeaderFirst
  <2>2. ASSUME buf' # <<>>, buf'[1] = 0 PROVE stage' # "none" /\ n = 1 /\ file'[1].recs = <<0>>
    <3>1. buf' # <<G>>
      <4>1. <<G>>[1] = G
        OBVIOUS
      <4>2. QED
        BY <2>2, <4>1
    <3>2. stage' # "none" /\ buf[1] = 0
      BY <1>10, <2>2, <3>1
    <3>3. file = <<>> \/ (stage # "none" /\ m = 1 /\ file[1].recs = <<0>>)
      BY <1>1, <1>3, <3>2 DEF HeaderFirst
    <3>4. CASE file = <<>>
      <4>1. m = 0 /\ ~Open
        BY <1>7, <3>4 DEF Open
      <4>2. n = m + 1 /\ file'[n].recs = <<buf[1]>>
        BY <1>3, <1>4, <1>5, <4>1 DEF NewLine, OwnLine, JoinsLine
      <4>3. QED
        BY <3>2, <4>1, <4>2
    <3>5. CASE stage # "none" /\ m = 1 /\ file[1].recs = <<0>>
      <4>1. n = m /\ file'[n].recs = file[m].recs
        BY <1>3, <1>4, <1>5, <3>5 DEF NewLine, OwnLine, JoinsLine
      <4>2. QED
        BY <3>2, <3>5, <4>1
    <3>6. QED
      BY <3>3, <3>4, <3>5
  <2>3. QED
    BY <1>4, <1>6, <1>8, <2>1, <2>2 DEF HeaderFirst
<1>15. LinesRise'
  <2>1. PICK R \in Int : R = Reach /\ R = IF stage = "none" THEN G - 1 ELSE G
    BY <1>2 DEF Reach
  <2>2. PICK S \in Int : S = Reach' /\ S = IF stage' = "none" /\ buf' # <<>> THEN G - 1 ELSE G
    BY <1>8 DEF Reach
  <2>3. \A i \in 1..m : /\ file[i].recs # <<>> /\ (i = m \/ file[i].end = "ended")
                        /\ i = 1 => file[i].recs[1] = 0
                        /\ i > 1 => file[i].recs[1] >= 1
                        /\ file[i].recs[1] <= R /\ file[i].recs[1] \in Nat
    BY <1>1, <1>3, <2>1, LineFacts DEF LinesRise
  <2>4. \A i, j \in 1..m : i < j => file[i].recs[1] < file[j].recs[1]
    BY <1>1, <1>3 DEF LinesRise
  <2>5. S = G \/ (S = G - 1 /\ (R = G - 1 \/ m = 1) /\ buf[1] = 0)
    <3>1. SUFFICES ASSUME stage' = "none", buf' # <<>>, stage # "none" PROVE m = 1 /\ buf[1] = 0
      <4>1. stage' = "none" /\ buf' # <<>> => buf[1] = 0
        BY <1>2, <1>9
      <4>2. QED
        BY <2>1, <2>2, <3>1, <4>1
    <3>2. buf' = Tail(buf) /\ buf[1] = 0
      BY <1>2, <1>9, <3>1
    <3>3. m = 1
      BY <1>1, <1>3, <1>5, <3>1, <3>2 DEF HeaderFirst
    <3>4. QED
      BY <3>2, <3>3
  <2>6. \A i \in 1..m : file[i].recs[1] <= S
    <3>1. ASSUME NEW i \in 1..m PROVE file[i].recs[1] <= S
      <4>1. PICK x \in Nat : x = file[i].recs[1] /\ x <= R /\ (i = 1 => x = 0)
        BY <2>3
      <4>2. R <= G
        BY <2>1
      <4>3. x <= S
        BY <2>5, <4>1, <4>2
      <4>4. QED
        BY <4>1, <4>3
    <3>2. QED
      BY <3>1
  <2>7. /\ n = 1 => file'[n].recs[1] = 0
        /\ n > 1 => file'[n].recs[1] >= 1
        /\ file'[n].recs[1] <= S /\ file'[n].recs[1] \in Nat
        /\ \A i \in 1..m : i < n => file[i].recs[1] < file'[n].recs[1]
    <3>1. CASE NewLine
      <4>1. n = m + 1 /\ stage = "none" /\ file'[n].recs[1] = buf[1]
        <5>1. n = m + 1 /\ stage = "none" /\ file'[n].recs = <<buf[1]>>
          BY <1>3, <1>4, <3>1 DEF NewLine
        <5>2. <<buf[1]>>[1] = buf[1]
          OBVIOUS
        <5>3. QED
          BY <5>1, <5>2
      <4>2. CASE buf[1] = 0
        <5>1. m = 0
          BY <1>5, <1>7, <4>1, <4>2
        <5>2. QED
          BY <2>5, <4>1, <4>2, <5>1
      <4>3. CASE buf[1] = G
        <5>1. m # 0 /\ R = G - 1 /\ S = G
          BY <1>5, <1>7, <2>1, <2>5, <4>1, <4>3
        <5>2. \A i \in 1..m : file[i].recs[1] < G
          <6>1. ASSUME NEW i \in 1..m PROVE file[i].recs[1] < G
            <7>1. PICK x \in Nat : x = file[i].recs[1] /\ x <= R
              BY <2>3
            <7>2. x < G
              BY <5>1, <7>1
            <7>3. QED
              BY <7>1, <7>2
          <6>2. QED
            BY <6>1
        <5>3. n # 1 /\ G >= 1 /\ G <= S
          BY <4>1, <5>1
        <5>4. QED
          BY <4>1, <4>3, <5>2, <5>3
      <4>4. QED
        BY <1>2, <4>2, <4>3
    <3>2. CASE OwnLine \/ JoinsLine
      <4>1. n = m /\ m \in 1..m /\ file'[n].recs[1] = file[m].recs[1]
        BY <1>3, <1>4, <1>6, <3>2 DEF OwnLine, JoinsLine
      <4>2. QED
        BY <2>3, <2>4, <2>6, <4>1
    <3>3. QED
      BY <1>5, <3>1, <3>2
  <2>8. ASSUME NEW i \in 1..n
        PROVE  /\ file'[i].recs # <<>> /\ (i = n \/ file'[i].end = "ended")
               /\ i = 1 => file'[i].recs[1] = 0
               /\ i > 1 => file'[i].recs[1] >= 1
               /\ file'[i].recs[1] <= S
    <3>1. CASE i = n
      BY <1>5, <2>7, <3>1
    <3>2. CASE i # n
      <4>1. i \in 1..m /\ file'[i] = file[i] /\ file[i].end = "ended"
        BY <1>5, <3>2
      <4>2. QED
        BY <2>3, <2>6, <4>1
    <3>3. QED
      BY <3>1, <3>2
  <2>9. ASSUME NEW i \in 1..n, NEW j \in 1..n, i < j PROVE file'[i].recs[1] < file'[j].recs[1]
    <3>1. i # n
      BY <2>9
    <3>2. i \in 1..m /\ file'[i] = file[i]
      BY <1>5, <3>1
    <3>3. CASE j = n
      BY <2>7, <2>9, <3>2, <3>3
    <3>4. CASE j # n
      <4>1. j \in 1..m /\ file'[j] = file[j]
        BY <1>5, <3>4
      <4>2. QED
        BY <2>4, <2>9, <3>2, <4>1
    <3>5. QED
      BY <3>3, <3>4
  <2>10. QED
    BY <1>4, <2>2, <2>8, <2>9 DEF LinesRise
<1>16. FlushedEnd'
  <2>1. ASSUME NEW t \in flushed' PROVE \E i \in 1..n : file'[i].end = "ended" /\ Newest(file'[i]) = t
    <3>1. CASE t \in flushed
      <4>1. PICK i \in 1..m : file[i].end = "ended" /\ Newest(file[i]) = t
        BY <1>1, <1>3, <3>1 DEF FlushedEnd
      <4>2. i \in 1..n /\ i # n
        BY <1>5, <4>1
      <4>3. file'[i] = file[i]
        BY <1>5, <4>2
      <4>4. QED
        BY <4>1, <4>2, <4>3
    <3>2. CASE t = buf[1] /\ e = "ended"
      BY <1>5, <1>6, <3>2
    <3>3. QED
      BY <1>9, <3>1, <3>2
  <2>2. ASSUME NEW t \in flushed' PROVE \E i \in 1..n : file'[i].end = "ended" /\ Newest(file[i])' = t
    <3>1. PICK i \in 1..n : file'[i].end = "ended" /\ Newest(file'[i]) = t
      BY <2>1
    <3>2. Newest(file[i])' = t
      BY <3>1 DEF Newest
    <3>3. QED
      BY <3>1, <3>2
  <2>3. QED
    BY <1>4, <2>2 DEF FlushedEnd
<1>17. ~(Open /\ stage = "none")'
  <2>1. SUFFICES ASSUME stage' = "none" PROVE file'[n].end = "ended"
    BY <1>4 DEF Open, Last
  <2>2. QED
    BY <1>5, <1>9, <2>1
<1>18. /\ IsFiniteSet(Joined) /\ Cardinality(Joined) \in Nat /\ crashes \in Nat
       /\ Cardinality(Joined) + (IF Open /\ stage = "none" THEN 1 ELSE 0) <= crashes
  <2>1. IsFiniteSet(Joined)
    <3>1. IsFiniteSet(1..m)
      BY FS_Interval
    <3>2. QED
      BY <1>3, <3>1, FS_Subset DEF Joined
  <2>2. QED
    BY <1>1, <2>1, FS_CardinalityType DEF JoinedFew, LogTypes
<1>19. JoinedFew'
  <2>1. ASSUME NEW i \in Joined', ~(i = n /\ JoinsLine) PROVE i \in Joined
    <3>1. i \in 1..n /\ Len(file'[i].recs) > 1
      BY <1>4 DEF Joined
    <3>2. CASE i # n
      BY <1>3, <1>5, <3>1, <3>2 DEF Joined
    <3>3. CASE i = n /\ NewLine
      <4>1. Len(file'[n].recs) = 1
        BY <1>4, <3>3 DEF NewLine
      <4>2. QED
        BY <3>1, <3>3, <4>1
    <3>4. CASE i = n /\ OwnLine
      <4>1. n = m /\ file'[n].recs = file[m].recs
        BY <1>3, <1>4, <3>4 DEF OwnLine
      <4>2. QED
        BY <1>3, <3>1, <3>4, <4>1 DEF Joined
    <3>5. QED
      BY <1>5, <2>1, <3>2, <3>3, <3>4
  <2>2. Cardinality(Joined') \in Nat /\ Cardinality(Joined') <= crashes
    <3>1. CASE JoinsLine
      <4>1. Open /\ stage = "none"
        BY <3>1 DEF JoinsLine
      <4>2. IsFiniteSet(Joined \cup {n}) /\ Cardinality(Joined \cup {n}) <= Cardinality(Joined) + 1
        <5>1. IsFiniteSet(Joined \cup {n}) /\ Cardinality(Joined \cup {n}) = IF n \in Joined THEN Cardinality(Joined) ELSE Cardinality(Joined) + 1
          BY <1>18, FS_AddElement
        <5>2. QED
          BY <1>18, <5>1
      <4>3. Joined' \in SUBSET (Joined \cup {n})
        BY <2>1
      <4>4. IsFiniteSet(Joined') /\ Cardinality(Joined') <= Cardinality(Joined \cup {n})
        BY <4>2, <4>3, FS_Subset
      <4>5. Cardinality(Joined') \in Nat /\ Cardinality(Joined \cup {n}) \in Nat
        BY <4>2, <4>4, FS_CardinalityType
      <4>6. Cardinality(Joined) + 1 <= crashes
        BY <1>18, <4>1
      <4>7. QED
        BY <1>18, <4>2, <4>4, <4>5, <4>6
    <3>2. CASE ~JoinsLine
      <4>1. Joined' \in SUBSET Joined
        BY <2>1, <3>2
      <4>2. IsFiniteSet(Joined') /\ Cardinality(Joined') <= Cardinality(Joined)
        BY <1>18, <4>1, FS_Subset
      <4>3. Cardinality(Joined') \in Nat
        BY <4>2, FS_CardinalityType
      <4>4. Cardinality(Joined) <= crashes
        BY <1>18
      <4>5. QED
        BY <1>18, <4>2, <4>3, <4>4
    <3>3. QED
      BY <3>1, <3>2
  <2>3. (Cardinality(Joined) + (IF Open /\ stage = "none" THEN 1 ELSE 0))' = Cardinality(Joined') + 0
    BY <1>17
  <2>4. QED
    BY <1>8, <2>2, <2>3 DEF JoinedFew
<1>20. Unbroken'
  <2>1. SUFFICES ASSUME crashes = 0 PROVE Unbroken'
    BY <1>8 DEF Unbroken
  <2>2. ~JoinsLine
    <3>1. ~(Open /\ stage = "none")
      BY <1>18, <2>1
    <3>2. QED
      BY <3>1 DEF JoinsLine
  <2>3. PICK B \in Nat : B = Len(buf)
    BY <1>1 DEF LogTypes
  <2>4. PICK C \in Nat : C = Len(buf') /\ C = IF e = "ended" THEN B - 1 ELSE B
    BY <1>2, <1>9, <2>3 DEF Ends
  <2>5. /\ \A i \in 1..m : file[i].recs = <<i - 1>> /\ ~file[i].bad
        /\ m - 1 = G - B + (IF stage = "none" THEN 0 ELSE 1)
        /\ Len(messages) = Len(log) /\ Counts(messages)
    BY <1>1, <1>2, <1>3, <2>1, <2>3 DEF Unbroken
  <2>6. stage' = "none" <=> e = "ended"
    BY <1>9 DEF Ends
  <2>7. file'[n].recs = <<n - 1>> /\ ~file'[n].bad /\ n - 1 = G - C + (IF stage' = "none" THEN 0 ELSE 1)
    <3>1. CASE NewLine
      <4>1. n = m + 1 /\ stage = "none" /\ file'[n].recs = <<buf[1]>> /\ ~file'[n].bad
        BY <1>3, <1>4, <3>1 DEF NewLine
      <4>2. buf[1] = m
        <5>1. CASE buf[1] = 0
          BY <1>5, <1>7, <4>1, <5>1
        <5>2. CASE buf[1] = G /\ B = 1
          BY <2>5, <4>1, <5>2
        <5>3. QED
          BY <1>2, <2>3, <5>1, <5>2
      <4>3. n - 1 = m
        BY <4>1
      <4>4. n - 1 = G - C + (IF stage' = "none" THEN 0 ELSE 1)
        <5>1. m - 1 = G - B + 0
          BY <2>5, <4>1
        <5>2. CASE e = "ended"
          BY <2>4, <2>6, <4>1, <5>1, <5>2
        <5>3. CASE e # "ended"
          BY <2>4, <2>6, <4>1, <5>1, <5>3
        <5>4. QED
          BY <5>2, <5>3
      <4>5. QED
        BY <4>1, <4>2, <4>3, <4>4
    <3>2. CASE OwnLine
      <4>1. n = m /\ stage # "none" /\ file'[n].recs = file[m].recs /\ file'[n].bad = file[m].bad
        BY <1>3, <1>4, <3>2 DEF OwnLine
      <4>2. m \in 1..m
        BY <1>6, <4>1
      <4>3. n - 1 = G - C + (IF stage' = "none" THEN 0 ELSE 1)
        BY <2>4, <2>5, <2>6, <4>1
      <4>4. file[m].recs = <<n - 1>> /\ ~file[m].bad
        BY <2>5, <4>1, <4>2
      <4>5. QED
        BY <4>1, <4>3, <4>4
    <3>3. QED
      BY <1>5, <2>2, <3>1, <3>2
  <2>8. ASSUME NEW i \in 1..n PROVE file'[i].recs = <<i - 1>> /\ ~file'[i].bad
    <3>1. CASE i = n
      BY <2>7, <3>1
    <3>2. CASE i # n
      BY <1>5, <2>5, <3>2
    <3>3. QED
      BY <3>1, <3>2
  <2>9. Len(messages)' = Len(log)' /\ Counts(messages)'
    BY <1>8, <2>5 DEF Counts
  <2>10. QED
    BY <1>4, <1>6, <1>8, <2>4, <2>7, <2>8, <2>9 DEF Unbroken
<1>21. QED
  BY <1>11, <1>12, <1>13, <1>14, <1>15, <1>16, <1>19, <1>20 DEF LogInv

LEMMA LogInitInv == ASSUME LogInit PROVE LogInv
<1>1. /\ file = <<>> /\ buf = <<>> /\ stage = "none" /\ lazy = TRUE /\ flushed = {} /\ queue = <<>> /\ messages = <<>>
      /\ process = "up" /\ log = <<>> /\ crashes = 0
  BY DEF LogInit
<1>2. LogTypes
  BY <1>1 DEF LogTypes
<1>3. Given = 0 /\ ~Open
  BY <1>1 DEF Given, Open
<1>4. Cardinality(Joined) = 0
  <2>1. Joined = {}
    BY <1>1 DEF Joined
  <2>2. QED
    BY <2>1, FS_EmptySet
<1>5. Waiting /\ Writing /\ HeaderFirst /\ LinesRise /\ FlushedEnd
  BY <1>1, <1>3 DEF Waiting, Writing, HeaderFirst, LinesRise, FlushedEnd
<1>6. JoinedFew
  BY <1>1, <1>3, <1>4 DEF JoinedFew
<1>7. Unbroken
  BY <1>1, <1>3 DEF Unbroken, Counts
<1>8. QED
  BY <1>2, <1>5, <1>6, <1>7 DEF LogInv

\* A step that leaves the file alone keeps what is said of its lines alone.
LEMMA FileKept ==
  ASSUME LogInv, file' = file, flushed' = flushed, Reach' >= Reach, Reach' \in Int, Reach \in Int
  PROVE  LinesRise' /\ FlushedEnd' /\ Joined' = Joined /\ (Open' <=> Open)
<1>1. LinesRise'
  <2>1. LogTypes /\ LinesRise
    BY DEF LogInv
  <2>2. ASSUME NEW i \in 1..Len(file) PROVE file[i].recs[1] <= Reach'
    <3>1. PICK x \in Nat : x = file[i].recs[1] /\ x <= Reach
      BY <2>1, LineFacts DEF LinesRise
    <3>2. PICK r \in Int : r = Reach
      OBVIOUS
    <3>3. PICK s \in Int : s = Reach' /\ s >= r
      BY <3>2
    <3>4. x <= s
      BY <3>1, <3>2, <3>3
    <3>5. QED
      BY <3>1, <3>3, <3>4
  <2>3. PICK s : s = Reach'
    OBVIOUS
  <2>4. QED
    BY <2>1, <2>2, <2>3 DEF LinesRise
<1>2. FlushedEnd'
  BY DEF LogInv, FlushedEnd, Newest
<1>3. Joined' = Joined /\ (Open' <=> Open)
  BY DEF Joined, Open, Last
<1>4. QED
  BY <1>1, <1>2, <1>3

LEMMA PushInv ==
  ASSUME LogInv, NEW kind \in TurnKinds, NEW then, Push(kind, then)
  PROVE  LogInv'
<1>1. LogTypes /\ Waiting /\ Writing /\ HeaderFirst /\ LinesRise /\ FlushedEnd /\ JoinedFew /\ Unbroken
  BY DEF LogInv
<1>2. /\ log' = Append(log, kind) /\ messages' = Append(messages, Len(log')) /\ queue' = Append(queue, Len(log'))
      /\ file' = file /\ buf' = buf /\ stage' = stage /\ lazy' = lazy /\ flushed' = flushed /\ process' = process
      /\ crashes' = crashes /\ process = "up"
  BY DEF Push, disk
<1>3. PICK n \in Nat : n = Len(log)
  BY <1>1 DEF LogTypes
<1>4. log' \in Seq(TurnKinds) /\ Len(log') = n + 1
  BY <1>1, <1>2, <1>3 DEF LogTypes
<1>5. PICK q \in Seq(Nat) : q = queue
  BY <1>1 DEF LogTypes
<1>6. PICK k \in Nat : k = Len(q)
  OBVIOUS
<1>7. PICK G \in Nat : G = Given /\ G + k = n
  <2>1. Len(queue) = k /\ Len(queue) <= Len(log) /\ Given = n - k
    BY <1>1, <1>3, <1>5, <1>6 DEF Waiting, Given
  <2>2. k <= n
    BY <1>3, <2>1
  <2>3. n - k \in Nat /\ (n - k) + k = n
    BY <2>2
  <2>4. QED
    BY <2>1, <2>3
<1>8. /\ queue' = Append(q, n + 1) /\ queue' \in Seq(Nat) /\ Len(queue') = k + 1
      /\ \A i \in 1..(k + 1) : queue'[i] = IF i = k + 1 THEN n + 1 ELSE q[i]
  <2>1. n + 1 \in Nat /\ queue' = Append(q, n + 1)
    BY <1>2, <1>4, <1>5
  <2>2. QED
    BY <1>6, <2>1
<1>9. messages' = Append(messages, n + 1) /\ messages' \in Seq(Nat)
  BY <1>1, <1>2, <1>4 DEF LogTypes
<1>10. Given' = G
  <2>1. Given' = Len(log') - Len(queue')
    BY DEF Given
  <2>2. (n + 1) - (k + 1) = G
    BY <1>7
  <2>3. QED
    BY <1>4, <1>8, <2>1, <2>2
<1>11. Reach' = Reach /\ Reach \in Int
  BY <1>2, <1>7, <1>10 DEF Reach
<1>12. LinesRise' /\ FlushedEnd' /\ Joined' = Joined /\ (Open' <=> Open)
  <2>1. Reach' >= Reach /\ Reach' \in Int
    BY <1>11
  <2>2. QED
    BY <1>2, <1>11, <2>1, FileKept
<1>13. LogTypes'
  BY <1>1, <1>2, <1>4, <1>8, <1>9 DEF LogTypes
<1>14. Waiting'
  <2>1. ASSUME NEW i \in 1..(k + 1) PROVE queue'[i] = G + i
    <3>1. CASE i = k + 1
      <4>1. n + 1 = G + i
        BY <1>7, <3>1
      <4>2. QED
        BY <1>8, <3>1, <4>1
    <3>2. CASE i # k + 1
      <4>1. i \in 1..k
        BY <3>2
      <4>2. q[i] = G + i
        BY <1>1, <1>5, <1>6, <1>7, <4>1 DEF Waiting
      <4>3. QED
        BY <1>8, <3>2, <4>2
    <3>3. QED
      BY <3>1, <3>2
  <2>2. buf' = <<>> \/ (Given' >= 1 /\ (buf' = <<Given'>> \/ buf' = <<0, Given'>>))
    BY <1>1, <1>2, <1>7, <1>10 DEF Waiting
  <2>3. Len(queue') <= Len(log')
    BY <1>4, <1>7, <1>8
  <2>4. \A i \in 1..Len(queue') : queue'[i] = Given' + i
    BY <1>8, <1>10, <2>1
  <2>5. process' # "down"
    BY <1>2
  <2>6. QED
    BY <2>2, <2>3, <2>4, <2>5 DEF Waiting
<1>15. Writing' /\ HeaderFirst' /\ JoinedFew'
  BY <1>1, <1>2, <1>12 DEF Writing, HeaderFirst, JoinedFew, Newest
<1>16. Unbroken'
  <2>1. SUFFICES ASSUME crashes = 0 PROVE Unbroken'
    BY <1>2 DEF Unbroken
  <2>2. PICK p \in Seq(Nat) : p = messages /\ Len(p) = n /\ Counts(p)
    BY <1>1, <1>3, <2>1 DEF Unbroken, LogTypes
  <2>3. Len(Append(p, n + 1)) = n + 1 /\ Counts(Append(p, n + 1))
    <3>1. Len(Append(p, n + 1)) = n + 1 /\ \A i \in 1..(n + 1) : Append(p, n + 1)[i] = IF i = n + 1 THEN n + 1 ELSE p[i]
      BY <2>2
    <3>2. \A i \in 1..(n + 1) : i # n + 1 => i \in 1..n
      OBVIOUS
    <3>3. QED
      BY <2>2, <3>1, <3>2 DEF Counts
  <2>4. messages' = Append(p, n + 1)
    BY <1>9, <2>2
  <2>5. Len(messages)' = Len(log)' /\ Counts(messages)'
    <3>1. Counts(messages)' <=> Counts(Append(p, n + 1))
      BY <2>4 DEF Counts
    <3>2. QED
      BY <1>4, <2>3, <2>4, <3>1
  <2>6. \A i \in 1..Len(file) : file[i].recs = <<i - 1>> /\ ~file[i].bad
    BY <1>1, <2>1 DEF Unbroken
  <2>7. IF file = <<>> /\ buf = <<>> THEN G = 0
        ELSE Len(file) - 1 = G - Len(buf) + (IF stage = "none" THEN 0 ELSE 1)
    BY <1>1, <1>7, <2>1 DEF Unbroken
  <2>8. QED
    BY <1>2, <1>10, <2>5, <2>6, <2>7 DEF Unbroken
<1>17. QED
  BY <1>12, <1>13, <1>14, <1>15, <1>16 DEF LogInv

LEMMA AppendInv == ASSUME LogInv, append_turn PROVE LogInv'
<1>1. LogTypes /\ Waiting /\ Writing /\ HeaderFirst /\ LinesRise /\ FlushedEnd /\ JoinedFew /\ Unbroken
  BY DEF LogInv
<1>2. /\ process # "down" /\ buf = <<>> /\ queue # <<>>
      /\ buf' = (IF lazy THEN <<0>> ELSE <<>>) \o <<Head(queue)>> /\ queue' = Tail(queue) /\ lazy' = FALSE
      /\ file' = file /\ stage' = stage /\ flushed' = flushed /\ messages' = messages /\ process' = process
      /\ log' = log /\ crashes' = crashes /\ stage = "none"
  BY <1>1 DEF append_turn, Writing
<1>3. PICK n \in Nat : n = Len(log)
  BY <1>1 DEF LogTypes
<1>4. PICK q \in Seq(Nat) : q = queue /\ q # <<>>
  BY <1>1, <1>2 DEF LogTypes
<1>5. PICK k \in Nat \ {0} : k = Len(q)
  BY <1>4, EmptySeq
<1>6. PICK G \in Nat : G = Given /\ G + k = n
  <2>1. Len(queue) = k /\ Len(queue) <= Len(log) /\ Given = n - k
    BY <1>1, <1>3, <1>4, <1>5 DEF Waiting, Given
  <2>2. k <= n
    BY <1>3, <2>1
  <2>3. n - k \in Nat /\ (n - k) + k = n
    BY <2>2
  <2>4. QED
    BY <2>1, <2>3
<1>7. \A i \in 1..k : q[i] = G + i
  BY <1>1, <1>4, <1>5, <1>6 DEF Waiting
<1>8. /\ Head(q) = G + 1 /\ Tail(q) \in Seq(Nat) /\ Len(Tail(q)) = k - 1
      /\ \A i \in 1..(k - 1) : Tail(q)[i] = q[i + 1]
  <2>1. Head(q) = q[1] /\ 1 \in 1..k
    BY <1>4, <1>5
  <2>2. Tail(q) \in Seq(Nat) /\ Len(Tail(q)) = k - 1 /\ \A i \in 1..(k - 1) : Tail(q)[i] = q[i + 1]
    BY <1>4, <1>5
  <2>3. QED
    BY <1>7, <2>1, <2>2
<1>9. PICK H \in Nat \ {0} : H = G + 1
  OBVIOUS
<1>10. Given' = H
  <2>1. Given' = n - (k - 1)
    BY <1>2, <1>3, <1>4, <1>8 DEF Given
  <2>2. n - (k - 1) = H
    BY <1>6, <1>9
  <2>3. QED
    BY <2>1, <2>2
<1>11. buf' = (IF lazy THEN <<0, H>> ELSE <<H>>) /\ buf' # <<>>
  <2>1. <<0>> \o <<H>> = <<0, H>> /\ <<>> \o <<H>> = <<H>>
    <3>1. <<0>> \in Seq(Nat) /\ <<H>> \in Seq(Nat) /\ Len(<<0>>) = 1 /\ Len(<<H>>) = 1 /\ <<0, H>> \in Seq(Nat) /\ Len(<<0, H>>) = 2
      OBVIOUS
    <3>2. <<0>> \o <<H>> \in Seq(Nat) /\ Len(<<0>> \o <<H>>) = 2
      BY <3>1
    <3>3. (<<0>> \o <<H>>)[1] = 0 /\ (<<0>> \o <<H>>)[2] = H
      BY <3>1
    <3>4. \A i \in 1..2 : i = 1 \/ i = 2
      OBVIOUS
    <3>5. \A i \in 1..2 : (<<0>> \o <<H>>)[i] = <<0, H>>[i]
      BY <3>3, <3>4
    <3>6. <<0>> \o <<H>> = <<0, H>>
      BY <3>1, <3>2, <3>5, SeqEqual
    <3>7. QED
      BY <3>1, <3>6, ConcatEmptySeq
  <2>2. <<0, H>> # <<>> /\ <<H>> # <<>>
    OBVIOUS
  <2>3. QED
    BY <1>2, <1>4, <1>8, <1>9, <2>1, <2>2
<1>12. Reach' = G /\ Reach = G
  BY <1>2, <1>6, <1>9, <1>10, <1>11 DEF Reach
<1>13. LinesRise' /\ FlushedEnd' /\ Joined' = Joined /\ (Open' <=> Open)
  <2>1. Reach' >= Reach /\ Reach' \in Int /\ Reach \in Int
    BY <1>12
  <2>2. QED
    BY <1>2, <2>1, FileKept
<1>14. lazy <=> file = <<>>
  BY <1>1, <1>2 DEF HeaderFirst
<1>15. LogTypes'
  <2>1. buf' \in Seq(Nat)
    <3>1. <<0, H>> \in Seq(Nat) /\ <<H>> \in Seq(Nat)
      OBVIOUS
    <3>2. QED
      BY <1>11, <3>1
  <2>2. queue' \in Seq(Nat)
    BY <1>2, <1>4, <1>8
  <2>3. QED
    BY <1>1, <1>2, <2>1, <2>2 DEF LogTypes
<1>16. Waiting'
  <2>1. ASSUME NEW i \in 1..(k - 1) PROVE Tail(q)[i] = H + i
    <3>1. i + 1 \in 1..k /\ G + (i + 1) = H + i
      BY <1>9
    <3>2. QED
      BY <1>7, <1>8, <3>1
  <2>2. queue' = Tail(q) /\ Len(queue') = k - 1
    BY <1>2, <1>4, <1>8
  <2>3. Len(queue') <= Len(log')
    BY <1>2, <1>3, <1>6, <2>2
  <2>4. \A i \in 1..Len(queue') : queue'[i] = Given' + i
    BY <1>10, <2>1, <2>2
  <2>5. Given' >= 1 /\ (buf' = <<Given'>> \/ buf' = <<0, Given'>>)
    BY <1>10, <1>11
  <2>6. QED
    BY <1>2, <2>3, <2>4, <2>5 DEF Waiting
<1>17. Writing' /\ JoinedFew'
  BY <1>1, <1>2, <1>13 DEF Writing, JoinedFew
<1>18. HeaderFirst'
  <2>1. <<0, H>>[1] = 0 /\ <<H>>[1] = H
    OBVIOUS
  <2>2. buf'[1] = (IF lazy THEN 0 ELSE H)
    BY <1>11, <2>1
  <2>3. QED
    BY <1>2, <1>11, <1>14, <2>2 DEF HeaderFirst
<1>19. Unbroken'
  <2>1. SUFFICES ASSUME crashes = 0 PROVE Unbroken'
    BY <1>2 DEF Unbroken
  <2>2. /\ \A i \in 1..Len(file) : file[i].recs = <<i - 1>> /\ ~file[i].bad
        /\ Len(messages) = Len(log) /\ Counts(messages)
    BY <1>1, <2>1 DEF Unbroken
  <2>3. PICK m \in Nat : m = Len(file) /\ (file = <<>> <=> m = 0)
    BY <1>1, EmptySeq DEF LogTypes
  <2>4. IF file = <<>> THEN G = 0 ELSE m - 1 = G
    <3>1. file = <<>> => G = 0
      BY <1>1, <1>2, <1>6, <2>1 DEF Unbroken
    <3>2. file # <<>> => m - 1 = G - Len(buf) + 0
      BY <1>1, <1>2, <1>6, <2>1, <2>3 DEF Unbroken
    <3>3. Len(buf) = 0
      BY <1>2
    <3>4. QED
      BY <3>1, <3>2, <3>3
  <2>5. PICK C \in Nat : C = Len(buf') /\ C = IF lazy THEN 2 ELSE 1
    <3>1. Len(<<0, H>>) = 2 /\ Len(<<H>>) = 1
      OBVIOUS
    <3>2. QED
      BY <1>11, <3>1
  <2>6. m - 1 = H - C + 0
    BY <1>9, <1>14, <2>3, <2>4, <2>5
  <2>7. Len(messages)' = Len(log)' /\ Counts(messages)'
    BY <1>2, <2>2 DEF Counts
  <2>8. QED
    BY <1>2, <1>10, <1>11, <2>2, <2>3, <2>5, <2>6, <2>7 DEF Unbroken
<1>20. QED
  BY <1>13, <1>15, <1>16, <1>17, <1>18, <1>19 DEF LogInv

LEMMA LogCrashInv == ASSUME LogInv, Crash PROVE LogInv'
<1>1. LogTypes /\ Waiting /\ Writing /\ HeaderFirst /\ LinesRise /\ FlushedEnd /\ JoinedFew /\ Unbroken
  BY DEF LogInv
<1>2. /\ crashes' = crashes + 1 /\ process' = "down" /\ buf' = <<>> /\ stage' = "none" /\ queue' = <<>> /\ messages' = <<>>
      /\ file' = file /\ lazy' = lazy /\ flushed' = flushed /\ log' = log
  BY DEF Crash
<1>3. PICK n \in Nat : n = Len(log)
  BY <1>1 DEF LogTypes
<1>4. PICK k \in Nat : k = Len(queue) /\ k <= n
  BY <1>1, <1>3 DEF LogTypes, Waiting
<1>5. Given' = n /\ Reach' = n
  <2>1. Len(<<>>) = 0
    OBVIOUS
  <2>2. Given' = n
    BY <1>2, <1>3, <2>1 DEF Given
  <2>3. QED
    BY <1>2, <2>2 DEF Reach
<1>6. Reach \in Int /\ Reach <= n
  BY <1>3, <1>4 DEF Reach, Given
<1>7. LinesRise' /\ FlushedEnd' /\ Joined' = Joined /\ (Open' <=> Open)
  <2>1. Reach' >= Reach /\ Reach' \in Int
    BY <1>5, <1>6
  <2>2. QED
    BY <1>2, <1>6, <2>1, FileKept
<1>8. LogTypes'
  BY <1>1, <1>2 DEF LogTypes
<1>9. Waiting' /\ Writing' /\ HeaderFirst'
  BY <1>1, <1>2, <1>3, <1>5 DEF Waiting, Writing, HeaderFirst
<1>10. JoinedFew'
  <2>1. IsFiniteSet(Joined)
    <3>1. Len(file) \in Nat
      BY <1>1 DEF LogTypes
    <3>2. IsFiniteSet(1..Len(file))
      BY <3>1, FS_Interval
    <3>3. QED
      BY <3>2, FS_Subset DEF Joined
  <2>2. Cardinality(Joined) \in Nat /\ crashes \in Nat /\ Cardinality(Joined) <= crashes
    BY <1>1, <2>1, FS_CardinalityType DEF JoinedFew, LogTypes
  <2>3. Cardinality(Joined) + (IF Open' THEN 1 ELSE 0) <= crashes + 1
    BY <2>2
  <2>4. QED
    BY <1>2, <1>7, <2>3 DEF JoinedFew
<1>11. Unbroken'
  BY <1>1, <1>2 DEF Unbroken, LogTypes
<1>12. QED
  BY <1>7, <1>8, <1>9, <1>10, <1>11 DEF LogInv

LEMMA LeaveInv == ASSUME LogInv, Exit \/ Exited PROVE LogInv'
<1>1. LogTypes /\ Waiting /\ Writing /\ HeaderFirst /\ LinesRise /\ FlushedEnd /\ JoinedFew /\ Unbroken
  BY DEF LogInv
<1>2. /\ file' = file /\ buf' = buf /\ stage' = stage /\ lazy' = lazy /\ flushed' = flushed /\ queue' = queue
      /\ messages' = messages /\ log' = log /\ crashes' = crashes
      /\ (process' = "exiting" /\ process = "up") \/ (process' = "down" /\ buf = <<>> /\ queue = <<>>)
  BY DEF Exit, Exited, disk
<1>3. Given' = Given
  BY <1>2 DEF Given
<1>4. Reach' = Reach /\ Reach \in Int
  BY <1>1, <1>2, <1>3 DEF Reach, Given, LogTypes
<1>5. LinesRise' /\ FlushedEnd' /\ Joined' = Joined /\ (Open' <=> Open)
  <2>1. Reach' >= Reach /\ Reach' \in Int
    BY <1>4
  <2>2. QED
    BY <1>2, <1>4, <2>1, FileKept
<1>6. LogTypes'
  BY <1>1, <1>2 DEF LogTypes
<1>7. Waiting' /\ HeaderFirst'
  BY <1>1, <1>2, <1>3 DEF Waiting, HeaderFirst
<1>8. Writing' /\ JoinedFew' /\ Unbroken'
  BY <1>1, <1>2, <1>3, <1>5 DEF Writing, JoinedFew, Unbroken, Newest, Counts
<1>9. QED
  BY <1>5, <1>6, <1>7, <1>8 DEF LogInv

LEMMA ResumeInv == ASSUME LogInv, Resume PROVE LogInv'
<1>1. LogTypes /\ Waiting /\ Writing /\ HeaderFirst /\ LinesRise /\ FlushedEnd /\ JoinedFew /\ Unbroken
  BY DEF LogInv
<1>2. /\ process = "down" /\ Loadable /\ messages' = load /\ lazy' = FALSE /\ process' = "up"
      /\ file' = file /\ buf' = buf /\ stage' = stage /\ flushed' = flushed /\ queue' = queue
      /\ log' = log /\ crashes' = crashes
  BY DEF Resume
<1>3. Given' = Given
  BY <1>2 DEF Given
<1>4. Reach' = Reach /\ Reach \in Int
  BY <1>1, <1>2, <1>3 DEF Reach, Given, LogTypes
<1>5. LinesRise' /\ FlushedEnd' /\ Joined' = Joined /\ (Open' <=> Open)
  <2>1. Reach' >= Reach /\ Reach' \in Int
    BY <1>4
  <2>2. QED
    BY <1>2, <1>4, <2>1, FileKept
<1>6. load \in Seq(Nat)
  <2>1. \A i \in 1..Len(file) : file[i].recs # <<>> /\ file[i].recs[1] \in Nat
    BY <1>1, LineFacts
  <2>2. QED
    BY <1>1, <2>1, LoadSays DEF LogTypes
<1>7. LogTypes'
  BY <1>1, <1>2, <1>6 DEF LogTypes
<1>8. file # <<>> /\ buf = <<>> /\ queue = <<>>
  BY <1>1, <1>2 DEF Loadable, Waiting
<1>9. Waiting' /\ HeaderFirst'
  BY <1>1, <1>2, <1>3, <1>8 DEF Waiting, HeaderFirst
<1>10. Writing' /\ JoinedFew'
  BY <1>1, <1>2, <1>5 DEF Writing, JoinedFew, Newest
<1>11. crashes = 0 => messages' = messages
  BY <1>2, InvMissesNothing DEF NothingMissing, Loaded
<1>12. Unbroken'
  BY <1>1, <1>2, <1>3, <1>11 DEF Unbroken, Counts
<1>13. QED
  BY <1>5, <1>7, <1>9, <1>10, <1>12 DEF LogInv

LEMMA LogNextInv == ASSUME LogInv, [LogNext]_logVars PROVE LogInv'
<1>1. CASE Converse
  <2>1. \E kind \in TurnKinds, then \in {"prompt", "model", "tool"} : Push(kind, then)
    BY <1>1 DEF Converse, TurnKinds
  <2>2. QED
    BY <2>1, PushInv
<1>2. CASE append_turn
  BY <1>2, AppendInv
<1>3. ASSUME NEW e \in Ends, WritePart(e) PROVE LogInv'
  <2>1. e \in Marks /\ e # "ended"
    BY DEF Marks, Ends
  <2>2. Wrote(e) /\ buf # <<>> /\ process # "down"
    BY <1>3, <2>1 DEF WritePart, Wrote
  <2>3. QED
    BY <2>1, <2>2, WroteInv
<1>4. CASE WriteLine
  <2>1. "ended" \in Marks
    BY DEF Marks
  <2>2. Wrote("ended") /\ buf # <<>> /\ process # "down"
    BY <1>4 DEF WriteLine, Wrote
  <2>3. QED
    BY <2>1, <2>2, WroteInv
<1>5. CASE Crash
  BY <1>5, LogCrashInv
<1>6. CASE Exit \/ Exited
  BY <1>6, LeaveInv
<1>7. CASE Resume
  BY <1>7, ResumeInv
<1>8. CASE UNCHANGED logVars
  BY <1>8 DEF logVars, disk, LogInv, LogTypes, Waiting, Writing, HeaderFirst, LinesRise, FlushedEnd, JoinedFew, Unbroken,
              Given, Reach, Newest, Joined, Open, Last, Counts
<1>9. QED
  BY <1>1, <1>2, <1>3, <1>4, <1>5, <1>6, <1>7, <1>8 DEF LogNext, Gone, Full

\* What SessionStore and SessionWriter promise of the session file, for any number
\* of turns and crashes: load gives the turns back in order and once, each crash
\* costs at most one completed turn while the file is readable, and without a crash
\* the file, the append in progress and the queue together are the session.
THEOREM SessionLogSurvives == LogSpec => []LogSurvives
<1>1. LogInit => LogInv
  BY LogInitInv
<1>2. LogInv /\ [LogNext]_logVars => LogInv'
  BY LogNextInv
<1>3. LogInv => LogSurvives
  BY InvLoadsInOrder, InvBoundsLoss, InvMissesNothing DEF LogSurvives
<1>4. QED
  BY <1>1, <1>2, <1>3, PTL DEF LogSpec
-----------------------------------------------------------------------------
(* The settings page.                                                      *)

Layer == [bad : BadKeys, model : Models \cup {Unset}, roster : Seq(Seq(Models)), perms : BOOLEAN,
          mode : Range(Modes) \cup {Unset}, base : {"official", "custom", Unset},
          transport : {"auto", "dlr", "json", Unset},
          dlr_enabled : {"true", "false", Unset}, dlr_url : {"set", Unset}]

\* What a page shows.
Shown == [model : Models, models : Seq(Models), mode : Range(Modes), base : {"official", "custom"},
          explicit : BOOLEAN, transport : {"auto", "dlr", "json"}]

SetTypes == user \in Layer /\ project \in Layer /\ env \in Layer /\ WellTyped(env) /\ page \in Shown

\* After a save without a warning the page shows what a load gives, the user file holds the
\* value, and no environment variable names the key.
SaveKept ==
  saveNote.result = "saved" =>
    /\ page = load_layers(user, project, env) /\ (saveNote.key = "mode" => user.perms)
    /\ saveNote.key \in {"mode", "model", "dlr_enabled"}
    /\ user[saveNote.key] = saveNote.value /\ saveNote.value # Unset /\ env[saveNote.key] = Unset

SetInv == SetTypes /\ SaveKept /\ CustomStaysJson

LEMMA KeepTyped ==
  ASSUME NEW T, NEW ms, ms \in Seq(T), NEW S PROVE Keep(ms, S) \in Seq(T)
<1> DEFINE L == Len(ms)
           Goes(n, q) == IF n \in S THEN Append(q, ms[n]) ELSE q
           F == [p \in (1..L) \X Seq(T) |-> Goes(p[1], p[2])]
           Rec(h) == h = [n \in 0..L |-> IF n = 0 THEN <<>> ELSE IF n \in S THEN Append(h[n - 1], ms[n]) ELSE h[n - 1]]
<1>1. L \in Nat
  OBVIOUS
<1>2. ASSUME NEW n \in 1..L, NEW q \in Seq(T) PROVE Goes(n, q) \in Seq(T)
  <2>1. ms[n] \in T
    BY ElementOfSeq
  <2>2. Append(q, ms[n]) \in Seq(T)
    BY <2>1, AppendProperties
  <2>3. QED
    BY <2>2
<1> HIDE DEF Goes
<1>3. F \in [(1..L) \X Seq(T) -> Seq(T)]
  BY <1>2
<1>4. \A n \in 1..L, q \in Seq(T) : F[<<n, q>>] = Goes(n, q)
  OBVIOUS
<1>5. <<>> \in Seq(T)
  OBVIOUS
<1> HIDE DEF F
<1>6. PICK g : Iterates(g, L, Seq(T), <<>>, F)
  BY <1>1, <1>3, <1>5, Recursion, Zenon
<1>7. g \in [0..L -> Seq(T)] /\ g[0] = <<>> /\ \A n \in 1..L : g[n] = F[<<n, g[n - 1]>>]
  BY <1>6 DEF Iterates
<1>8. Rec(g)
  <2>1. ASSUME NEW n \in 0..L
        PROVE  g[n] = IF n = 0 THEN <<>> ELSE IF n \in S THEN Append(g[n - 1], ms[n]) ELSE g[n - 1]
    <3>1. CASE n = 0
      BY <1>7, <3>1
    <3>2. CASE n # 0
      <4>1. n \in 1..L /\ n - 1 \in 0..L
        BY <1>1, <3>2
      <4>2. g[n - 1] \in Seq(T)
        BY <1>7, <4>1
      <4>3. g[n] = Goes(n, g[n - 1])
        <5>1. F[<<n, g[n - 1]>>] = Goes(n, g[n - 1])
          BY <1>4, <4>1, <4>2
        <5>2. QED
          BY <1>7, <4>1, <5>1
      <4>4. QED
        BY <3>2, <4>3 DEF Goes
    <3>3. QED
      BY <3>1, <3>2
  <2>2. QED
    BY <1>7, <2>1
<1> DEFINE h == CHOOSE f : Rec(f)
<1>9. Rec(h)
  <2> HIDE DEF Rec
  <2>1. QED
    BY <1>8, Zenon
<1>10. Keep(ms, S) = h[L]
  BY DEF Keep
<1> HIDE DEF h
<1> DEFINE InType == {n \in 0..L : h[n] \in Seq(T)}
<1>11. ASSUME NEW n \in 0..L
       PROVE  h[n] = IF n = 0 THEN <<>> ELSE IF n \in S THEN Append(h[n - 1], ms[n]) ELSE h[n - 1]
  BY <1>9
<1>12. 0 \in InType
  <2>1. 0 \in 0..L
    BY <1>1
  <2>2. h[0] = <<>>
    BY <1>11, <2>1
  <2>3. QED
    BY <1>5, <2>1, <2>2
<1>13. ASSUME NEW n \in 1..L, n - 1 \in InType PROVE n \in InType
  <2>1. h[n - 1] \in Seq(T) /\ n \in 0..L /\ n # 0
    BY <1>1, <1>13
  <2>2. h[n] = Goes(n, h[n - 1])
    BY <1>11, <2>1 DEF Goes
  <2>3. QED
    BY <1>2, <2>1, <2>2
<1>14. 0..L \subseteq InType
  <2> HIDE DEF InType
  <2>1. QED
    BY <1>1, <1>12, <1>13, Segment
<1>15. QED
  BY <1>1, <1>10, <1>14

\* A load's list of models holds the active one.
LEMMA RosterHolds ==
  ASSUME NEW models, models \in Seq(Models), NEW model \in Models
  PROVE  Roster(models, model) \in Seq(Models) /\ model \in Range(Roster(models, model))
<1> DEFINE S == {i \in DOMAIN models : i = 1 \/ models[i] # models[i - 1]}
<1>1. PICK kept \in Seq(Models) : kept = Keep(models, S)
  BY KeepTyped
<1>2. Roster(models, model) = IF model \in Range(kept) THEN kept ELSE <<model>> \o kept
  BY <1>1 DEF Roster
<1> DEFINE q == <<model>> \o kept
<1>3. q \in Seq(Models) /\ Len(q) = Len(kept) + 1 /\ q[1] = model
  OBVIOUS
<1>4. Len(kept) \in Nat /\ DOMAIN q = 1..Len(q) /\ 1 \in DOMAIN q
  BY <1>3
<1> HIDE DEF q
<1>5. model \in Range(q)
  BY <1>3, <1>4 DEF Range
<1>6. QED
  BY <1>1, <1>2, <1>3, <1>5 DEF q

LEMMA StepIn ==
  ASSUME NEW T, NEW options, options \in Seq(T), NEW current, NEW delta \in {1, -1}
  PROVE  step(options, current, delta) \in T \cup {Unset}
<1>1. CASE Len(options) < 2
  BY <1>1 DEF step
<1>2. CASE ~(Len(options) < 2)
  <2> DEFINE First(i) == options[i] = current /\ \A j \in 1 .. i - 1 : options[j] # current
             i == IF current \in Range(options) THEN CHOOSE x \in DOMAIN options : First(x) ELSE 1
  <2>1. PICK L \in Nat : L = Len(options) /\ L >= 2 /\ DOMAIN options = 1..L
    BY <1>2
  <2>2. i \in 1..L
    <3>1. CASE current \in Range(options)
      <4> DEFINE Good == {x \in 1..L : options[x] = current}
      <4>1. Good # {} /\ Good \subseteq Nat
        BY <2>1, <3>1 DEF Range
      <4> HIDE DEF Good
      <4>2. PICK m \in Good : \A y \in Good : m <= y
        BY <4>1, Least, Zenon
      <4>3. m \in 1..L /\ options[m] = current /\ \A j \in 1..m - 1 : ~(m <= j) /\ j \in 1..L
        BY <4>2 DEF Good
      <4>4. \A j \in 1..m - 1 : options[j] # current
        BY <4>2, <4>3 DEF Good
      <4>5. First(m) /\ m \in DOMAIN options
        BY <2>1, <4>3, <4>4
      <4> HIDE DEF First
      <4>6. (CHOOSE x \in DOMAIN options : First(x)) \in DOMAIN options
        BY <4>5
      <4>7. QED
        BY <2>1, <3>1, <4>6
    <3>2. CASE ~(current \in Range(options))
      BY <2>1, <3>2
    <3>3. QED
      BY <3>1, <3>2
  <2>3. step(options, current, delta) = options[((i - 1 + delta) % L) + 1]
    BY <1>2, <2>1 DEF step
  <2> HIDE DEF i
  <2>4. ((i - 1 + delta) % L) + 1 \in 1..L
    BY <2>1, <2>2
  <2>5. QED
    BY <2>1, <2>3, <2>4, ElementOfSeq
<1>3. QED
  BY <1>1, <1>2

\* A layer that picks DLR, or its URL.
Picks(l) == \E k \in {"transport", "dlr_enabled", "dlr_url"} : Said(l, k) # Unset

LEMMA ExplicitIs ==
  ASSUME NEW u, NEW p, NEW e
  PROVE  ExplicitDlr(<<u, p, e>>) <=> Picks(u) \/ Picks(p) \/ Picks(e)
<1>1. Range(<<u, p, e>>) = {u, p, e}
  BY DEF Range
<1>2. QED
  BY <1>1 DEF ExplicitDlr, Picks

\* The values a load gives are a layer's or the default.
LEMMA LoadShown ==
  ASSUME NEW u \in Layer, NEW p \in Layer, NEW e \in Layer
  PROVE  /\ load_layers(u, p, e) \in Shown
         /\ load_layers(u, p, e).model \in Range(load_layers(u, p, e).models)
<1> DEFINE pick(k, dflt) == Resolve(dflt, Said(u, k), Said(p, k), Said(e, k))
           lists(l) == WellTyped(l) /\ l.roster # <<>>
           models == IF lists(p) THEN p.roster[1] ELSE IF lists(u) THEN u.roster[1] ELSE <<>>
           transport == Resolve("auto", LayerTransport(u), LayerTransport(p), LayerTransport(e))
<1>1. pick("model", Default) \in Models
  BY SettingsAssumption DEF Layer, Resolve, Over, Said
<1> DEFINE mode == Resolve(DefaultMode, BlockMode(u), BlockMode(p), Said(e, "mode"))
<1>2. mode \in Range(Modes)
  <2>1. DefaultMode \in Range(Modes)
    BY SettingsAssumption
  <2>2. ASSUME NEW l \in Layer PROVE BlockMode(l) \in Range(Modes) \cup {Unset}
    BY <2>1 DEF Layer, BlockMode, Over
  <2>3. Said(e, "mode") \in Range(Modes) \cup {Unset}
    BY DEF Layer, Said
  <2>4. QED
    BY <2>1, <2>2, <2>3 DEF Resolve, Over
<1>3. pick("base", "official") \in {"official", "custom"}
  BY DEF Layer, Resolve, Over, Said
<1>4. transport \in {"auto", "dlr", "json"}
  <2>1. ASSUME NEW l \in Layer PROVE LayerTransport(l) \in {"auto", "dlr", "json", Unset}
    BY DEF Layer, LayerTransport, transport_for_dlr_enabled, Over, Said
  <2>2. QED
    BY <2>1 DEF Resolve, Over
<1>5. models \in Seq(Models)
  <2>1. ASSUME NEW l \in Layer, l.roster # <<>> PROVE l.roster[1] \in Seq(Models)
    <3>1. PICK q \in Seq(Seq(Models)) : q = l.roster
      BY DEF Layer
    <3>2. q # <<>>
      BY <2>1, <3>1
    <3>3. 1 \in 1..Len(q)
      BY <3>2, EmptySeq
    <3>4. QED
      BY <3>1, <3>3, ElementOfSeq
  <2>2. QED
    BY <2>1
<1>6. ExplicitDlr(<<u, p, e>>) \in BOOLEAN
  BY DEF ExplicitDlr
<1> DEFINE explicit == ExplicitDlr(<<u, p, e>>)
<1>7. load_layers(u, p, e) =
        [model |-> pick("model", Default), models |-> Roster(models, pick("model", Default)),
         mode |-> mode, base |-> pick("base", "official"), explicit |-> explicit,
         transport |-> IF ~explicit /\ pick("base", "official") # "official" THEN "json" ELSE transport]
  BY DEF load_layers
<1> HIDE DEF pick, models, transport, explicit, mode
<1>8. PICK m \in Models : m = pick("model", Default)
  BY <1>1
<1>9. PICK ms \in Seq(Models) : ms = models
  BY <1>5
<1>10. PICK r \in Seq(Models) : r = Roster(ms, m) /\ m \in Range(r)
  BY <1>8, <1>9, RosterHolds
<1>11. load_layers(u, p, e).models = r /\ load_layers(u, p, e).model = m
  BY <1>7, <1>8, <1>9, <1>10
<1>12. load_layers(u, p, e) \in Shown
  BY <1>2, <1>3, <1>4, <1>6, <1>7, <1>8, <1>9, <1>10 DEF Shown, explicit
<1>13. QED
  BY <1>10, <1>11, <1>12

\* No default, and no override of the base URL, moves a custom endpoint to DLR.
LEMMA LiveStaysJson ==
  ASSUME NEW u \in Layer, NEW p \in Layer, NEW e \in Layer, NEW url,
         NEW l, l = apply_base_url_override(load_layers(u, p, e), url),
         l.base # "official", l.transport # "json"
  PROVE  ExplicitDlr(<<u, p, e>>)
<1>1. PICK g \in Shown : g = load_layers(u, p, e)
  BY LoadShown
<1>2. g.explicit = ExplicitDlr(<<u, p, e>>) /\ (~g.explicit /\ g.base # "official" => g.transport = "json")
  BY <1>1 DEF load_layers
<1>3. l = IF url = Unset THEN g
          ELSE [g EXCEPT !.base = url,
                  !.transport = IF g.explicit THEN @ ELSE IF url = "official" THEN "auto" ELSE "json"]
  BY <1>1 DEF apply_base_url_override
<1>4. CASE url = Unset
  BY <1>2, <1>3, <1>4
<1>5. CASE url # Unset
  <2>1. l.base = url
    BY <1>3, <1>5 DEF Shown
  <2>2. ~g.explicit => l.transport = IF url = "official" THEN "auto" ELSE "json"
    BY <1>3, <1>5 DEF Shown
  <2>3. QED
    BY <1>2, <2>1, <2>2
<1>6. QED
  BY <1>4, <1>5

LEMMA SetInitInv == ASSUME SetInit PROVE SetInv
<1>1. user \in Layer /\ project \in Layer /\ env \in Layer /\ WellTyped(env)
  BY SettingsAssumption DEF SetInit, Layer
<1>2. page \in Shown
  BY <1>1, LoadShown DEF SetInit
<1>3. SaveKept
  BY DEF SetInit, SaveKept
<1>4. CustomStaysJson
  BY <1>1, LiveStaysJson DEF SetInit, CustomStaysJson
<1>5. QED
  BY <1>1, <1>2, <1>3, <1>4 DEF SetInv, SetTypes

\* A write of the user file after which the page resolves again.
LEMMA CommittedInv ==
  ASSUME SetInv, NEW key \in {"mode", "model", "dlr_enabled"}, NEW value, NEW u \in Layer,
         Committed(key, value, u), key = "mode" => u.perms, u[key] = value, value # Unset,
         UNCHANGED <<project, env>>
  PROVE  SetTypes' /\ SaveKept'
<1>1. user' = u /\ project' = project /\ env' = env /\ page' = load_layers(u, project, env)
  BY DEF Committed
<1>2. SetTypes'
  BY <1>1, LoadShown DEF SetInv, SetTypes
<1>3. saveNote' = [result |-> IF env[key] # Unset THEN "overridden" ELSE "saved", key |-> key, value |-> value]
  BY DEF Committed
<1>4. saveNote'.key = key /\ saveNote'.value = value /\ (saveNote'.result = "saved" => env[key] = Unset)
  BY <1>3
<1>5. SaveKept'
  BY <1>1, <1>4 DEF SaveKept
<1>6. QED
  BY <1>2, <1>5

\* A save that was refused, or half done, is an error.
LEMMA NotSaved ==
  ASSUME saveNote'.result # "saved" PROVE SaveKept'
BY DEF SaveKept

\* The endpoint in use and what picks DLR are left alone.
LEMMA LiveKept ==
  ASSUME SetInv, UNCHANGED <<project, env, live>>, Picks(user) => Picks(user') PROVE CustomStaysJson'
BY ExplicitIs DEF SetInv, CustomStaysJson

\* A value written, and the mistyped ones it replaces: the layer still picks what it picked.
LEMMA MendedLayer ==
  ASSUME NEW l \in Layer, NEW ks
  PROVE  Mended(l, ks) \in Layer /\ (Picks(l) => Picks(Mended(l, ks)))
<1>1. PICK b \in BadKeys : b = IF l.bad \in ks THEN "none" ELSE l.bad
  BY DEF Layer, BadKeys
<1>2. Mended(l, ks) = [l EXCEPT !.bad = b]
  BY <1>1 DEF Mended
<1>3. [l EXCEPT !.bad = b] \in Layer
  BY DEF Layer
<1>4. WellTyped(l) => WellTyped([l EXCEPT !.bad = b])
  BY <1>1 DEF Layer, WellTyped
<1>5. ASSUME NEW k \in {"transport", "dlr_enabled", "dlr_url"}
      PROVE  Said(l, k) # Unset => Said([l EXCEPT !.bad = b], k) # Unset
  BY <1>4 DEF Layer, Said
<1>6. QED
  BY <1>2, <1>3, <1>5 DEF Picks

LEMMA CycleModeInv == ASSUME SetInv, NEW d \in {1, -1}, CycleMode(d) PROVE SetInv'
<1> DEFINE m == step(Modes, page.mode, d)
<1>1. m \in Range(Modes) /\ m # Unset
  BY SettingsAssumption, StepIn DEF CycleMode
<1>2. UNCHANGED <<project, env, live>>
  BY DEF CycleMode
<1>3. CASE Writable("mode")
  <2>1. Committed("mode", m, [Mended(user, {"mode"}) EXCEPT !.perms = TRUE, !.mode = m])
    BY <1>3 DEF CycleMode
  <2> HIDE DEF m
  <2>2. PICK l \in Layer : l = Mended(user, {"mode"}) /\ (Picks(user) => Picks(l))
    BY MendedLayer DEF SetInv, SetTypes
  <2>3. PICK u \in Layer : u = [l EXCEPT !.perms = TRUE, !.mode = m] /\ u.mode = m /\ u.perms
    <3>1. [l EXCEPT !.perms = TRUE, !.mode = m] \in Layer
      BY <1>1 DEF Layer
    <3>2. [l EXCEPT !.perms = TRUE, !.mode = m].mode = m /\ [l EXCEPT !.perms = TRUE, !.mode = m].perms
      BY DEF Layer
    <3>3. QED
      BY <3>1, <3>2, Zenon
  <2>4. Picks(l) => Picks(u)
    BY <2>3 DEF Layer, Picks, Said, WellTyped
  <2>5. Committed("mode", m, u)
    BY <2>1, <2>2, <2>3
  <2>6. SetTypes' /\ SaveKept'
    BY <1>1, <1>2, <2>3, <2>5, CommittedInv
  <2>7. user' = u
    BY <2>5 DEF Committed
  <2>8. CustomStaysJson'
    BY <1>2, <2>2, <2>4, <2>7, LiveKept
  <2>9. QED
    BY <2>6, <2>8 DEF SetInv
<1>4. CASE ~Writable("mode")
  <2>1. Refused("mode", m)
    BY <1>4 DEF CycleMode
  <2>2. saveNote'.result = "error" /\ UNCHANGED <<user, page>>
    BY <2>1 DEF Refused
  <2>3. CustomStaysJson'
    BY <1>2, <2>2, LiveKept
  <2>4. QED
    BY <1>2, <2>2, <2>3, NotSaved DEF SetInv, SetTypes
<1>5. QED
  BY <1>3, <1>4

LEMMA ToggleDlrInv == ASSUME SetInv, ToggleDlr PROVE SetInv'
<1> DEFINE b == IF page.transport # "json" THEN "false" ELSE "true"
<1>1. b \in {"true", "false"} /\ b # Unset
  BY DEF Unset
<1>2. UNCHANGED <<project, env>>
  BY DEF ToggleDlr
<1>3. CASE Writable("dlr_enabled")
  <2>1. /\ Committed("dlr_enabled", b, [Mended(user, {"dlr_enabled"}) EXCEPT !.dlr_enabled = b])
        /\ live' = apply_base_url_override(page', flag)
    BY <1>3 DEF ToggleDlr
  <2> HIDE DEF b
  <2>2. PICK l \in Layer : l = Mended(user, {"dlr_enabled"})
    BY MendedLayer DEF SetInv, SetTypes
  <2>3. PICK u \in Layer : u = [l EXCEPT !.dlr_enabled = b] /\ u.dlr_enabled = b
    <3>1. [l EXCEPT !.dlr_enabled = b] \in Layer
      BY <1>1 DEF Layer
    <3>2. [l EXCEPT !.dlr_enabled = b].dlr_enabled = b
      BY DEF Layer
    <3>3. QED
      BY <3>1, <3>2, Zenon
  <2>4. Committed("dlr_enabled", b, u)
    BY <2>1, <2>2, <2>3
  <2>5. SetTypes' /\ SaveKept'
    BY <1>1, <1>2, <2>3, <2>4, CommittedInv
  <2>6. user' = u /\ page' = load_layers(u, project, env)
    BY <2>4 DEF Committed
  <2>7. CustomStaysJson'
    BY <1>2, <2>1, <2>6, LiveStaysJson DEF SetInv, SetTypes, CustomStaysJson
  <2>8. QED
    BY <2>5, <2>7 DEF SetInv
<1>4. CASE ~Writable("dlr_enabled")
  <2>1. Refused("dlr_enabled", b) /\ UNCHANGED live
    BY <1>4 DEF ToggleDlr
  <2>2. saveNote'.result = "error" /\ UNCHANGED <<user, page>>
    BY <2>1 DEF Refused
  <2>3. CustomStaysJson'
    BY <1>2, <2>1, <2>2, LiveKept
  <2>4. QED
    BY <1>2, <2>2, <2>3, NotSaved DEF SetInv, SetTypes
<1>5. QED
  BY <1>3, <1>4

\* The two writes of write_model_keys, and the first alone.
LEMMA ModelsWrittenLayer ==
  ASSUME SetInv, NEW m \in Models, NEW roster \in Seq(Models)
  PROVE  \E u \in Layer : u = ModelsWritten(m, roster) /\ u.model = m /\ (Picks(user) => Picks(u))
<1>1. PICK l \in Layer : l = Mended(user, {"model", "roster"}) /\ (Picks(user) => Picks(l))
  BY MendedLayer DEF SetInv, SetTypes
<1>2. PICK ms \in Seq(Seq(Models)) : ms = <<roster>>
  <2>1. <<roster>> \in Seq(Seq(Models))
    OBVIOUS
  <2>2. QED
    BY <2>1, Zenon
<1> DEFINE w == [l EXCEPT !.model = m, !.roster = ms]
<1>3. w \in Layer /\ w.model = m
  BY DEF Layer
<1>4. Picks(l) => Picks(w)
  BY DEF Layer, Picks, Said, WellTyped
<1>5. w = ModelsWritten(m, roster)
  BY <1>1, <1>2 DEF ModelsWritten
<1> HIDE DEF w
<1>6. QED
  BY <1>1, <1>3, <1>4, <1>5, Zenon

LEMMA HalfWrittenInv ==
  ASSUME SetInv, NEW m \in Models, NEW what, HalfWritten(m, what), UNCHANGED <<project, env, live>>
  PROVE  SetInv'
<1>1. PICK l \in Layer : l = Mended(user, {"model"}) /\ (Picks(user) => Picks(l))
  BY MendedLayer DEF SetInv, SetTypes
<1>2. user' = [l EXCEPT !.model = m] /\ UNCHANGED page /\ saveNote'.result = "error"
  BY <1>1 DEF HalfWritten, ModelWritten
<1>3. user' \in Layer /\ (Picks(l) => Picks(user'))
  BY <1>2 DEF Layer, Picks, Said, WellTyped
<1>4. CustomStaysJson'
  BY <1>1, <1>3, LiveKept
<1>5. QED
  BY <1>2, <1>3, <1>4, NotSaved DEF SetInv, SetTypes

LEMMA RefusedInv ==
  ASSUME SetInv, NEW key, NEW value, Refused(key, value), UNCHANGED <<project, env, live>>
  PROVE  SetInv'
<1>1. saveNote'.result = "error" /\ UNCHANGED <<user, page>>
  BY DEF Refused
<1>2. CustomStaysJson'
  BY <1>1, LiveKept
<1>3. QED
  BY <1>1, <1>2, NotSaved DEF SetInv, SetTypes

LEMMA AddModelInv ==
  ASSUME SetInv, NEW m \in Models, NEW both \in BOOLEAN, AddModel(m, both), UNCHANGED <<project, env, live>>
  PROVE  SetInv'
<1> DEFINE roster == IF m \in Range(page.models) THEN page.models ELSE Append(page.models, m)
<1>1. m # Unset
  BY SettingsAssumption
<1>2. CASE Writable("model") /\ both
  <2>1. Committed("model", m, ModelsWritten(m, roster))
    BY <1>2 DEF AddModel
  <2>2. roster \in Seq(Models)
    BY AppendProperties DEF SetInv, SetTypes, Shown
  <2> HIDE DEF roster
  <2>3. PICK u \in Layer : u = ModelsWritten(m, roster) /\ u.model = m /\ (Picks(user) => Picks(u))
    BY <2>2, ModelsWrittenLayer
  <2>4. Committed("model", m, u)
    BY <2>1, <2>3
  <2>5. SetTypes' /\ SaveKept'
    BY <1>1, <2>3, <2>4, CommittedInv
  <2>6. user' = u
    BY <2>4 DEF Committed
  <2>7. CustomStaysJson'
    BY <2>3, <2>6, LiveKept
  <2>8. QED
    BY <2>5, <2>7 DEF SetInv
<1>3. CASE Writable("model") /\ ~both
  BY <1>3, HalfWrittenInv DEF AddModel
<1>4. CASE ~Writable("model")
  BY <1>4, RefusedInv DEF AddModel
<1>5. QED
  BY <1>2, <1>3, <1>4

LEMMA RemoveModelInv == ASSUME SetInv, NEW both \in BOOLEAN, RemoveModel(both) PROVE SetInv'
<1> DEFINE S == {i \in DOMAIN page.models : page.models[i] # page.model}
<1>1. PICK ms \in Seq(Models), m \in Models : ms = page.models /\ m = page.model
  BY DEF SetInv, SetTypes, Shown
<1>2. PICK kept \in Seq(Models) : kept = Keep(ms, S)
  BY KeepTyped
<1>3. UNCHANGED <<project, env, live>>
  BY DEF RemoveModel
<1>4. CASE Writable("model") /\ both
  <2>1. /\ user' = ModelsWritten(m, kept) /\ page' = load_layers(user', project, env)
        /\ saveNote'.result = "removed"
    BY <1>1, <1>2, <1>4 DEF RemoveModel
  <2>2. PICK u \in Layer : u = ModelsWritten(m, kept) /\ u.model = m /\ (Picks(user) => Picks(u))
    BY ModelsWrittenLayer
  <2>3. user' = u /\ page' \in Shown
    BY <2>1, <2>2, LoadShown DEF SetInv, SetTypes
  <2>4. CustomStaysJson'
    BY <1>3, <2>2, <2>3, LiveKept
  <2>5. QED
    BY <1>3, <2>1, <2>3, <2>4, NotSaved DEF SetInv, SetTypes
<1>5. CASE Writable("model") /\ ~both
  <2>1. HalfWritten(m, m)
    BY <1>1, <1>5 DEF RemoveModel
  <2>2. QED
    BY <1>3, <2>1, HalfWrittenInv
<1>6. CASE ~Writable("model")
  <2>1. Refused("model", m)
    BY <1>1, <1>6 DEF RemoveModel
  <2>2. QED
    BY <1>3, <2>1, RefusedInv
<1>7. QED
  BY <1>4, <1>5, <1>6

LEMMA SetNextInv == ASSUME SetInv, [SetNext]_setVars PROVE SetInv'
<1>1. CASE UNCHANGED setVars
  BY <1>1 DEF setVars, SetInv, SetTypes, SaveKept, CustomStaysJson
<1>2. ASSUME NEW m \in Models, NEW both \in BOOLEAN, TypeModel(m, both) PROVE SetInv'
  BY <1>2, AddModelInv DEF TypeModel
<1>3. ASSUME NEW d \in {1, -1}, NEW both \in BOOLEAN, CycleModel(d, both) PROVE SetInv'
  <2>1. PICK ms \in Seq(Models) : ms = page.models
    BY DEF SetInv, SetTypes, Shown
  <2>2. PICK m : m = step(ms, page.model, d)
    OBVIOUS
  <2>3. m \in Models /\ AddModel(m, both) /\ UNCHANGED <<project, env, live>>
    BY <1>3, <2>1, <2>2, StepIn DEF CycleModel
  <2>4. QED
    BY <2>3, AddModelInv
<1>4. QED
  BY <1>1, <1>2, <1>3, CycleModeInv, ToggleDlrInv, RemoveModelInv DEF SetNext

\* A save without a warning, and without a word of the project's file, is what the page shows.
LEMMA InvTakesEffect == ASSUME SetInv PROVE SavedTakesEffect
<1>1. SUFFICES ASSUME saveNote.result = "saved", WellTyped(user), ~Replaces(project, saveNote.key)
               PROVE  CASE saveNote.key = "mode" -> page.mode = saveNote.value
                        [] saveNote.key = "model" -> page.model = saveNote.value /\ saveNote.value \in Range(page.models)
                        [] OTHER -> Said(project, "transport") = Unset /\ env["transport"] = Unset
                                    => (page.transport # "json") = (saveNote.value = "true")
  BY DEF SavedTakesEffect
<1>2. /\ page = load_layers(user, project, env) /\ WellTyped(env) /\ (saveNote.key = "mode" => user.perms)
      /\ saveNote.key \in {"mode", "model", "dlr_enabled"}
      /\ user[saveNote.key] = saveNote.value /\ saveNote.value # Unset /\ env[saveNote.key] = Unset
  BY <1>1 DEF SetInv, SetTypes, SaveKept
<1>3. Said(env, saveNote.key) = Unset /\ Said(user, saveNote.key) = saveNote.value
  BY <1>1, <1>2 DEF Said
<1>4. CASE saveNote.key = "mode"
  <2>1. page.mode = Resolve(DefaultMode, BlockMode(user), BlockMode(project), Said(env, "mode"))
    BY <1>2 DEF load_layers
  <2>2. BlockMode(project) = Unset
    BY <1>1, <1>4 DEF Replaces, BlockMode
  <2>3. BlockMode(user) = saveNote.value
    BY <1>1, <1>2, <1>4 DEF BlockMode, HasBlock, Over
  <2>4. page.mode = saveNote.value
    BY <1>2, <1>3, <1>4, <2>1, <2>2, <2>3 DEF Resolve, Over
  <2>5. QED
    BY <1>4, <2>4
<1>5. CASE saveNote.key = "model"
  <2>1. page.model = Resolve(Default, Said(user, "model"), Said(project, "model"), Said(env, "model"))
    BY <1>2 DEF load_layers
  <2>2. page.model = saveNote.value
    BY <1>1, <1>2, <1>3, <1>5, <2>1 DEF Resolve, Over, Replaces
  <2>3. page.model \in Range(page.models)
    BY <1>2, LoadShown DEF SetInv, SetTypes
  <2>4. QED
    BY <1>5, <2>2, <2>3
<1>6. CASE saveNote.key = "dlr_enabled"
  <2>1. SUFFICES ASSUME Said(project, "transport") = Unset, env["transport"] = Unset
                 PROVE  (page.transport # "json") = (saveNote.value = "true")
    BY <1>6
  <2>2. saveNote.value \in {"true", "false"}
    BY <1>2, <1>6 DEF SetInv, SetTypes, Layer
  <2>3. LayerTransport(project) = Unset /\ LayerTransport(env) = Unset
    BY <1>1, <1>2, <1>3, <1>6, <2>1 DEF LayerTransport, transport_for_dlr_enabled, Over, Said, Replaces
  <2>4. LayerTransport(user) = IF saveNote.value = "true" THEN "auto" ELSE "json"
    BY <1>2, <1>3, <1>6, <2>2 DEF LayerTransport, transport_for_dlr_enabled, Over, Unset
  <2>5. Resolve("auto", LayerTransport(user), LayerTransport(project), LayerTransport(env))
          = IF saveNote.value = "true" THEN "auto" ELSE "json"
    BY <2>3, <2>4 DEF Resolve, Over, Unset
  <2>6. Picks(user)
    BY <1>2, <1>3, <1>6 DEF Picks
  <2>7. ExplicitDlr(<<user, project, env>>)
    BY <2>6, ExplicitIs
  <2>8. page.transport = Resolve("auto", LayerTransport(user), LayerTransport(project), LayerTransport(env))
    BY <1>2, <2>7 DEF load_layers
  <2>9. QED
    BY <2>2, <2>5, <2>8
<1>7. QED
  BY <1>2, <1>4, <1>5, <1>6

(* Whatever the layers say and however often the page saves: a save reported *)
(* without a warning is what the next load resolves, unless another value of  *)
(* the user's file is mistyped or the project's file has the key (for          *)
(* default_mode, any permissions block), and no default, override or reload    *)
(* speaks DLR to a custom endpoint (commit, load, apply_base_url_override).    *)
THEOREM SettingsSoundAlways == SetSpec => []SettingsSound
<1>1. SetInv => SettingsSound
  BY InvTakesEffect DEF SetInv, SettingsSound
<1>2. QED
  BY <1>1, SetInitInv, SetNextInv, PTL DEF SetSpec

-----------------------------------------------------------------------------
(* A headless run's artifacts.                                             *)

LEMMA TurnUsage == ASSUME NEW t \in TurnRecords PROVE t.usage \in Nat
BY DEF TurnRecords

\* What Billed adds up, turn by turn.
LEMMA BilledRuns ==
  ASSUME NEW ts, ts \in Seq(TurnRecords)
  PROVE  \E h \in [0..Len(ts) -> Nat] :
           h[0] = 0 /\ (\A n \in 1..Len(ts) : h[n] = h[n - 1] + ts[n].usage) /\ Billed(ts) = h[Len(ts)]
<1> DEFINE L == Len(ts)
           Goes(n, q) == q + ts[n].usage
           F == [p \in (1..L) \X Nat |-> Goes(p[1], p[2])]
           Rec(h) == h = [n \in 0..L |-> IF n = 0 THEN 0 ELSE h[n - 1] + ts[n].usage]
<1>1. L \in Nat
  OBVIOUS
<1>2. ASSUME NEW n \in 1..L, NEW q \in Nat PROVE Goes(n, q) \in Nat
  <2>1. PICK t \in TurnRecords : t = ts[n]
    BY ElementOfSeq
  <2>2. QED
    BY <2>1, TurnUsage
<1> HIDE DEF Goes
<1>3. F \in [(1..L) \X Nat -> Nat]
  BY <1>2
<1>4. \A n \in 1..L, q \in Nat : F[<<n, q>>] = Goes(n, q)
  OBVIOUS
<1> HIDE DEF F
<1>5. PICK g : Iterates(g, L, Nat, 0, F)
  <2>1. 0 \in Nat
    OBVIOUS
  <2>2. QED
    BY <1>1, <1>3, <2>1, Recursion, Zenon
<1>6. g \in [0..L -> Nat] /\ g[0] = 0 /\ \A n \in 1..L : g[n] = F[<<n, g[n - 1]>>]
  BY <1>5 DEF Iterates
<1>7. ASSUME NEW n \in 1..L PROVE g[n] = Goes(n, g[n - 1]) /\ n - 1 \in 0..L /\ n \in 0..L /\ n # 0
  <2>1. n - 1 \in 0..L /\ n \in 0..L /\ n # 0
    BY <1>1
  <2>2. g[n - 1] \in Nat
    BY <1>6, <2>1
  <2>3. F[<<n, g[n - 1]>>] = Goes(n, g[n - 1])
    BY <1>4, <2>2
  <2>4. QED
    BY <1>6, <2>1, <2>3
<1>8. Rec(g)
  <2>1. ASSUME NEW n \in 0..L PROVE g[n] = IF n = 0 THEN 0 ELSE g[n - 1] + ts[n].usage
    <3>1. n # 0 => n \in 1..L
      BY <1>1
    <3>2. QED
      BY <1>6, <1>7, <3>1 DEF Goes
  <2>2. QED
    BY <1>6, <2>1
<1> DEFINE h == CHOOSE f : Rec(f)
<1>9. Rec(h)
  <2> HIDE DEF Rec
  <2>1. QED
    BY <1>8, Zenon
<1>10. Billed(ts) = h[L]
  BY DEF Billed
<1> HIDE DEF h
<1>11. ASSUME NEW n \in 0..L PROVE h[n] = IF n = 0 THEN 0 ELSE h[n - 1] + ts[n].usage
  BY <1>9
<1>12. DOMAIN h = 0..L
  BY <1>9
<1> HIDE DEF Rec
<1> DEFINE Good == {n \in 0..L : h[n] \in Nat}
<1>13. h[0] = 0 /\ 0 \in Good
  <2>1. 0 \in 0..L
    BY <1>1
  <2>2. h[0] = 0
    BY <1>11, <2>1
  <2>3. QED
    BY <2>1, <2>2
<1>14. ASSUME NEW n \in 1..L PROVE h[n] = Goes(n, h[n - 1])
  BY <1>7, <1>11 DEF Goes
<1>15. ASSUME NEW n \in 1..L, n - 1 \in Good PROVE n \in Good
  BY <1>2, <1>7, <1>14, <1>15
<1>16. 0..L \subseteq Good
  <2> HIDE DEF Good
  <2>1. QED
    BY <1>1, <1>13, <1>15, Segment
<1>17. h \in [0..L -> Nat]
  BY <1>9, <1>12, <1>16 DEF Rec
<1>18. QED
  BY <1>10, <1>13, <1>14, <1>17 DEF Goes

LEMMA BilledNone == Billed(<<>>) = 0
<1>1. <<>> \in Seq(TurnRecords) /\ Len(<<>>) = 0
  OBVIOUS
<1>2. PICK h \in [0..Len(<<>>) -> Nat] : h[0] = 0 /\ Billed(<<>>) = h[Len(<<>>)]
  BY <1>1, BilledRuns
<1>3. QED
  BY <1>1, <1>2

LEMMA BilledNext ==
  ASSUME NEW ts, ts \in Seq(TurnRecords), NEW t \in TurnRecords
  PROVE  Billed(ts) \in Nat /\ Billed(Append(ts, t)) = Billed(ts) + t.usage
<1> DEFINE r == Append(ts, t)
<1>1. PICK L \in Nat : L = Len(ts)
  OBVIOUS
<1>2. r \in Seq(TurnRecords) /\ Len(r) = L + 1 /\ r[L + 1] = t /\ \A n \in 1..L : r[n] = ts[n]
  BY <1>1
<1> HIDE DEF r
<1>3. PICK h \in [0..L -> Nat] : h[0] = 0 /\ (\A n \in 1..L : h[n] = h[n - 1] + ts[n].usage) /\ Billed(ts) = h[L]
  BY <1>1, BilledRuns
<1>4. PICK g \in [0..L + 1 -> Nat] : g[0] = 0 /\ (\A n \in 1..L + 1 : g[n] = g[n - 1] + r[n].usage) /\ Billed(r) = g[L + 1]
  BY <1>2, BilledRuns
<1> DEFINE Same == {n \in 0..L : g[n] = h[n]}
<1>5. 0 \in Same
  BY <1>1, <1>3, <1>4
<1>6. ASSUME NEW n \in 1..L, n - 1 \in Same PROVE n \in Same
  <2>1. n \in 1..L + 1 /\ n \in 0..L /\ g[n - 1] = h[n - 1]
    BY <1>1, <1>6
  <2>2. QED
    BY <1>2, <1>3, <1>4, <2>1
<1>7. 0..L \subseteq Same
  <2> HIDE DEF Same
  <2>1. QED
    BY <1>1, <1>5, <1>6, Segment
<1>8. g[L] = h[L] /\ h[L] \in Nat /\ L + 1 \in 1..L + 1 /\ (L + 1) - 1 = L
  BY <1>1, <1>7
<1>9. g[L + 1] = g[L] + t.usage
  BY <1>2, <1>4, <1>8
<1>10. QED
  BY <1>3, <1>4, <1>8, <1>9 DEF r

\* FlattenSeq, member by member.
LEMMA FlattenRuns ==
  ASSUME NEW T, NEW q, q \in Seq(Seq(T))
  PROVE  \E h \in [0..Len(q) -> Seq(T)] :
           h[0] = <<>> /\ (\A n \in 1..Len(q) : h[n] = h[n - 1] \o q[n]) /\ FlattenSeq(q) = h[Len(q)]
<1> DEFINE L == Len(q)
           F == [p \in (1..L) \X Seq(T) |-> p[2] \o q[p[1]]]
           Rec(h) == h = [n \in 1..L |-> IF n = 1 THEN q[n] ELSE h[n - 1] \o q[n]]
<1>1. L \in Nat /\ <<>> \in Seq(T)
  OBVIOUS
<1>2. ASSUME NEW n \in 1..L PROVE q[n] \in Seq(T)
  BY ElementOfSeq
<1>3. \A n \in 1..L, r \in Seq(T) : r \o q[n] \in Seq(T)
  <2>1. ASSUME NEW n \in 1..L, NEW r \in Seq(T) PROVE r \o q[n] \in Seq(T)
    <3>1. PICK x \in Seq(T) : x = q[n]
      BY <1>2
    <3>2. r \o x \in Seq(T)
      OBVIOUS
    <3>3. QED
      BY <3>1, <3>2
  <2>2. QED
    BY <2>1
<1>4. F \in [(1..L) \X Seq(T) -> Seq(T)] /\ \A n \in 1..L, r \in Seq(T) : F[<<n, r>>] = r \o q[n]
  BY <1>3
<1> HIDE DEF F
<1>5. PICK g : Iterates(g, L, Seq(T), <<>>, F)
  BY <1>1, <1>4, Recursion, Zenon
<1>6. g \in [0..L -> Seq(T)] /\ g[0] = <<>> /\ \A n \in 1..L : g[n] = F[<<n, g[n - 1]>>]
  BY <1>5 DEF Iterates
<1>7. ASSUME NEW n \in 1..L PROVE g[n] = g[n - 1] \o q[n] /\ g[n - 1] \in Seq(T) /\ n - 1 \in 0..L
  <2>1. n - 1 \in 0..L
    BY <1>1
  <2>2. g[n - 1] \in Seq(T)
    BY <1>6, <2>1
  <2>3. F[<<n, g[n - 1]>>] = g[n - 1] \o q[n]
    BY <1>4, <2>2
  <2>4. QED
    BY <1>6, <2>1, <2>2, <2>3
<1>8. CASE L = 0
  <2>1. FlattenSeq(q) = q
    BY <1>8 DEF FlattenSeq
  <2>2. q = <<>>
    BY <1>8, EmptySeq
  <2>3. QED
    BY <1>6, <1>7, <1>8, <2>1, <2>2
<1>9. CASE L # 0
  <2> DEFINE f == [n \in 1..L |-> g[n]]
  <2>1. Rec(f)
    <3>1. ASSUME NEW n \in 1..L PROVE f[n] = IF n = 1 THEN q[n] ELSE f[n - 1] \o q[n]
      <4>1. CASE n = 1
        <5>1. g[1] = <<>> \o q[1]
          <6>1. g[n] = g[n - 1] \o q[n]
            BY <1>7, Zenon
          <6>2. n - 1 = 0
            BY <4>1
          <6>3. QED
            BY <1>6, <4>1, <6>1, <6>2
        <5>2. PICK x \in Seq(T) : x = q[1]
          BY <1>2, <4>1
        <5>3. <<>> \o x = x
          OBVIOUS
        <5>4. QED
          BY <4>1, <5>1, <5>2, <5>3
      <4>2. CASE n # 1
        <5>1. n - 1 \in 1..L
          BY <1>1, <4>2
        <5>2. QED
          BY <1>7, <4>2, <5>1
      <4>3. QED
        BY <4>1, <4>2
    <3> HIDE DEF f
    <3>2. DOMAIN f = 1..L /\ f = [n \in 1..L |-> f[n]]
      BY DEF f
    <3>3. QED
      BY <3>1, <3>2
  <2> DEFINE h == CHOOSE x : Rec(x)
  <2>2. Rec(h)
    <3> HIDE DEF Rec
    <3>1. QED
      BY <2>1, Zenon
  <2>3. FlattenSeq(q) = h[L]
    BY <1>9 DEF FlattenSeq
  <2> HIDE DEF h, f
  <2>4. ASSUME NEW n \in 1..L PROVE h[n] = IF n = 1 THEN q[n] ELSE h[n - 1] \o q[n]
    BY <2>2
  <2> HIDE DEF Rec
  <2> DEFINE Same == {n \in 0..L : n = 0 \/ h[n] = g[n]}
  <2>5. 0 \in Same
    BY <1>1
  <2>6. ASSUME NEW n \in 1..L, n - 1 \in Same PROVE n \in Same
    <3>1. CASE n = 1
      <4>1. h[1] = q[1]
        BY <2>4, <3>1
      <4>2. g[1] = <<>> \o q[1]
        <5>1. g[n] = g[n - 1] \o q[n]
          BY <1>7, Zenon
        <5>2. n - 1 = 0
          BY <3>1
        <5>3. QED
          BY <1>6, <3>1, <5>1, <5>2
      <4>3. PICK x \in Seq(T) : x = q[1]
        BY <1>2, <3>1
      <4>4. <<>> \o x = x
        OBVIOUS
      <4>5. QED
        BY <1>1, <3>1, <4>1, <4>2, <4>3, <4>4
    <3>2. CASE n # 1
      <4>1. h[n - 1] = g[n - 1] /\ n \in 0..L
        BY <1>1, <2>6, <3>2
      <4>2. QED
        BY <1>7, <2>4, <3>2, <4>1
    <3>3. QED
      BY <3>1, <3>2
  <2>7. 0..L \subseteq Same
    <3> HIDE DEF Same
    <3>1. QED
      BY <1>1, <2>5, <2>6, Segment
  <2>8. h[L] = g[L]
    BY <1>1, <1>9, <2>7
  <2>9. QED
    BY <1>6, <1>7, <2>3, <2>8
<1>10. QED
  BY <1>8, <1>9

LEMMA FlattenNext ==
  ASSUME NEW T, NEW q, q \in Seq(Seq(T)), NEW x, x \in Seq(T)
  PROVE  FlattenSeq(q) \in Seq(T) /\ FlattenSeq(Append(q, x)) = FlattenSeq(q) \o x
<1> DEFINE r == Append(q, x)
<1>1. PICK L \in Nat : L = Len(q)
  OBVIOUS
<1>2. r \in Seq(Seq(T)) /\ Len(r) = L + 1 /\ r[L + 1] = x /\ \A n \in 1..L : r[n] = q[n]
  BY <1>1
<1> HIDE DEF r
<1>3. PICK h \in [0..L -> Seq(T)] : h[0] = <<>> /\ (\A n \in 1..L : h[n] = h[n - 1] \o q[n]) /\ FlattenSeq(q) = h[L]
  BY <1>1, FlattenRuns
<1>4. PICK g \in [0..L + 1 -> Seq(T)] : g[0] = <<>> /\ (\A n \in 1..L + 1 : g[n] = g[n - 1] \o r[n]) /\ FlattenSeq(r) = g[L + 1]
  <2>1. \E g \in [0..Len(r) -> Seq(T)] :
          g[0] = <<>> /\ (\A n \in 1..Len(r) : g[n] = g[n - 1] \o r[n]) /\ FlattenSeq(r) = g[Len(r)]
    BY <1>2, FlattenRuns, Zenon
  <2>2. QED
    BY <1>2, <2>1, Zenon
<1> DEFINE Same == {n \in 0..L : g[n] = h[n]}
<1>5. 0 \in Same
  BY <1>1, <1>3, <1>4
<1>6. ASSUME NEW n \in 1..L, n - 1 \in Same PROVE n \in Same
  <2>1. n \in 1..L + 1 /\ n \in 0..L /\ g[n - 1] = h[n - 1]
    BY <1>1, <1>6
  <2>2. QED
    BY <1>2, <1>3, <1>4, <2>1
<1>7. 0..L \subseteq Same
  <2> HIDE DEF Same
  <2>1. QED
    BY <1>1, <1>5, <1>6, Segment
<1>8. g[L] = h[L] /\ h[L] \in Seq(T) /\ L + 1 \in 1..L + 1 /\ (L + 1) - 1 = L
  BY <1>1, <1>7
<1>9. g[L + 1] = g[L] \o x
  BY <1>2, <1>4, <1>8
<1>10. QED
  BY <1>3, <1>4, <1>8, <1>9 DEF r

\* A step of the trajectory, the turns a list of steps tells, and what a step takes on.
StepRecs == [turn : TurnRecords, results : Seq(TurnRecords)]
Telling(st) == [i \in DOMAIN st |-> <<st[i].turn>> \o st[i].results]
Flat(st) == FlattenSeq(Telling(st))
Hung(st) == \A i \in DOMAIN st : \A r \in Range(st[i].results) : r.id \in st[i].turn.calls
Grown(st, t) == [st EXCEPT ![Len(st)].results = Append(@, t)]
Adds(st, t) == IF st # <<>> /\ attached(Last(st), t) THEN Grown(st, t)
               ELSE Append(st, [turn |-> t, results |-> <<>>])

LEMMA TurnsAssociate ==
  ASSUME NEW a1 \in Seq(TurnRecords), NEW a2 \in Seq(TurnRecords), NEW a3 \in Seq(TurnRecords)
  PROVE  (a1 \o a2) \o a3 = a1 \o (a2 \o a3)
<1>1. a1 \o a2 \in Seq(TurnRecords) /\ a2 \o a3 \in Seq(TurnRecords)
  OBVIOUS
<1>2. QED
  BY <1>1, ConcatAssociative

LEMMA TellingOne ==
  ASSUME NEW x \in StepRecs
  PROVE  x.turn \in TurnRecords /\ x.results \in Seq(TurnRecords) /\ <<x.turn>> \o x.results \in Seq(TurnRecords)
<1>1. x.turn \in TurnRecords /\ x.results \in Seq(TurnRecords)
  BY DEF StepRecs
<1>2. PICK t \in TurnRecords, q \in Seq(TurnRecords) : t = x.turn /\ q = x.results
  BY <1>1
<1>3. <<t>> \in Seq(TurnRecords)
  OBVIOUS
<1>4. <<t>> \o q \in Seq(TurnRecords)
  BY <1>3
<1>5. QED
  BY <1>1, <1>2, <1>4

LEMMA FlatAdd ==
  ASSUME NEW st, st \in Seq(StepRecs), NEW x \in StepRecs
  PROVE  /\ Flat(st) \in Seq(TurnRecords)
         /\ Flat(Append(st, x)) = Flat(st) \o (<<x.turn>> \o x.results)
<1>1. PICK L \in Nat : L = Len(st) /\ DOMAIN st = 1..L
  OBVIOUS
<1>2. PICK y \in Seq(TurnRecords) : y = <<x.turn>> \o x.results
  BY TellingOne
<1>3. ASSUME NEW i \in 1..L PROVE <<st[i].turn>> \o st[i].results \in Seq(TurnRecords)
  <2>1. PICK z \in StepRecs : z = st[i]
    BY <1>1, ElementOfSeq
  <2>2. QED
    BY <2>1, TellingOne
<1>4. Telling(st) \in Seq(Seq(TurnRecords)) /\ Len(Telling(st)) = L
  <2>1. Telling(st) = [i \in 1..L |-> <<st[i].turn>> \o st[i].results]
    BY <1>1 DEF Telling
  <2>2. Telling(st) \in [1..L -> Seq(TurnRecords)]
    BY <1>3, <2>1
  <2>3. QED
    BY <1>1, <2>2, LenProperties
<1>5. PICK q \in Seq(Seq(TurnRecords)) : q = Telling(st) /\ Len(q) = L
  BY <1>4
<1> DEFINE r == Append(st, x)
<1>6. r \in Seq(StepRecs) /\ Len(r) = L + 1 /\ DOMAIN r = 1..L + 1 /\ r[L + 1] = x /\ \A i \in 1..L : r[i] = st[i]
  BY <1>1
<1> HIDE DEF r
<1>7. Telling(r) = Append(q, y)
  <2>1. Append(q, y) \in Seq(Seq(TurnRecords)) /\ Len(Append(q, y)) = L + 1
        /\ Append(q, y)[L + 1] = y /\ \A i \in 1..L : Append(q, y)[i] = q[i]
    BY <1>1, <1>5, AppendProperties
  <2> DEFINE p == Append(q, y)
  <2>2. DOMAIN p = 1..L + 1
    BY <2>1
  <2> HIDE DEF p
  <2>3. ASSUME NEW i \in 1..L + 1 PROVE Telling(r)[i] = p[i]
    <3>1. Telling(r)[i] = <<r[i].turn>> \o r[i].results
      BY <1>6 DEF Telling
    <3>2. CASE i = L + 1
      BY <1>2, <1>6, <2>1, <3>1, <3>2 DEF p
    <3>3. CASE i # L + 1
      <4>1. i \in 1..L
        BY <3>3
      <4>2. q[i] = <<st[i].turn>> \o st[i].results
        BY <1>1, <1>5, <4>1 DEF Telling
      <4>3. QED
        BY <1>6, <2>1, <3>1, <4>1, <4>2 DEF p
    <3>4. QED
      BY <3>2, <3>3
  <2>4. DOMAIN Telling(r) = 1..L + 1
    BY <1>6 DEF Telling
  <2>5. Telling(r) = [i \in 1..L + 1 |-> Telling(r)[i]]
    BY <2>4 DEF Telling
  <2>6. p = [i \in 1..L + 1 |-> p[i]]
    <3>1. p \in Seq(Seq(TurnRecords)) /\ Len(p) = L + 1
      BY <2>1 DEF p
    <3>2. p \in [1..L + 1 -> Seq(TurnRecords)]
      BY <3>1, LenProperties
    <3>3. QED
      BY <3>2
  <2>7. QED
    BY <2>3, <2>5, <2>6 DEF p
<1>8. FlattenSeq(q) \in Seq(TurnRecords) /\ FlattenSeq(Append(q, y)) = FlattenSeq(q) \o y
  BY FlattenNext
<1>9. QED
  BY <1>2, <1>5, <1>7, <1>8 DEF Flat, r

LEMMA FlatGrow ==
  ASSUME NEW st, st \in Seq(StepRecs), st # <<>>, NEW t \in TurnRecords
  PROVE  /\ Grown(st, t) \in Seq(StepRecs) /\ Len(Grown(st, t)) = Len(st)
         /\ \A i \in 1..Len(st) : Grown(st, t)[i] = IF i = Len(st) THEN [st[i] EXCEPT !.results = Append(@, t)] ELSE st[i]
         /\ Flat(Grown(st, t)) = Append(Flat(st), t)
<1>1. PICK n \in Nat : Len(st) = n + 1
  <2>1. Len(st) \in Nat /\ Len(st) # 0
    BY EmptySeq
  <2>2. Len(st) - 1 \in Nat /\ Len(st) = (Len(st) - 1) + 1
    BY <2>1
  <2>3. QED
    BY <2>2
<1>2. PICK x \in StepRecs : x = st[n + 1]
  BY <1>1, ElementOfSeq
<1>3. PICK q \in Seq(TurnRecords), u \in TurnRecords : q = x.results /\ u = x.turn
  BY TellingOne
<1>4. PICK z : z = [x EXCEPT !.results = Append(q, t)]
  OBVIOUS
<1>5. Append(q, t) \in Seq(TurnRecords)
  BY AppendProperties
<1>6. z \in StepRecs /\ z.turn = u /\ z.results = Append(q, t)
  BY <1>3, <1>4, <1>5 DEF StepRecs
<1> DEFINE f == SubSeq(st, 1, n)
<1>7. f \in Seq(StepRecs) /\ Len(f) = n /\ \A i \in 1..n : f[i] = st[i]
  BY <1>1
<1> HIDE DEF f
<1>8. st = Append(f, x)
  <2>1. Append(f, x) \in Seq(StepRecs) /\ Len(Append(f, x)) = n + 1 /\ Append(f, x)[n + 1] = x
        /\ \A i \in 1..n : Append(f, x)[i] = f[i]
    BY <1>7
  <2>2. PICK g \in Seq(StepRecs) : g = Append(f, x)
    BY <2>1
  <2>3. \A i \in 1..n + 1 : g[i] = st[i]
    BY <1>2, <1>7, <2>1, <2>2
  <2>4. QED
    BY <1>1, <2>1, <2>2, <2>3, SeqEqual
<1>9. Grown(st, t) = [st EXCEPT ![n + 1] = z]
  BY <1>1, <1>2, <1>3, <1>4 DEF Grown
<1>10. DOMAIN st = 1..n + 1 /\ n + 1 \in 1..n + 1
  BY <1>1
<1>11. PICK g : g = [st EXCEPT ![n + 1] = z]
  OBVIOUS
<1>12. g \in Seq(StepRecs) /\ Len(g) = n + 1 /\ g[n + 1] = z /\ \A i \in 1..n : g[i] = st[i]
  <2>1. st \in [1..n + 1 -> StepRecs]
    BY <1>1
  <2>2. g \in [1..n + 1 -> StepRecs]
    BY <1>6, <1>11, <2>1
  <2>3. g[n + 1] = z /\ \A i \in 1..n : g[i] = st[i]
    BY <1>10, <1>11
  <2>4. g \in Seq(StepRecs) /\ Len(g) = n + 1
    BY <2>2
  <2>5. QED
    BY <2>3, <2>4
<1>13. g = Append(f, z)
  <2>1. Append(f, z) \in Seq(StepRecs) /\ Len(Append(f, z)) = n + 1 /\ Append(f, z)[n + 1] = z
        /\ \A i \in 1..n : Append(f, z)[i] = f[i]
    BY <1>6, <1>7
  <2>2. PICK k \in Seq(StepRecs) : k = Append(f, z)
    BY <2>1
  <2>3. \A i \in 1..n + 1 : k[i] = g[i]
    BY <1>7, <1>12, <2>1, <2>2
  <2>4. QED
    BY <1>12, <2>1, <2>2, <2>3, SeqEqual
<1>14. PICK b \in Seq(TurnRecords) : b = Flat(f)
  BY <1>2, <1>7, FlatAdd
<1>15. Flat(st) = b \o (<<u>> \o q)
  BY <1>3, <1>7, <1>8, <1>14, FlatAdd
<1>16. Flat(g) = b \o (<<u>> \o Append(q, t))
  BY <1>6, <1>7, <1>13, <1>14, FlatAdd
<1>17. b \o (<<u>> \o Append(q, t)) = Append(b \o (<<u>> \o q), t)
  <2>1. PICK k \in Seq(TurnRecords) : k = <<t>>
    <3>1. <<t>> \in Seq(TurnRecords)
      OBVIOUS
    <3>2. QED
      BY <3>1, Zenon
  <2>2. PICK j \in Seq(TurnRecords) : j = <<u>>
    <3>1. <<u>> \in Seq(TurnRecords)
      OBVIOUS
    <3>2. QED
      BY <3>1, Zenon
  <2>3. j \o q \in Seq(TurnRecords) /\ b \o (j \o q) \in Seq(TurnRecords)
    OBVIOUS
  <2>4. Append(q, t) = q \o k /\ Append(b \o (j \o q), t) = (b \o (j \o q)) \o k
    <3>1. PICK g1 \in Seq(TurnRecords) : g1 = b \o (j \o q)
      BY <2>3, Zenon
    <3>2. Append(q, t) = q \o <<t>> /\ Append(g1, t) = g1 \o <<t>>
      BY AppendIsConcat
    <3>3. QED
      BY <2>1, <3>1, <3>2, Zenon
  <2>5. (b \o (j \o q)) \o k = b \o ((j \o q) \o k) /\ (j \o q) \o k = j \o (q \o k)
    <3>1. PICK g2 \in Seq(TurnRecords) : g2 = j \o q
      BY <2>3, Zenon
    <3>2. (j \o q) \o k = j \o (q \o k)
      BY TurnsAssociate, ZenonT(60)
    <3>3. (b \o g2) \o k = b \o (g2 \o k)
      BY TurnsAssociate, ZenonT(60)
    <3>4. QED
      BY <3>1, <3>2, <3>3
  <2>6. QED
    BY <2>2, <2>4, <2>5
<1>18. ASSUME NEW i \in 1..Len(st)
       PROVE  Grown(st, t)[i] = IF i = Len(st) THEN [st[i] EXCEPT !.results = Append(@, t)] ELSE st[i]
  <2>1. CASE i = n + 1
    BY <1>1, <1>2, <1>3, <1>4, <1>9, <1>11, <1>12, <2>1
  <2>2. CASE i # n + 1
    BY <1>1, <1>9, <1>11, <1>12, <2>2
  <2>3. QED
    BY <2>1, <2>2
<1>19. QED
  BY <1>1, <1>9, <1>11, <1>12, <1>15, <1>16, <1>17, <1>18

LEMMA SubSeqNext ==
  ASSUME NEW T, NEW q, q \in Seq(T), NEW m \in 1..Len(q) + 1, NEW n \in m..Len(q)
  PROVE  SubSeq(q, m, n) = Append(SubSeq(q, m, n - 1), q[n])
<1>1. Len(q) \in Nat /\ n - 1 \in m - 1..Len(q) /\ n \in n - 1..Len(q) /\ (n - 1) + 1 = n /\ n \in 1..Len(q)
  OBVIOUS
<1>2. PICK a \in Seq(T) : a = SubSeq(q, m, n - 1)
  <2>1. SubSeq(q, m, n - 1) \in Seq(T)
    BY <1>1
  <2>2. QED
    BY <2>1, Zenon
<1>3. SubSeq(q, m, n - 1) \o SubSeq(q, (n - 1) + 1, n) = SubSeq(q, m, n)
  BY <1>1, ConcatAdjacentSubSeq
<1>4. SubSeq(q, n, n) = <<q[n]>>
  <2>1. PICK k \in 1..Len(q) : k = n
    BY <1>1
  <2>2. q[k] \in T
    BY ElementOfSeq
  <2>3. PICK y \in Seq(T) : y = SubSeq(q, k, k)
    <3>1. SubSeq(q, k, k) \in Seq(T)
      BY <1>1
    <3>2. QED
      BY <3>1, Zenon
  <2>4. Len(y) = 1 /\ y[1] = q[k]
    <3>1. k \in Int /\ (\A i \in k..k : q[i] \in T) /\ k <= k /\ k - k + 1 = 1 /\ k + 1 - 1 = k
      BY <2>2
    <3>2. Len(SubSeq(q, k, k)) = 1 /\ SubSeq(q, k, k)[1] = q[k]
      BY <3>1, SubSeqProperties
    <3>3. QED
      BY <2>3, <3>2
  <2>5. y = <<q[k]>>
    BY <2>2, <2>4
  <2>6. QED
    BY <2>1, <2>3, <2>5
<1>5. q[n] \in T
  BY <1>1, ElementOfSeq
<1>6. a \o <<q[n]>> = Append(a, q[n])
  BY <1>5, AppendIsConcat
<1>7. QED
  BY <1>1, <1>2, <1>3, <1>4, <1>6

LEMMA AddsTyped ==
  ASSUME NEW st, st \in Seq(StepRecs), NEW t \in TurnRecords PROVE Adds(st, t) \in Seq(StepRecs)
<1>1. [turn |-> t, results |-> <<>>] \in StepRecs
  BY DEF StepRecs
<1>2. Append(st, [turn |-> t, results |-> <<>>]) \in Seq(StepRecs)
  BY <1>1, AppendProperties
<1>3. QED
  BY <1>2, FlatGrow DEF Adds

\* A turn added to the steps is told last, and a result only under the turn that called.
LEMMA AddsTell ==
  ASSUME NEW st, st \in Seq(StepRecs), NEW t \in TurnRecords, Hung(st)
  PROVE  Flat(Adds(st, t)) = Append(Flat(st), t) /\ Hung(Adds(st, t))
<1>1. PICK L \in Nat : L = Len(st) /\ DOMAIN st = 1..L
  OBVIOUS
<1>2. CASE st # <<>> /\ attached(Last(st), t)
  <2>1. Adds(st, t) = Grown(st, t)
    BY <1>2 DEF Adds
  <2>2. PICK g \in Seq(StepRecs) :
          /\ g = Grown(st, t) /\ Len(g) = L /\ Flat(g) = Append(Flat(st), t)
          /\ \A i \in 1..L : g[i] = IF i = L THEN [st[i] EXCEPT !.results = Append(@, t)] ELSE st[i]
    <3>1. PICK g : g = Grown(st, t)
      OBVIOUS
    <3>2. g \in Seq(StepRecs) /\ Len(g) = L /\ Flat(g) = Append(Flat(st), t)
      BY <1>1, <1>2, <3>1, FlatGrow, SMTT(60)
    <3>3. \A i \in 1..L : g[i] = IF i = L THEN [st[i] EXCEPT !.results = Append(@, t)] ELSE st[i]
      BY <1>1, <1>2, <3>1, FlatGrow, ZenonT(60)
    <3>4. QED
      BY <3>1, <3>2, <3>3, Zenon
  <2>3. t.id \in st[L].turn.calls
    BY <1>1, <1>2 DEF attached, Last
  <2>4. ASSUME NEW i \in 1..L, NEW r \in Range(g[i].results) PROVE r.id \in g[i].turn.calls
    <3>1. CASE i = L
      <4>1. PICK x \in StepRecs : x = st[L]
        BY <1>1, <3>1, ElementOfSeq
      <4>2. PICK q \in Seq(TurnRecords) : q = x.results
        BY TellingOne
      <4>3. g[i] = [x EXCEPT !.results = Append(q, t)]
        BY <2>2, <3>1, <4>1, <4>2
      <4>4. g[i].turn = x.turn /\ g[i].results = Append(q, t)
        BY <4>3 DEF StepRecs
      <4>5. PICK k \in DOMAIN Append(q, t) : r = Append(q, t)[k]
        BY <4>4 DEF Range
      <4>6. k \in 1..Len(q) + 1 /\ Len(q) \in Nat /\ DOMAIN q = 1..Len(q)
        BY <4>5
      <4>7. CASE k = Len(q) + 1
        BY <2>3, <4>1, <4>4, <4>5, <4>7
      <4>8. CASE k # Len(q) + 1
        <5>1. k \in 1..Len(q) /\ r = q[k]
          BY <4>5, <4>6, <4>8
        <5>2. q[k] \in Range(q)
          BY <4>6, <5>1 DEF Range
        <5>3. r \in Range(st[i].results) /\ i \in DOMAIN st
          BY <1>1, <3>1, <4>1, <4>2, <5>1, <5>2
        <5>4. r.id \in st[i].turn.calls
          BY <5>3 DEF Hung
        <5>5. QED
          BY <3>1, <4>1, <4>4, <5>4
      <4>9. QED
        BY <4>7, <4>8
    <3>2. CASE i # L
      BY <1>1, <2>2, <2>4, <3>2 DEF Hung
    <3>3. QED
      BY <3>1, <3>2
  <2>5. DOMAIN g = 1..L
    BY <2>2
  <2>6. Hung(g)
    BY <2>4, <2>5 DEF Hung
  <2>7. QED
    BY <2>1, <2>2, <2>6
<1>3. CASE ~(st # <<>> /\ attached(Last(st), t))
  <2>1. PICK x \in StepRecs : x = [turn |-> t, results |-> <<>>]
    <3>1. [turn |-> t, results |-> <<>>] \in StepRecs
      BY DEF StepRecs
    <3>2. QED
      BY <3>1, Zenon
  <2>2. x.turn = t /\ x.results = <<>>
    BY <2>1
  <2>3. Adds(st, t) = Append(st, x)
    BY <1>3, <2>1 DEF Adds
  <2>4. PICK b \in Seq(TurnRecords) : b = Flat(st)
    BY FlatAdd
  <2>5. Flat(Append(st, x)) = b \o (<<t>> \o <<>>)
    BY <2>2, <2>4, FlatAdd
  <2>6. <<t>> \o <<>> = <<t>> /\ b \o <<t>> = Append(b, t)
    <3>1. <<t>> \in Seq(TurnRecords)
      OBVIOUS
    <3>2. <<t>> \o <<>> = <<t>>
      BY <3>1, ConcatEmptySeq
    <3>3. QED
      BY <3>2, AppendIsConcat
  <2>7. PICK g \in Seq(StepRecs) : g = Append(st, x) /\ Len(g) = L + 1 /\ g[L + 1] = x /\ \A i \in 1..L : g[i] = st[i]
    <3>1. PICK g : g = Append(st, x)
      OBVIOUS
    <3>2. g \in Seq(StepRecs) /\ Len(g) = L + 1 /\ g[L + 1] = x
      BY <1>1, <3>1, AppendProperties
    <3>3. \A i \in 1..L : g[i] = st[i]
      BY <1>1, <3>1, AppendProperties
    <3>4. QED
      BY <3>1, <3>2, <3>3, Zenon
  <2>8. DOMAIN g = 1..L + 1 /\ Range(x.results) = {}
    BY <2>2, <2>7 DEF Range
  <2>9. ASSUME NEW i \in 1..L + 1, NEW r \in Range(g[i].results) PROVE r.id \in g[i].turn.calls
    <3>1. CASE i = L + 1
      BY <2>7, <2>8, <2>9, <3>1
    <3>2. CASE i # L + 1
      <4>1. i \in 1..L
        BY <3>2
      <4>2. QED
        BY <1>1, <2>7, <2>9, <4>1 DEF Hung
    <3>3. QED
      BY <3>1, <3>2
  <2>10. Hung(g)
    BY <2>8, <2>9 DEF Hung
  <2>11. QED
    BY <2>3, <2>4, <2>5, <2>6, <2>7, <2>10
<1>4. QED
  BY <1>2, <1>3

\* The steps, turn by turn.
LEMMA StepsRun ==
  ASSUME NEW w, w.messages \in Seq(TurnRecords)
  PROVE  \E h \in [0..Len(w.messages) -> Seq(StepRecs)] :
           /\ h[0] = <<>>
           /\ \A n \in 1..Len(w.messages) : h[n] = Adds(h[n - 1], w.messages[n])
           /\ build_benchmark_trajectory(w) = h[Len(w.messages)]
<1>1. PICK ts \in Seq(TurnRecords) : ts = w.messages
  OBVIOUS
<1> DEFINE L == Len(ts)
           F == [p \in (1..L) \X Seq(StepRecs) |-> Adds(p[2], ts[p[1]])]
           Rec(h) == h = [n \in 0..L |-> IF n = 0 THEN <<>> ELSE Adds(h[n - 1], ts[n])]
<1>2. L \in Nat /\ <<>> \in Seq(StepRecs)
  OBVIOUS
<1>3. ASSUME NEW n \in 1..L, NEW q \in Seq(StepRecs) PROVE Adds(q, ts[n]) \in Seq(StepRecs)
  <2>1. PICK t \in TurnRecords : t = ts[n]
    BY ElementOfSeq
  <2>2. QED
    BY <2>1, AddsTyped
<1>4. F \in [(1..L) \X Seq(StepRecs) -> Seq(StepRecs)]
      /\ \A n \in 1..L, q \in Seq(StepRecs) : F[<<n, q>>] = Adds(q, ts[n])
  BY <1>3
<1> HIDE DEF F
<1>5. PICK g : Iterates(g, L, Seq(StepRecs), <<>>, F)
  BY <1>2, <1>4, Recursion, Zenon
<1>6. g \in [0..L -> Seq(StepRecs)] /\ g[0] = <<>> /\ \A n \in 1..L : g[n] = F[<<n, g[n - 1]>>]
  BY <1>5 DEF Iterates
<1>7. ASSUME NEW n \in 1..L PROVE g[n] = Adds(g[n - 1], ts[n]) /\ n - 1 \in 0..L /\ n \in 0..L /\ n # 0
  <2>1. n - 1 \in 0..L /\ n \in 0..L /\ n # 0
    BY <1>2
  <2>2. g[n - 1] \in Seq(StepRecs)
    BY <1>6, <2>1
  <2>3. F[<<n, g[n - 1]>>] = Adds(g[n - 1], ts[n])
    BY <1>4, <2>2
  <2>4. QED
    BY <1>6, <2>1, <2>3
<1>8. Rec(g)
  <2>1. ASSUME NEW n \in 0..L PROVE g[n] = IF n = 0 THEN <<>> ELSE Adds(g[n - 1], ts[n])
    <3>1. n # 0 => n \in 1..L
      BY <1>2
    <3>2. QED
      BY <1>6, <1>7, <3>1
  <2>2. QED
    BY <1>6, <2>1
<1> DEFINE h == CHOOSE f : Rec(f)
<1>9. Rec(h)
  <2> HIDE DEF Rec
  <2>1. QED
    BY <1>8, Zenon
<1>10. build_benchmark_trajectory(w) = h[L]
  BY <1>1 DEF build_benchmark_trajectory, Adds, Grown
<1> HIDE DEF h
<1>11. ASSUME NEW n \in 0..L PROVE h[n] = IF n = 0 THEN <<>> ELSE Adds(h[n - 1], ts[n])
  BY <1>9
<1>12. DOMAIN h = 0..L /\ h = [n \in 0..L |-> h[n]]
  BY <1>9
<1> HIDE DEF Rec
<1> DEFINE Good == {n \in 0..L : h[n] \in Seq(StepRecs)}
<1>13. h[0] = <<>> /\ 0 \in Good
  <2>1. 0 \in 0..L
    BY <1>2
  <2>2. h[0] = <<>>
    BY <1>11, <2>1
  <2>3. QED
    BY <1>2, <2>1, <2>2
<1>14. ASSUME NEW n \in 1..L PROVE h[n] = Adds(h[n - 1], ts[n])
  BY <1>7, <1>11
<1>15. ASSUME NEW n \in 1..L, n - 1 \in Good PROVE n \in Good
  BY <1>3, <1>7, <1>14, <1>15
<1>16. 0..L \subseteq Good
  <2> HIDE DEF Good
  <2>1. QED
    BY <1>2, <1>13, <1>15, Segment
<1>17. h \in [0..L -> Seq(StepRecs)]
  BY <1>12, <1>16
<1>18. QED
  BY <1>1, <1>10, <1>13, <1>14, <1>17

\* The trajectory of a run tells its turns, each once and in order.
LEMMA TrajectoryTells ==
  ASSUME NEW w, NEW ts, ts \in Seq(TurnRecords), w.messages = ts
  PROVE  Flat(build_benchmark_trajectory(w)) = ts /\ Hung(build_benchmark_trajectory(w))
<1>1. PICK L \in Nat : L = Len(ts)
  OBVIOUS
<1>2. PICK h \in [0..L -> Seq(StepRecs)] :
        h[0] = <<>> /\ (\A n \in 1..L : h[n] = Adds(h[n - 1], ts[n])) /\ build_benchmark_trajectory(w) = h[L]
  BY <1>1, StepsRun
<1> DEFINE Good == {n \in 0..L : Flat(h[n]) = SubSeq(ts, 1, n) /\ Hung(h[n])}
<1>3. 0 \in Good
  <2>1. Flat(<<>>) = <<>>
    <3>1. Telling(<<>>) = <<>>
      BY DEF Telling
    <3>2. FlattenSeq(<<>>) = <<>>
      BY DEF FlattenSeq
    <3>3. QED
      BY <3>1, <3>2 DEF Flat
  <2>2. SubSeq(ts, 1, 0) = <<>>
    OBVIOUS
  <2>3. Hung(<<>>)
    BY DEF Hung
  <2>4. 0 \in 0..L
    BY <1>1
  <2>5. QED
    BY <1>2, <2>1, <2>2, <2>3, <2>4
<1>4. ASSUME NEW n \in 1..L, n - 1 \in Good PROVE n \in Good
  <2>1. n - 1 \in 0..L /\ n \in 0..L
    BY <1>1
  <2>2. PICK st \in Seq(StepRecs) : st = h[n - 1]
    BY <1>2, <2>1
  <2>3. PICK t \in TurnRecords : t = ts[n]
    BY <1>1, ElementOfSeq
  <2>4. Flat(st) = SubSeq(ts, 1, n - 1) /\ Hung(st)
    BY <1>4, <2>2
  <2>5. h[n] = Adds(st, t)
    BY <1>2, <2>2, <2>3
  <2>6. Flat(h[n]) = Append(SubSeq(ts, 1, n - 1), t) /\ Hung(h[n])
    BY <2>4, <2>5, AddsTell
  <2>7. Append(SubSeq(ts, 1, n - 1), t) = SubSeq(ts, 1, n)
    BY <1>1, <2>3, SubSeqNext
  <2>8. QED
    BY <2>1, <2>6, <2>7
<1>5. 0..L \subseteq Good
  <2> HIDE DEF Good
  <2>1. QED
    BY <1>1, <1>3, <1>4, Segment
<1>6. Flat(h[L]) = SubSeq(ts, 1, L) /\ Hung(h[L])
  BY <1>1, <1>5
<1>7. SubSeq(ts, 1, L) = ts
  BY <1>1
<1>8. QED
  BY <1>2, <1>6, <1>7

SessionRecs == [messages : Seq(TurnRecords), usage : Nat]
Sent == [cmd : {"turn"}, turn : TurnRecords]
        \cup [cmd : {"final"}, session : SessionRecs, outcome : {"stop", "cancelled", "incomplete"}]

\* The turns of a session that are this run's, and a beginning of the run's turns.
Mine(ms) == SubSeq(ms, start.count + 1, Len(ms))
Begins(p) == \E n \in 0..Len(Own) : p = SubSeq(Own, 1, n)
Paid(w) == w.usage = start.usage + Billed(Mine(w.messages))
Final == [cmd |-> "final", session |-> session,
          outcome |-> IF run.outcome = "failed" THEN "incomplete" ELSE run.outcome]

HeadTypes ==
  /\ session \in SessionRecs /\ start \in [count : Nat, usage : Nat]
  /\ worker \in [session : SessionRecs, published : BOOLEAN, gone : BOOLEAN]
  /\ checkpoints \in Seq(Sent)
  /\ run \in [at : {"running", "finalizing", "returned", "crashed"},
              outcome : {"none", "stop", "cancelled", "failed"}, ok : BOOLEAN]

\* The worker's session is the run's without its last turns; both are billed for their turns.
Follows ==
  /\ start.count <= Len(worker.session.messages)
  /\ Len(worker.session.messages) <= Len(session.messages)
  /\ worker.session.messages = SubSeq(session.messages, 1, Len(worker.session.messages))
  /\ Paid(session) /\ Paid(worker.session)

\* What waits in the channel: the turns the worker has not seen, then the end of the run.
Waits ==
  LET seen == Len(worker.session.messages)
      due == Len(session.messages) - seen
  IN /\ run.at = "returned" => worker.gone
     /\ run.at = "running" => run.outcome = "none"
     /\ run.at \in {"running", "finalizing"} =>
          /\ Len(checkpoints) = due + (IF run.at = "running" THEN 0 ELSE 1)
          /\ \A k \in 1..due : checkpoints[k] = [cmd |-> "turn", turn |-> session.messages[seen + k]]
          /\ run.at = "finalizing" => checkpoints[due + 1] = Final /\ run.outcome # "none"
                                      /\ (run.ok => run.outcome # "failed")

ReportTells ==
  report # <<>> =>
    Begins(report[1].turns) /\ report[1].usage = Billed(report[1].turns)
    /\ (report[1].outcome = "stop" => run.outcome = "stop")
TrajectoryBegins ==
  trajectory # <<>> => Begins(Flat(trajectory[1])) /\ Hung(trajectory[1])
EndTells ==
  run.ok /\ run.at = "returned" =>
    /\ report[1].turns = Own /\ report[1].outcome = run.outcome
    /\ trajectory # <<>> => Flat(trajectory[1]) = Own

HeadInv ==
  /\ HeadTypes /\ Follows /\ Waits
  /\ ReportTells /\ TrajectoryBegins /\ EndTells

LEMMA MineNext ==
  ASSUME NEW ms, ms \in Seq(TurnRecords), NEW c \in 0..Len(ms), NEW t \in TurnRecords
  PROVE  SubSeq(Append(ms, t), c + 1, Len(Append(ms, t))) = Append(SubSeq(ms, c + 1, Len(ms)), t)
<1>1. PICK L \in Nat : L = Len(ms) /\ c \in 0..L
  OBVIOUS
<1>2. PICK q : q = Append(ms, t)
  OBVIOUS
<1>3. q \in Seq(TurnRecords) /\ Len(q) = L + 1 /\ q[L + 1] = t /\ \A i \in 1..L : q[i] = ms[i]
  BY <1>1, <1>2, AppendProperties
<1>4. c + 1 \in 1..Len(q) + 1 /\ L + 1 \in c + 1..Len(q) /\ (L + 1) - 1 = L
  BY <1>1, <1>3
<1>5. SubSeq(q, c + 1, L + 1) = Append(SubSeq(q, c + 1, (L + 1) - 1), q[L + 1])
  BY <1>3, <1>4, SubSeqNext
<1>6. SubSeq(q, c + 1, L) = SubSeq(ms, c + 1, L)
  <2>1. PICK a \in Seq(TurnRecords) : a = SubSeq(q, c + 1, L)
    <3>1. SubSeq(q, c + 1, L) \in Seq(TurnRecords)
      BY <1>1, <1>3
    <3>2. QED
      BY <3>1, Zenon
  <2>2. PICK b \in Seq(TurnRecords) : b = SubSeq(ms, c + 1, L)
    <3>1. SubSeq(ms, c + 1, L) \in Seq(TurnRecords)
      BY <1>1
    <3>2. QED
      BY <3>1, Zenon
  <2>3. Len(a) = L - c /\ \A i \in 1..L - c : a[i] = q[c + i]
    BY <1>1, <1>3, <2>1
  <2>4. Len(b) = L - c /\ \A i \in 1..L - c : b[i] = ms[c + i]
    BY <1>1, <2>2
  <2>5. \A i \in 1..L - c : c + i \in 1..L
    BY <1>1
  <2>6. \A i \in 1..L - c : a[i] = b[i]
    BY <1>3, <2>3, <2>4, <2>5
  <2>7. QED
    BY <2>1, <2>2, <2>3, <2>4, <2>6, SeqEqual
<1>7. QED
  BY <1>1, <1>2, <1>3, <1>4, <1>5, <1>6

LEMMA MinePrefix ==
  ASSUME NEW ms, ms \in Seq(TurnRecords), NEW k \in 0..Len(ms), NEW c \in 0..k
  PROVE  LET o == SubSeq(ms, c + 1, Len(ms)) IN
         /\ o \in Seq(TurnRecords) /\ Len(o) = Len(ms) - c
         /\ SubSeq(SubSeq(ms, 1, k), c + 1, k) = SubSeq(o, 1, k - c)
<1>1. PICK L \in Nat : L = Len(ms) /\ k \in 0..L
  OBVIOUS
<1>2. PICK o : o = SubSeq(ms, c + 1, L)
  OBVIOUS
<1>3. o \in Seq(TurnRecords) /\ Len(o) = L - c /\ \A i \in 1..L - c : o[i] = ms[c + i]
  BY <1>1, <1>2, SMTT(60)
<1>4. PICK p : p = SubSeq(ms, 1, k)
  OBVIOUS
<1>5. p \in Seq(TurnRecords) /\ Len(p) = k /\ \A i \in 1..k : p[i] = ms[i]
  BY <1>1, <1>4
<1>6. PICK a : a = SubSeq(p, c + 1, k)
  OBVIOUS
<1>7. a \in Seq(TurnRecords) /\ Len(a) = k - c /\ \A i \in 1..k - c : a[i] = p[c + i]
  BY <1>5, <1>6
<1>8. PICK b : b = SubSeq(o, 1, k - c)
  OBVIOUS
<1>9. b \in Seq(TurnRecords) /\ Len(b) = k - c /\ \A i \in 1..k - c : b[i] = o[i]
  <2>1. k - c \in 0..Len(o)
    BY <1>1, <1>3
  <2>2. QED
    BY <1>3, <1>8, <2>1
<1>10. \A i \in 1..k - c : c + i \in 1..k /\ i \in 1..L - c
  BY <1>1
<1>11. \A i \in 1..k - c : a[i] = b[i]
  BY <1>3, <1>5, <1>7, <1>9, <1>10
<1>12. a = b
  BY <1>7, <1>9, <1>11, SeqEqual
<1>13. QED
  BY <1>1, <1>2, <1>3, <1>4, <1>6, <1>8, <1>12

\* The run's own turns, and what a session of the run shows of them.
LEMMA OwnIs ==
  ASSUME HeadTypes, Follows
  PROVE  /\ Own \in Seq(TurnRecords) /\ Own = Mine(session.messages)
         /\ Len(Own) = Len(session.messages) - start.count
<1>1. PICK ms \in Seq(TurnRecords) : ms = session.messages
  BY DEF HeadTypes, SessionRecs
<1>2. PICK c \in Nat : c = start.count
  BY DEF HeadTypes
<1>3. PICK wm \in Seq(TurnRecords) : wm = worker.session.messages
  BY DEF HeadTypes, SessionRecs
<1>4. c <= Len(wm) /\ Len(wm) <= Len(ms) /\ Len(wm) \in Nat /\ Len(ms) \in Nat
  BY <1>1, <1>2, <1>3 DEF Follows
<1>5. c \in 0..Len(ms) /\ Len(ms) \in 0..Len(ms)
  BY <1>4
<1>6. SubSeq(ms, c + 1, Len(ms)) \in Seq(TurnRecords) /\ Len(SubSeq(ms, c + 1, Len(ms))) = Len(ms) - c
  BY <1>5, MinePrefix
<1>7. QED
  BY <1>1, <1>2, <1>6 DEF Own, Mine

LEMMA ViewIs ==
  ASSUME HeadTypes, Follows, NEW w \in SessionRecs, NEW k \in Nat, start.count <= k, k <= Len(session.messages),
         w.messages = SubSeq(session.messages, 1, k), Paid(w)
  PROVE  /\ view(w).messages = Mine(w.messages) /\ view(w).usage = Billed(Mine(w.messages))
         /\ Mine(w.messages) = SubSeq(Own, 1, k - start.count)
         /\ k - start.count \in 0..Len(Own)
<1>1. PICK ms \in Seq(TurnRecords) : ms = session.messages
  BY DEF HeadTypes, SessionRecs
<1>2. PICK c \in Nat, b \in Nat : c = start.count /\ b = start.usage
  BY DEF HeadTypes
<1>3. Len(ms) \in Nat /\ k \in 0..Len(ms) /\ c \in 0..k
  BY <1>1, <1>2
<1>4. PICK wm \in Seq(TurnRecords) : wm = w.messages /\ wm = SubSeq(ms, 1, k)
  BY <1>1 DEF SessionRecs
<1>5. Len(wm) = k
  BY <1>3, <1>4
<1>6. Mine(wm) = SubSeq(wm, c + 1, k)
  BY <1>2, <1>5 DEF Mine
<1>7. Own = SubSeq(ms, c + 1, Len(ms)) /\ Len(Own) = Len(ms) - c
  BY <1>1, <1>2, OwnIs DEF Own
<1>8. SubSeq(SubSeq(ms, 1, k), c + 1, k) = SubSeq(SubSeq(ms, c + 1, Len(ms)), 1, k - c)
  BY <1>3, MinePrefix
<1>9. Mine(wm) = SubSeq(Own, 1, k - c) /\ k - c \in 0..Len(Own)
  <2>1. Mine(wm) = SubSeq(Own, 1, k - c)
    BY <1>4, <1>6, <1>7, <1>8
  <2>2. k - c \in 0..Len(Own)
    BY <1>3, <1>4, <1>7
  <2>3. QED
    BY <2>1, <2>2
<1>10. Mine(wm) \in Seq(TurnRecords)
  BY <1>3, <1>5, <1>6
<1>11. PICK t \in TurnRecords : TRUE
  BY DEF TurnRecords
<1>12. PICK q \in Seq(TurnRecords) : q = Mine(wm)
  BY <1>10, Zenon
<1>13. PICK paid \in Nat : paid = Billed(q)
  BY <1>11, BilledNext
<1>14. w.usage = b + paid
  BY <1>2, <1>4, <1>12, <1>13 DEF Paid
<1>15. view(w).messages = Mine(wm)
  BY <1>4 DEF view, Mine
<1>16. view(w).usage = IF w.usage > b THEN w.usage - b ELSE 0
  BY <1>2 DEF view
<1>17. view(w).usage = paid
  BY <1>14, <1>16
<1>18. QED
  BY <1>2, <1>4, <1>9, <1>12, <1>13, <1>15, <1>17

LEMMA PublishTells ==
  ASSUME HeadTypes, Follows, ReportTells, TrajectoryBegins,
         NEW w \in SessionRecs, NEW k \in Nat, start.count <= k, k <= Len(session.messages),
         w.messages = SubSeq(session.messages, 1, k), Paid(w), NEW o, NEW broken,
         publish_checkpoint(view(w), o, broken), UNCHANGED <<session, start>>,
         run'.outcome = run.outcome, o = "stop" => run.outcome = "stop"
  PROVE  /\ ReportTells' /\ TrajectoryBegins'
         /\ broken = "none" => /\ report'[1].turns = Mine(w.messages) /\ report'[1].outcome = o
                               /\ Flat(trajectory'[1]) = Mine(w.messages)
<1>1. PICK q \in Seq(TurnRecords), n \in 0..Len(Own) :
        q = Mine(w.messages) /\ q = SubSeq(Own, 1, n) /\ view(w).messages = q /\ view(w).usage = Billed(q)
  <2>1. Own \in Seq(TurnRecords) /\ k - start.count \in 0..Len(Own) /\ Mine(w.messages) = SubSeq(Own, 1, k - start.count)
    BY OwnIs, ViewIs
  <2>2. SubSeq(Own, 1, k - start.count) \in Seq(TurnRecords)
    BY <2>1
  <2>3. view(w).messages = Mine(w.messages) /\ view(w).usage = Billed(Mine(w.messages))
    BY ViewIs
  <2>4. QED
    BY <2>1, <2>2, <2>3, Zenon
<1>2. Own' = Own
  BY DEF Own
<1>3. \A p : Begins(p)' <=> Begins(p)
  BY <1>2 DEF Begins
<1>4. Begins(q)
  BY <1>1 DEF Begins
<1>5. PICK r : r = build_benchmark_report(view(w), o)
  OBVIOUS
<1>6. r.turns = q /\ r.outcome = o /\ r.usage = Billed(q)
  BY <1>1, <1>5 DEF build_benchmark_report
<1>7. PICK tr : tr = build_benchmark_trajectory(view(w))
  OBVIOUS
<1>8. Flat(tr) = q /\ Hung(tr)
  BY <1>1, <1>7, TrajectoryTells
<1>9. report' = IF broken = "report" THEN report ELSE <<r>>
  BY <1>5 DEF publish_checkpoint
<1>10. trajectory' = IF broken # "none" THEN trajectory ELSE <<tr>>
  BY <1>7 DEF publish_checkpoint
<1>11. ReportTells'
  <2>1. CASE broken = "report"
    <3>1. report' = report
      BY <1>9, <2>1
    <3>2. QED
      BY <1>3, <3>1 DEF ReportTells
  <2>2. CASE broken # "report"
    <3>1. report'[1] = r
      BY <1>9, <2>2
    <3>2. Begins(q)' /\ r.usage = Billed(r.turns) /\ (r.outcome = "stop" => run'.outcome = "stop")
      BY <1>3, <1>4, <1>6
    <3>3. Begins(r.turns)'
      BY <1>6, <3>2
    <3>4. QED
      BY <3>1, <3>2, <3>3 DEF ReportTells
  <2>3. QED
    BY <2>1, <2>2
<1>12. TrajectoryBegins'
  <2>1. CASE broken # "none"
    <3>1. trajectory' = trajectory
      BY <1>10, <2>1
    <3>2. QED
      BY <1>3, <3>1 DEF TrajectoryBegins
  <2>2. CASE broken = "none"
    <3>1. trajectory'[1] = tr
      BY <1>10, <2>2
    <3>2. Begins(q)' /\ Hung(tr)
      BY <1>3, <1>4, <1>8
    <3>3. Begins(Flat(tr))'
      BY <1>8, <3>2
    <3>4. QED
      BY <3>1, <3>2, <3>3 DEF TrajectoryBegins
  <2>3. QED
    BY <2>1, <2>2
<1>13. broken = "none" => report'[1] = r /\ trajectory'[1] = tr
  BY <1>9, <1>10
<1>14. QED
  BY <1>1, <1>6, <1>8, <1>11, <1>12, <1>13

LEMMA HeadInitInv == ASSUME HeadInit PROVE HeadInv
<1>1. PICK ts \in Seq(TurnRecords) : session = [messages |-> ts, usage |-> Billed(ts)]
  BY HeadAssumption DEF HeadInit
<1>2. PICK b \in Nat : b = Billed(ts)
  <2>1. PICK t \in TurnRecords : TRUE
    BY DEF TurnRecords
  <2>2. QED
    BY <2>1, BilledNext
<1>3. session.messages = ts /\ session.usage = b /\ session \in SessionRecs
  BY <1>1, <1>2 DEF SessionRecs
<1>4. PICK L \in Nat : L = Len(ts)
  OBVIOUS
<1>5. start = [count |-> L, usage |-> b]
  BY <1>3, <1>4 DEF HeadInit
<1>6. start \in [count : Nat, usage : Nat] /\ start.count = L /\ start.usage = b
  BY <1>5
<1>7. worker = [session |-> session, published |-> FALSE, gone |-> FALSE] /\ checkpoints = <<>>
  BY DEF HeadInit
<1>8. worker.session = session /\ worker \in [session : SessionRecs, published : BOOLEAN, gone : BOOLEAN]
  BY <1>3, <1>7
<1>9. run = [at |-> "running", outcome |-> "none", ok |-> FALSE] /\ report = <<>> /\ trajectory = <<>>
  BY DEF HeadInit
<1>10. HeadTypes
  BY <1>3, <1>6, <1>7, <1>8, <1>9 DEF HeadTypes
<1>11. Mine(ts) = <<>>
  BY <1>4, <1>6 DEF Mine
<1>12. Paid(session)
  BY <1>2, <1>3, <1>6, <1>11, BilledNone DEF Paid
<1>13. SubSeq(ts, 1, L) = ts
  BY <1>4
<1>14. Follows
  BY <1>3, <1>4, <1>6, <1>8, <1>12, <1>13 DEF Follows
<1>15. Waits
  <2>1. run.at = "running" /\ run.outcome = "none" /\ Len(checkpoints) = 0
    BY <1>7, <1>9
  <2>2. Len(worker.session.messages) = L /\ Len(session.messages) - Len(worker.session.messages) = 0
    BY <1>3, <1>4, <1>8
  <2>3. QED
    BY <2>1, <2>2 DEF Waits
<1>16. QED
  BY <1>3, <1>8, <1>9, <1>10, <1>11, <1>14, <1>15 DEF HeadInv, ReportTells, TrajectoryBegins, EndTells

LEMMA OnTurnInv ==
  ASSUME HeadInv, NEW t \in TurnRecords, NEW saved \in BOOLEAN, OnTurn(t, saved) PROVE HeadInv'
<1>1. PICK ms \in Seq(TurnRecords), u \in Nat : ms = session.messages /\ u = session.usage
  BY DEF HeadInv, HeadTypes, SessionRecs
<1>2. PICK c \in Nat, wm \in Seq(TurnRecords) : c = start.count /\ wm = worker.session.messages
  BY DEF HeadInv, HeadTypes, SessionRecs
<1>3. PICK L \in Nat, k \in Nat : L = Len(ms) /\ k = Len(wm)
  OBVIOUS
<1>0. c <= k /\ k <= L
  BY <1>1, <1>2, <1>3 DEF HeadInv, Follows
<1>4. c <= k /\ k <= L /\ wm = SubSeq(ms, 1, k)
  BY <1>1, <1>2, <1>3 DEF HeadInv, Follows
<1>5. /\ run.at = "running" /\ UNCHANGED <<start, worker, report, trajectory, run>>
      /\ session' = [messages |-> Append(ms, t), usage |-> u + t.usage]
      /\ checkpoints' = Append(checkpoints, [cmd |-> "turn", turn |-> t])
  BY <1>1 DEF OnTurn
<1>6. PICK m1 \in Seq(TurnRecords) : m1 = Append(ms, t) /\ Len(m1) = L + 1 /\ m1[L + 1] = t /\ \A i \in 1..L : m1[i] = ms[i]
  <2>1. PICK m1 : m1 = Append(ms, t)
    OBVIOUS
  <2>2. m1 \in Seq(TurnRecords) /\ Len(m1) = L + 1 /\ m1[L + 1] = t
    BY <1>3, <2>1, AppendProperties
  <2>3. \A i \in 1..L : m1[i] = ms[i]
    BY <1>3, <2>1, AppendProperties
  <2>4. QED
    BY <2>1, <2>2, <2>3, Zenon
<1>7. session'.messages = m1 /\ session'.usage = u + t.usage /\ t.usage \in Nat /\ session' \in SessionRecs
  BY <1>5, <1>6, TurnUsage DEF SessionRecs
<1>8. [cmd |-> "turn", turn |-> t] \in Sent
  BY DEF Sent
<1>9. PICK q \in Seq(Sent) : q = checkpoints
  BY DEF HeadInv, HeadTypes
<1>10. PICK q1 \in Seq(Sent) : q1 = checkpoints' /\ Len(q1) = Len(q) + 1 /\ q1[Len(q) + 1] = [cmd |-> "turn", turn |-> t]
                             /\ \A i \in 1..Len(q) : q1[i] = q[i]
  <2>1. PICK q1 : q1 = Append(q, [cmd |-> "turn", turn |-> t])
    OBVIOUS
  <2>2. q1 \in Seq(Sent) /\ Len(q1) = Len(q) + 1 /\ q1[Len(q) + 1] = [cmd |-> "turn", turn |-> t]
    BY <1>8, <2>1, AppendProperties
  <2>3. \A i \in 1..Len(q) : q1[i] = q[i]
    BY <1>8, <2>1, AppendProperties
  <2>4. q1 = checkpoints'
    BY <1>5, <1>9, <2>1
  <2>5. QED
    BY <2>2, <2>3, <2>4, Zenon
<1>11. HeadTypes'
  BY <1>5, <1>7, <1>10 DEF HeadInv, HeadTypes
<1>12. PICK o \in Seq(TurnRecords) : o = Own /\ Len(o) = L - c
  BY <1>1, <1>2, <1>3, OwnIs DEF HeadInv
<1>13. Own' = Append(o, t)
  <2>1. c \in 0..Len(ms)
    BY <1>3, <1>4
  <2>2. SubSeq(Append(ms, t), c + 1, Len(Append(ms, t))) = Append(SubSeq(ms, c + 1, Len(ms)), t)
    BY <2>1, MineNext
  <2>3. o = SubSeq(ms, c + 1, Len(ms))
    BY <1>1, <1>2, <1>12 DEF Own
  <2>4. Own' = SubSeq(m1, c + 1, Len(m1))
    BY <1>2, <1>5, <1>7 DEF Own
  <2>5. QED
    BY <1>6, <2>2, <2>3, <2>4
<1>14. Follows'
  <2>1. SubSeq(m1, 1, k) = SubSeq(ms, 1, k)
    <3>1. PICK a : a = SubSeq(m1, 1, k)
      OBVIOUS
    <3>2. a \in Seq(TurnRecords) /\ Len(a) = k /\ \A i \in 1..k : a[i] = m1[i]
      BY <1>3, <1>4, <1>6, <3>1
    <3>3. PICK b : b = SubSeq(ms, 1, k)
      OBVIOUS
    <3>4. b \in Seq(TurnRecords) /\ Len(b) = k /\ \A i \in 1..k : b[i] = ms[i]
      BY <1>3, <1>4, <3>3
    <3>5. \A i \in 1..k : a[i] = b[i]
      BY <1>3, <1>4, <1>6, <3>2, <3>4
    <3>6. QED
      BY <3>1, <3>2, <3>3, <3>4, <3>5, SeqEqual
  <2>2. Paid(worker.session)'
    BY <1>5 DEF HeadInv, Follows, Paid, Mine
  <2>3. Paid(session)'
    <3>1. Mine(session.messages)' = Append(o, t) /\ Mine(session.messages) = o
      BY <1>12, <1>13, OwnIs DEF HeadInv, Own, Mine
    <3>2. Billed(o) \in Nat /\ Billed(Append(o, t)) = Billed(o) + t.usage
      BY BilledNext
    <3>3. PICK b \in Nat : b = start.usage
      BY DEF HeadInv, HeadTypes
    <3>4. u = b + Billed(o)
      BY <1>1, <3>1, <3>3 DEF HeadInv, Follows, Paid
    <3>5. u + t.usage = b + Billed(Append(o, t))
      BY <1>7, <3>2, <3>4
    <3>6. QED
      BY <1>5, <1>7, <3>1, <3>3, <3>5 DEF Paid
  <2>4. worker'.session.messages = wm /\ start'.count = c
    BY <1>2, <1>5
  <2>5. c <= k /\ k <= L + 1
    BY <1>0
  <2>6. wm = SubSeq(m1, 1, k)
    BY <1>4, <2>1
  <2>7. QED
    BY <1>3, <1>6, <1>7, <2>2, <2>3, <2>4, <2>5, <2>6 DEF Follows
<1>15. Waits'
  <2>1. Len(q) = L - k /\ \A i \in 1..L - k : q[i] = [cmd |-> "turn", turn |-> ms[k + i]]
    <3>1. Len(worker.session.messages) = k /\ Len(session.messages) = L
      BY <1>1, <1>2, <1>3
    <3>2. Len(checkpoints) = (L - k) + 0
          /\ \A i \in 1..L - k : checkpoints[i] = [cmd |-> "turn", turn |-> session.messages[k + i]]
      BY <1>5, <3>1 DEF HeadInv, Waits
    <3>3. (L - k) + 0 = L - k
      OBVIOUS
    <3>4. QED
      BY <1>1, <1>9, <3>2, <3>3
  <2>2. Len(q1) = (L + 1) - k
    <3>1. Len(q1) = Len(q) + 1 /\ Len(q) = L - k
      BY <1>10, <2>1
    <3>2. QED
      BY <1>0, <3>1
  <2>3. ASSUME NEW i \in 1..(L + 1) - k PROVE q1[i] = [cmd |-> "turn", turn |-> m1[k + i]]
    <3>1. CASE i = (L + 1) - k
      <4>1. k + i = L + 1 /\ i = Len(q) + 1
        <5>1. Len(q) = L - k
          BY <2>1
        <5>2. QED
          BY <1>0, <3>1, <5>1
      <4>2. QED
        BY <1>6, <1>10, <4>1
    <3>2. CASE i # (L + 1) - k
      <4>1. i \in 1..L - k /\ k + i \in 1..L
        BY <1>0, <3>2
      <4>2. i \in 1..Len(q)
        BY <2>1, <4>1
      <4>3. q1[i] = q[i] /\ m1[k + i] = ms[k + i]
        BY <1>6, <1>10, <4>1, <4>2
      <4>4. QED
        BY <2>1, <4>1, <4>3
    <3>3. QED
      BY <3>1, <3>2
  <2>4. run'.at = "running" /\ Len(worker'.session.messages) = k /\ Len(session'.messages) = L + 1
    BY <1>2, <1>3, <1>5, <1>6, <1>7
  <2>5. checkpoints' = q1 /\ session'.messages = m1
    BY <1>7, <1>10
  <2>6. Len(checkpoints') = ((L + 1) - k) + 0
    BY <1>0, <2>2, <2>5
  <2>7. \A i \in 1..(L + 1) - k : checkpoints'[i] = [cmd |-> "turn", turn |-> session'.messages[k + i]]
    BY <2>3, <2>5
  <2>8. run'.outcome = "none"
    BY <1>5 DEF HeadInv, Waits
  <2>9. QED
    BY <2>4, <2>6, <2>7, <2>8 DEF Waits
<1>16. ASSUME NEW p, Begins(p) PROVE Begins(p)'
  <2>1. PICK n \in 0..Len(o) : p = SubSeq(o, 1, n)
    BY <1>12, <1>16 DEF Begins
  <2>2. PICK o1 : o1 = Append(o, t)
    OBVIOUS
  <2>3. o1 \in Seq(TurnRecords) /\ Len(o1) = Len(o) + 1 /\ \A i \in 1..Len(o) : o1[i] = o[i]
    BY <2>2, AppendProperties
  <2>4. n \in 0..Len(o1) /\ Len(o) \in Nat
    BY <2>1, <2>3
  <2>5. PICK a : a = SubSeq(o1, 1, n)
    OBVIOUS
  <2>6. a \in Seq(TurnRecords) /\ Len(a) = n /\ \A i \in 1..n : a[i] = o1[i]
    BY <2>3, <2>4, <2>5
  <2>7. p \in Seq(TurnRecords) /\ Len(p) = n /\ \A i \in 1..n : p[i] = o[i]
    BY <2>1
  <2>8. \A i \in 1..n : a[i] = p[i]
    <3>1. \A i \in 1..n : i \in 1..Len(o)
      BY <2>4
    <3>2. QED
      BY <2>3, <2>6, <2>7, <3>1
  <2>9. a = p
    BY <2>6, <2>7, <2>8, SeqEqual
  <2>10. QED
    BY <1>13, <2>2, <2>4, <2>5, <2>9 DEF Begins
<1>17. ReportTells' /\ TrajectoryBegins'
  BY <1>5, <1>16 DEF HeadInv, ReportTells, TrajectoryBegins
<1>18. EndTells'
  BY <1>5 DEF EndTells
<1>19. QED
  BY <1>11, <1>14, <1>15, <1>17, <1>18 DEF HeadInv

LEMMA FinishInv ==
  ASSUME HeadInv, NEW o \in {"stop", "cancelled", "failed"}, Finish(o) PROVE HeadInv'
<1> DEFINE x == [cmd |-> "final", session |-> session, outcome |-> IF o = "failed" THEN "incomplete" ELSE o]
<1>1. /\ run.at = "running" /\ UNCHANGED <<session, start, worker, report, trajectory>>
      /\ run' = [at |-> "finalizing", outcome |-> o, ok |-> o # "failed"]
      /\ checkpoints' = Append(checkpoints, x)
  BY DEF Finish
<1>2. x \in Sent
  BY DEF HeadInv, HeadTypes, Sent
<1>3. run'.at = "finalizing" /\ run'.outcome = o /\ (run'.ok <=> o # "failed")
  BY <1>1
<1>4. x = Final'
  BY <1>1, <1>3 DEF Final
<1> HIDE DEF x
<1>5. PICK q \in Seq(Sent) : q = checkpoints
  BY DEF HeadInv, HeadTypes
<1>6. PICK q1 : q1 = Append(q, x)
  OBVIOUS
<1>7. q1 \in Seq(Sent) /\ Len(q1) = Len(q) + 1 /\ q1[Len(q) + 1] = x /\ Len(q) \in Nat
  BY <1>2, <1>6, AppendProperties
<1>8. \A i \in 1..Len(q) : q1[i] = q[i]
  BY <1>2, <1>6, AppendProperties
<1>9. checkpoints' = q1
  BY <1>1, <1>5, <1>6
<1>10. HeadTypes'
  BY <1>1, <1>7, <1>9 DEF HeadInv, HeadTypes
<1>11. Follows'
  BY <1>1 DEF HeadInv, Follows, Paid, Mine
<1>12. Waits'
  <2>1. PICK d \in Nat, k \in Nat : k = Len(worker.session.messages) /\ d = Len(session.messages) - k
    <3>1. PICK ms \in Seq(TurnRecords), wm \in Seq(TurnRecords) : ms = session.messages /\ wm = worker.session.messages
      BY DEF HeadInv, HeadTypes, SessionRecs
    <3>2. Len(ms) \in Nat /\ Len(wm) \in Nat /\ Len(wm) <= Len(ms)
      BY <3>1 DEF HeadInv, Follows
    <3>3. Len(ms) - Len(wm) \in Nat
      BY <3>2
    <3>4. QED
      BY <3>1, <3>2, <3>3, Zenon
  <2>2. Len(q) = d + 0 /\ \A i \in 1..d : q[i] = [cmd |-> "turn", turn |-> session.messages[k + i]]
    BY <1>1, <1>5, <2>1 DEF HeadInv, Waits
  <2>3. Len(q) = d
    BY <2>2
  <2>4. \A i \in 1..d : q1[i] = [cmd |-> "turn", turn |-> session.messages[k + i]]
    BY <1>8, <2>2, <2>3
  <2>5. q1[d + 1] = Final' /\ Len(q1) = d + 1
    BY <1>4, <1>7, <2>3
  <2>6. Len(worker'.session.messages) = k /\ Len(session'.messages) - k = d /\ session' = session
    BY <1>1, <2>1
  <2>7. QED
    BY <1>3, <1>9, <2>4, <2>5, <2>6 DEF Waits
<1>13. Own' = Own
  BY <1>1 DEF Own
<1>14. ReportTells'
  <2>1. run.outcome = "none"
    BY <1>1 DEF HeadInv, Waits
  <2>2. report # <<>> => report[1].outcome # "stop"
    BY <2>1 DEF HeadInv, ReportTells
  <2>3. QED
    BY <1>1, <1>13, <2>2 DEF HeadInv, ReportTells, Begins
<1>15. TrajectoryBegins'
  BY <1>1, <1>13 DEF HeadInv, TrajectoryBegins, Begins
<1>16. EndTells'
  BY <1>3 DEF EndTells
<1>17. QED
  BY <1>10, <1>11, <1>12, <1>14, <1>15, <1>16 DEF HeadInv

LEMMA DieInv == ASSUME HeadInv, Die PROVE HeadInv'
<1>1. UNCHANGED <<session, start, checkpoints, worker, report, trajectory>>
      /\ run' = [run EXCEPT !.at = "crashed", !.ok = FALSE]
  BY DEF Die
<1>2. run'.at = "crashed" /\ run'.outcome = run.outcome
      /\ run' \in [at : {"running", "finalizing", "returned", "crashed"},
                   outcome : {"none", "stop", "cancelled", "failed"}, ok : BOOLEAN]
  BY <1>1 DEF HeadInv, HeadTypes
<1>3. Own' = Own
  BY <1>1 DEF Own
<1>4. HeadTypes' /\ Follows'
  BY <1>1, <1>2 DEF HeadInv, HeadTypes, Follows, Paid, Mine
<1>5. Waits' /\ EndTells'
  BY <1>2 DEF Waits, EndTells
<1>6. ReportTells' /\ TrajectoryBegins'
  BY <1>1, <1>2, <1>3 DEF HeadInv, ReportTells, TrajectoryBegins, Begins
<1>7. QED
  BY <1>4, <1>5, <1>6 DEF HeadInv

\* The worker takes the next turn: its session is one turn nearer to the run's.
LEMMA WorkerTurnInv ==
  ASSUME HeadInv, NEW how, NEW broken, WorkerTurn(how, broken) PROVE HeadInv'
<1>1. PICK ms \in Seq(TurnRecords) : ms = session.messages
  BY DEF HeadInv, HeadTypes, SessionRecs
<1>2. PICK c \in Nat, wm \in Seq(TurnRecords), b \in Nat, wu \in Nat :
        c = start.count /\ wm = worker.session.messages /\ b = start.usage /\ wu = worker.session.usage
  BY DEF HeadInv, HeadTypes, SessionRecs
<1>3. PICK L \in Nat, k \in Nat : L = Len(ms) /\ k = Len(wm)
  OBVIOUS
<1>4. c <= k /\ k <= L
  BY <1>1, <1>2, <1>3 DEF HeadInv, Follows
<1>5. wm = SubSeq(ms, 1, k)
  BY <1>1, <1>2, <1>3 DEF HeadInv, Follows
<1>6. PICK q \in Seq(Sent) : q = checkpoints
  BY DEF HeadInv, HeadTypes
<1>7. run.at # "crashed" /\ ~worker.gone /\ q # <<>> /\ q[1].cmd = "turn" /\ UNCHANGED <<session, start, run>>
  BY <1>6 DEF WorkerTurn
<1>8. run.at \in {"running", "finalizing"}
  BY <1>7 DEF HeadInv, HeadTypes, Waits
<1>9. PICK e \in {0, 1} : e = (IF run.at = "running" THEN 0 ELSE 1)
  OBVIOUS
<1>10. /\ Len(q) = (L - k) + e
       /\ \A i \in 1..L - k : q[i] = [cmd |-> "turn", turn |-> ms[k + i]]
       /\ run.at = "finalizing" => q[(L - k) + 1] = Final /\ run.outcome # "none" /\ (run.ok => run.outcome # "failed")
       /\ run.at = "running" => run.outcome = "none"
  <2>1. Len(worker.session.messages) = k /\ Len(session.messages) = L
    BY <1>1, <1>2, <1>3
  <2>2. QED
    BY <1>1, <1>6, <1>8, <1>9, <2>1 DEF HeadInv, Waits
<1>11. k < L
  <2>1. SUFFICES ASSUME k = L PROVE FALSE
    BY <1>4
  <2>2. Len(q) = e /\ Len(q) # 0
    <3>1. Len(q) # 0
      BY <1>7, EmptySeq
    <3>2. (L - k) + e = e
      BY <2>1
    <3>3. QED
      BY <1>10, <3>1, <3>2
  <2>3. run.at = "finalizing" /\ (L - k) + 1 = 1
    BY <1>8, <1>9, <2>1, <2>2
  <2>4. q[1] = Final
    BY <1>10, <2>3
  <2>5. QED
    BY <1>7, <2>4 DEF Final
<1>12. 1 \in 1..L - k /\ k + 1 \in 1..L /\ k + 1 \in Nat /\ k + 1 <= L
  BY <1>4, <1>11
<1>13. PICK t \in TurnRecords : t = ms[k + 1]
  BY <1>3, <1>12, ElementOfSeq
<1>14. q[1] = [cmd |-> "turn", turn |-> t]
  BY <1>10, <1>12, <1>13
<1>15. PICK m1 \in Seq(TurnRecords) : m1 = Append(wm, t)
  <2>1. Append(wm, t) \in Seq(TurnRecords)
    BY AppendProperties
  <2>2. QED
    BY <2>1, Zenon
<1>16. Len(m1) = k + 1 /\ m1 = SubSeq(ms, 1, k + 1)
  <2>1. Len(m1) = k + 1
    BY <1>3, <1>15, AppendProperties
  <2>2. 1 \in 1..Len(ms) + 1 /\ k + 1 \in 1..Len(ms) /\ (k + 1) - 1 = k
    BY <1>3, <1>12
  <2>3. SubSeq(ms, 1, k + 1) = Append(SubSeq(ms, 1, (k + 1) - 1), ms[k + 1])
    BY <2>2, SubSeqNext
  <2>4. QED
    BY <1>5, <1>13, <1>15, <2>1, <2>2, <2>3
<1>17. PICK w1 : w1 = [messages |-> m1, usage |-> wu + t.usage]
  OBVIOUS
<1>18. w1 \in SessionRecs /\ w1.messages = m1 /\ w1.usage = wu + t.usage /\ t.usage \in Nat
  BY <1>17, TurnUsage DEF SessionRecs
<1>19. Head(checkpoints).turn = t
  <2>1. Head(q) = q[1]
    BY <1>7
  <2>2. QED
    BY <1>6, <1>14, <2>1
<1>20. /\ worker' = [worker EXCEPT !.session = w1, !.published = TRUE]
       /\ checkpoints' = Tail(q)
       /\ IF worker.published THEN UNCHANGED <<report, trajectory>>
          ELSE publish_checkpoint(view(w1), "incomplete", broken)
  BY <1>2, <1>6, <1>15, <1>17, <1>19 DEF WorkerTurn
<1>21. worker'.session = w1 /\ worker'.gone = worker.gone
       /\ worker' \in [session : SessionRecs, published : BOOLEAN, gone : BOOLEAN]
  BY <1>18, <1>20 DEF HeadInv, HeadTypes
<1>22. PICK q1 : q1 = Tail(q)
  OBVIOUS
<1>23. q1 \in Seq(Sent) /\ Len(q1) = Len(q) - 1 /\ \A i \in 1..Len(q) - 1 : q1[i] = q[i + 1]
  BY <1>7, <1>22
<1>24. HeadTypes'
  BY <1>7, <1>20, <1>21, <1>22, <1>23 DEF HeadInv, HeadTypes
<1>25. Mine(m1) = Append(Mine(wm), t) /\ Mine(wm) \in Seq(TurnRecords)
  <2>1. c \in 0..Len(wm)
    BY <1>3, <1>4
  <2>2. SubSeq(Append(wm, t), c + 1, Len(Append(wm, t))) = Append(SubSeq(wm, c + 1, Len(wm)), t)
    BY <2>1, MineNext
  <2>3. SubSeq(wm, c + 1, Len(wm)) \in Seq(TurnRecords)
    BY <2>1
  <2>4. QED
    BY <1>2, <1>15, <2>2, <2>3 DEF Mine
<1>26. Paid(w1)
  <2>1. PICK o \in Seq(TurnRecords) : o = Mine(wm)
    BY <1>25, Zenon
  <2>2. Billed(o) \in Nat /\ Billed(Append(o, t)) = Billed(o) + t.usage
    BY BilledNext
  <2>3. wu = b + Billed(o)
    BY <1>2, <2>1 DEF HeadInv, Follows, Paid
  <2>4. wu + t.usage = b + Billed(Append(o, t))
    BY <1>18, <2>2, <2>3
  <2>5. QED
    BY <1>2, <1>18, <1>25, <2>1, <2>4 DEF Paid
<1>27. Follows'
  <2>1. Paid(session)' /\ (Paid(w1) => Paid(w1)')
    BY <1>7 DEF HeadInv, Follows, Paid, Mine
  <2>2. Paid(worker.session)'
    BY <1>21, <1>26, <2>1 DEF Paid, Mine
  <2>3. worker'.session.messages = m1 /\ start'.count = c /\ session'.messages = ms
    BY <1>1, <1>2, <1>7, <1>18, <1>21
  <2>4. c <= k + 1
    BY <1>4
  <2>5. QED
    BY <1>3, <1>12, <1>16, <2>1, <2>2, <2>3, <2>4 DEF Follows
<1>28. Waits'
  <2>1. Len(worker'.session.messages) = k + 1 /\ Len(session'.messages) - (k + 1) = (L - k) - 1
        /\ session' = session /\ run' = run
    BY <1>1, <1>3, <1>4, <1>7, <1>16, <1>18, <1>21
  <2>2. Len(q1) = ((L - k) - 1) + e
    <3>1. Len(q1) = Len(q) - 1 /\ Len(q) = (L - k) + e
      BY <1>10, <1>23
    <3>2. QED
      BY <3>1
  <2>3. ASSUME NEW i \in 1..(L - k) - 1 PROVE q1[i] = [cmd |-> "turn", turn |-> ms[(k + 1) + i]]
    <3>1. i + 1 \in 1..L - k /\ k + (i + 1) = (k + 1) + i
      BY <1>4
    <3>2. i \in 1..Len(q) - 1
      <4>1. Len(q) = (L - k) + e
        BY <1>10
      <4>2. QED
        BY <1>4, <4>1
    <3>3. q1[i] = q[i + 1]
      BY <1>23, <3>2
    <3>4. q[i + 1] = [cmd |-> "turn", turn |-> ms[k + (i + 1)]]
      BY <1>10, <3>1
    <3>5. QED
      BY <3>1, <3>3, <3>4
  <2>4. run.at = "finalizing" => q1[((L - k) - 1) + 1] = Final'
    <3>1. SUFFICES ASSUME run.at = "finalizing" PROVE q1[((L - k) - 1) + 1] = Final'
      OBVIOUS
    <3>2. Len(q) = (L - k) + 1
      BY <1>9, <1>10, <3>1
    <3>3. ((L - k) - 1) + 1 \in 1..Len(q) - 1 /\ (((L - k) - 1) + 1) + 1 = (L - k) + 1
      BY <1>4, <1>11, <3>2
    <3>4. q1[((L - k) - 1) + 1] = q[(L - k) + 1]
      BY <1>23, <3>3
    <3>5. Final' = Final
      BY <2>1 DEF Final
    <3>6. QED
      BY <1>10, <3>1, <3>4, <3>5
  <2>5. Len(checkpoints') = ((L - k) - 1) + (IF run'.at = "running" THEN 0 ELSE 1)
    BY <1>9, <1>20, <1>22, <2>1, <2>2
  <2>6. checkpoints' = q1 /\ session'.messages = ms
    BY <1>1, <1>7, <1>20, <1>22
  <2>7. run'.at # "returned"
    BY <1>8, <2>1
  <2>8. QED
    BY <1>10, <2>1, <2>3, <2>4, <2>5, <2>6, <2>7 DEF Waits
<1>29. ReportTells' /\ TrajectoryBegins'
  <2>1. CASE worker.published
    <3>1. UNCHANGED <<report, trajectory, session, start, run>>
      BY <1>7, <1>20, <2>1
    <3>2. Own' = Own
      BY <3>1 DEF Own
    <3>3. QED
      BY <3>1, <3>2 DEF HeadInv, ReportTells, TrajectoryBegins, Begins
  <2>2. CASE ~worker.published
    <3>1. publish_checkpoint(view(w1), "incomplete", broken)
      BY <1>20, <2>2
    <3>2. start.count <= k + 1 /\ k + 1 <= Len(session.messages) /\ w1.messages = SubSeq(session.messages, 1, k + 1)
      BY <1>1, <1>2, <1>3, <1>4, <1>12, <1>16, <1>18
    <3>3. QED
      BY <1>7, <1>12, <1>18, <1>26, <3>1, <3>2, PublishTells DEF HeadInv
  <2>3. QED
    BY <2>1, <2>2
<1>30. EndTells'
  BY <1>7, <1>8 DEF EndTells
<1>31. QED
  BY <1>24, <1>27, <1>28, <1>29, <1>30 DEF HeadInv

\* The last message: published from the whole session, and the run returns.
LEMMA WorkerFinalInv ==
  ASSUME HeadInv, NEW went, NEW broken, WorkerFinal(went, broken) PROVE HeadInv'
<1>1. PICK ms \in Seq(TurnRecords), wm \in Seq(TurnRecords) : ms = session.messages /\ wm = worker.session.messages
  BY DEF HeadInv, HeadTypes, SessionRecs
<1>2. PICK L \in Nat, k \in Nat : L = Len(ms) /\ k = Len(wm)
  OBVIOUS
<1>3. k <= L
  BY <1>1, <1>2 DEF HeadInv, Follows
<1>4. PICK q \in Seq(Sent) : q = checkpoints
  BY DEF HeadInv, HeadTypes
<1>5. run.at # "crashed" /\ ~worker.gone /\ q # <<>> /\ q[1].cmd = "final" /\ UNCHANGED <<session, start>>
  BY <1>4 DEF WorkerFinal
<1>6. run.at \in {"running", "finalizing"}
  BY <1>5 DEF HeadInv, HeadTypes, Waits
<1>7. /\ Len(q) = (L - k) + (IF run.at = "running" THEN 0 ELSE 1)
      /\ \A i \in 1..L - k : q[i] = [cmd |-> "turn", turn |-> ms[k + i]]
      /\ run.at = "finalizing" => q[(L - k) + 1] = Final /\ run.outcome # "none" /\ (run.ok => run.outcome # "failed")
  <2>1. Len(worker.session.messages) = k /\ Len(session.messages) = L
    BY <1>1, <1>2
  <2>2. QED
    BY <1>1, <1>4, <1>6, <2>1 DEF HeadInv, Waits
<1>8. k = L
  <2>1. SUFFICES ASSUME k # L PROVE FALSE
    OBVIOUS
  <2>2. 1 \in 1..L - k
    BY <1>3, <2>1
  <2>3. q[1] = [cmd |-> "turn", turn |-> ms[k + 1]]
    BY <1>7, <2>2
  <2>4. QED
    BY <1>5, <2>3
<1>9. run.at = "finalizing" /\ q[1] = Final
  <2>1. Len(q) # 0
    BY <1>5, EmptySeq
  <2>2. (L - k) + 0 = 0 /\ (L - k) + 1 = 1
    BY <1>8
  <2>3. run.at = "finalizing"
    BY <1>6, <1>7, <2>1, <2>2
  <2>4. QED
    BY <1>7, <2>2, <2>3
<1>10. PICK o : o = IF run.outcome = "failed" THEN "incomplete" ELSE run.outcome
  OBVIOUS
<1>11. Head(checkpoints).session = session /\ Head(checkpoints).outcome = o
  <2>1. Head(q) = q[1]
    BY <1>5
  <2>2. QED
    BY <1>4, <1>9, <1>10, <2>1 DEF Final
<1>12. /\ publish_checkpoint(view(session), o, broken)
       /\ worker' = [worker EXCEPT !.gone = TRUE] /\ checkpoints' = Tail(q)
       /\ run' = [run EXCEPT !.at = "returned", !.ok = @ /\ broken = "none"]
  BY <1>4, <1>11 DEF WorkerFinal
<1>13. /\ run'.at = "returned" /\ run'.outcome = run.outcome /\ (run'.ok <=> run.ok /\ broken = "none")
       /\ run' \in [at : {"running", "finalizing", "returned", "crashed"},
                    outcome : {"none", "stop", "cancelled", "failed"}, ok : BOOLEAN]
  BY <1>12 DEF HeadInv, HeadTypes
<1>14. worker'.session = worker.session /\ worker'.gone
       /\ worker' \in [session : SessionRecs, published : BOOLEAN, gone : BOOLEAN]
  BY <1>12 DEF HeadInv, HeadTypes
<1>15. Tail(q) \in Seq(Sent)
  BY <1>5
<1>16. HeadTypes'
  BY <1>5, <1>12, <1>13, <1>14, <1>15 DEF HeadInv, HeadTypes
<1>17. Follows'
  BY <1>5, <1>14 DEF HeadInv, Follows, Paid, Mine
<1>18. Waits'
  BY <1>13, <1>14 DEF Waits
<1>19. start.count <= L /\ L <= Len(session.messages) /\ session.messages = SubSeq(session.messages, 1, L) /\ session \in SessionRecs
  <2>1. start.count <= Len(wm)
    BY <1>1 DEF HeadInv, Follows
  <2>2. SubSeq(ms, 1, L) = ms
    BY <1>2
  <2>3. QED
    BY <1>1, <1>2, <1>8, <2>1, <2>2 DEF HeadInv, HeadTypes
<1>20. o = "stop" => run.outcome = "stop"
  BY <1>10
<1>21. /\ ReportTells' /\ TrajectoryBegins'
       /\ broken = "none" => /\ report'[1].turns = Mine(session.messages) /\ report'[1].outcome = o
                             /\ Flat(trajectory'[1]) = Mine(session.messages)
  BY <1>5, <1>12, <1>13, <1>19, <1>20, PublishTells DEF HeadInv, Follows
<1>22. EndTells'
  <2>1. Own' = Mine(session.messages)
    BY <1>5 DEF Own, Mine
  <2>2. SUFFICES ASSUME run'.ok
                 PROVE  report'[1].turns = Own' /\ report'[1].outcome = run'.outcome /\ Flat(trajectory'[1]) = Own'
    BY DEF EndTells
  <2>3. run.ok /\ broken = "none"
    BY <1>13, <2>2
  <2>4. o = run.outcome
    BY <1>7, <1>9, <1>10, <2>3
  <2>5. QED
    BY <1>13, <1>21, <2>1, <2>3, <2>4
<1>23. QED
  BY <1>16, <1>17, <1>18, <1>21, <1>22 DEF HeadInv

LEMMA HeadNextInv == ASSUME HeadInv, [HeadNext]_headVars PROVE HeadInv'
<1>1. CASE UNCHANGED headVars
  BY <1>1 DEF headVars, HeadInv, HeadTypes, Follows, Waits, Final, ReportTells, TrajectoryBegins, EndTells, Begins, Own, Mine, Paid
<1>2. CASE HeadNext
  <2>1. ASSUME NEW t \in TurnRecords, NEW saved \in BOOLEAN, OnTurn(t, saved) PROVE HeadInv'
    BY <2>1, OnTurnInv
  <2>2. ASSUME NEW o \in {"stop", "cancelled", "failed"}, Finish(o) PROVE HeadInv'
    BY <2>2, FinishInv
  <2>3. ASSUME NEW how, NEW broken, WorkerTurn(how, broken) \/ WorkerFinal(how, broken) PROVE HeadInv'
    BY <2>3, WorkerTurnInv, WorkerFinalInv
  <2>4. ASSUME NEW made, OpenJournal(made) PROVE HeadInv'
    <3>1. UNCHANGED <<session, start, checkpoints, worker, store, report, trajectory, run>>
      BY <2>4 DEF OpenJournal
    <3>2. QED
      BY <3>1 DEF HeadInv, HeadTypes, Follows, Waits, Final, ReportTells, TrajectoryBegins, EndTells, Begins, Own, Mine, Paid
  <2>5. QED
    BY <1>2, <2>1, <2>2, <2>3, <2>4, DieInv DEF HeadNext
<1>3. QED
  BY <1>1, <1>2

(* The journal, and what an earlier run left: every entry is the turn of   *)
(* the worker's session it says, later entries are later turns, and as     *)
(* long as none was refused they are all of them.                          *)
Entries == [turn : TurnRecords, at : Nat, form : {"whole", "unended", "torn"}]
Journals == [open : {"no", "yes", "never"}, log : Seq(Entries), out : Nat, hurt : BOOLEAN]
Handed == Mine(worker.session.messages)

LogFits(lg, m) == \A i \in 1..Len(lg) : lg[i].at \in 1..Len(m) /\ lg[i].turn = m[lg[i].at]
LogRises(lg) == \A i, j \in 1..Len(lg) : i < j => lg[i].at < lg[j].at
LogWhole(lg) == \A i \in 1..Len(lg) : lg[i].at = i /\ lg[i].form = "whole"

JournalFits ==
  /\ journal \in Journals /\ journal.out <= Len(journal.log)
  /\ LogFits(journal.log, Handed) /\ LogRises(journal.log)
  /\ ~journal.hurt => LogWhole(journal.log)
JournalOpens ==
  /\ journal.open = "yes" /\ ~journal.hurt => Len(journal.log) = Len(Handed)
  /\ journal.open # "yes" => journal.log = <<>>
  /\ journal.open = "no" => Handed = <<>> /\ ~worker.published
  /\ run.at = "returned" => journal.open # "no" /\ worker.session.messages = session.messages
Unharmed ==
  /\ hfaults \in Nat
  /\ hfaults = 0 => /\ ~journal.hurt /\ journal.out = Len(journal.log) /\ journal.open # "never"
                    /\ worker.published => older \subseteq {"journal"}
OlderStands ==
  /\ older \subseteq {"journal", "report", "trajectory"}
  /\ journal.open = "yes" => "journal" \notin older
  /\ run.ok /\ run.at = "returned" => older \subseteq {"journal"}

KeptInv == JournalFits /\ JournalOpens /\ Unharmed /\ OlderStands

LEMMA FaultsTell ==
  ASSUME hfaults \in Nat, NEW S, IsFiniteSet(S), Faults(S)
  PROVE  hfaults' \in Nat /\ (hfaults' = 0 => hfaults = 0 /\ S = {})
<1>1. PICK n \in Nat : n = Cardinality(S) /\ (n = 0 <=> S = {})
  BY FS_CardinalityType, FS_EmptySet
<1>2. hfaults' = hfaults + n
  BY <1>1 DEF Faults
<1>3. QED
  BY <1>1, <1>2

LEMMA FailingFinite ==
  ASSUME NEW a, NEW b, NEW x, NEW y
  PROVE  /\ IsFiniteSet(Failing(a, x)) /\ IsFiniteSet(Failing(a, x) \cup Failing(b, y))
         /\ Failing(a, x) = {} => x
         /\ Failing(a, x) \cup Failing(b, y) = {} => x /\ y
<1>1. IsFiniteSet({}) /\ IsFiniteSet({a}) /\ IsFiniteSet({b})
  BY FS_EmptySet, FS_Singleton
<1>2. IsFiniteSet(Failing(a, x)) /\ IsFiniteSet(Failing(b, y))
  BY <1>1 DEF Failing
<1>3. IsFiniteSet(Failing(a, x) \cup Failing(b, y))
  BY <1>2, FS_Union
<1>4. (Failing(a, x) = {} => x) /\ (Failing(b, y) = {} => y)
  BY DEF Failing
<1>5. QED
  BY <1>2, <1>3, <1>4

\* A step that leaves the journal, the worker and the older artifacts alone.
LEMMA KeptSame ==
  ASSUME KeptInv, UNCHANGED <<journal, worker, older, start>>, hfaults' \in Nat, hfaults' = 0 => hfaults = 0,
         run'.at # "returned" \/ UNCHANGED <<run, session>>
  PROVE  KeptInv'
<1>1. Handed' = Handed
  BY DEF Handed, Mine
<1>2. JournalFits'
  BY <1>1 DEF KeptInv, JournalFits
<1>3. JournalOpens'
  BY <1>1 DEF KeptInv, JournalOpens
<1>4. Unharmed' /\ OlderStands'
  BY DEF KeptInv, Unharmed, OlderStands
<1>5. QED
  BY <1>2, <1>3, <1>4 DEF KeptInv

\* One more entry, of the worker's next turn.
LEMMA EntryAdds ==
  ASSUME NEW lg, lg \in Seq(Entries), NEW m, m \in Seq(TurnRecords), NEW t \in TurnRecords,
         NEW e \in Entries, e.turn = t, e.at = Len(m) + 1, LogFits(lg, m), LogRises(lg)
  PROVE  /\ LogFits(lg, Append(m, t)) /\ LogFits(Append(lg, e), Append(m, t)) /\ LogRises(Append(lg, e))
         /\ LogWhole(lg) /\ Len(lg) = Len(m) /\ e.form = "whole" => LogWhole(Append(lg, e))
<1>1. PICK n \in Nat, k \in Nat : n = Len(lg) /\ k = Len(m)
  OBVIOUS
<1>2. PICK l1 : l1 = Append(lg, e)
  OBVIOUS
<1>3. PICK m1 : m1 = Append(m, t)
  OBVIOUS
<1>4. Len(l1) = n + 1 /\ l1[n + 1] = e /\ \A i \in 1..n : l1[i] = lg[i]
  BY <1>1, <1>2, AppendProperties
<1>5. Len(m1) = k + 1 /\ m1[k + 1] = t /\ \A i \in 1..k : m1[i] = m[i]
  BY <1>1, <1>3, AppendProperties
<1>6. ASSUME NEW i \in 1..n PROVE lg[i].at \in 1..k /\ lg[i].at \in 1..k + 1 /\ lg[i].turn = m1[lg[i].at] /\ lg[i].at < k + 1
  <2>1. lg[i].at \in 1..k /\ lg[i].turn = m[lg[i].at]
    BY <1>1 DEF LogFits
  <2>2. PICK x \in 1..k : x = lg[i].at
    BY <2>1
  <2>3. x \in 1..k + 1 /\ x < k + 1
    OBVIOUS
  <2>4. QED
    BY <1>5, <2>1, <2>2, <2>3
<1>7. ASSUME NEW i \in 1..n + 1 PROVE i \in 1..n \/ i = n + 1
  OBVIOUS
<1>8. LogFits(lg, m1)
  BY <1>1, <1>5, <1>6 DEF LogFits
<1>9. e.at = k + 1 /\ k + 1 \in 1..k + 1
  BY <1>1
<1>10. LogFits(l1, m1)
  <2>1. ASSUME NEW i \in 1..n + 1 PROVE l1[i].at \in 1..k + 1 /\ l1[i].turn = m1[l1[i].at]
    <3>1. CASE i \in 1..n
      BY <1>4, <1>6, <3>1
    <3>2. CASE i = n + 1
      BY <1>4, <1>5, <1>9, <3>2
    <3>3. QED
      BY <1>7, <3>1, <3>2
  <2>2. QED
    BY <1>4, <1>5, <2>1 DEF LogFits
<1>11. LogRises(l1)
  <2>1. ASSUME NEW i \in 1..n + 1, NEW j \in 1..n + 1, i < j PROVE l1[i].at < l1[j].at
    <3>1. i \in 1..n
      BY <2>1
    <3>2. CASE j \in 1..n
      BY <1>1, <1>4, <2>1, <3>1, <3>2 DEF LogRises
    <3>3. CASE j = n + 1
      BY <1>4, <1>6, <1>9, <3>1, <3>3
    <3>4. QED
      BY <1>7, <3>2, <3>3
  <2>2. QED
    BY <1>4, <2>1 DEF LogRises
<1>12. ASSUME LogWhole(lg), n = k, e.form = "whole" PROVE LogWhole(l1)
  <2>1. ASSUME NEW i \in 1..n + 1 PROVE l1[i].at = i /\ l1[i].form = "whole"
    <3>1. CASE i \in 1..n
      BY <1>1, <1>4, <1>12, <3>1 DEF LogWhole
    <3>2. CASE i = n + 1
      BY <1>4, <1>9, <1>12, <3>2
    <3>3. QED
      BY <1>7, <3>1, <3>2
  <2>2. QED
    BY <1>4, <2>1 DEF LogWhole
<1>13. QED
  BY <1>1, <1>2, <1>3, <1>8, <1>10, <1>11, <1>12

\* The turn the worker takes is the next it has been handed.
LEMMA TakesTurn ==
  ASSUME HeadInv, NEW how, NEW broken, WorkerTurn(how, broken)
  PROVE  \E t \in TurnRecords : /\ t = Head(checkpoints).turn /\ Handed \in Seq(TurnRecords)
                                /\ Handed' = Append(Handed, t)
                                /\ Len(Handed) = Len(worker.session.messages) - start.count
<1>1. PICK c \in Nat, wm \in Seq(TurnRecords) : c = start.count /\ wm = worker.session.messages
  BY DEF HeadInv, HeadTypes, SessionRecs
<1>2. c <= Len(wm) /\ Len(wm) \in Nat
  BY <1>1 DEF HeadInv, Follows
<1>3. PICK x \in Sent : x = Head(checkpoints) /\ x.cmd = "turn"
  <2>1. PICK q \in Seq(Sent) : q = checkpoints
    BY DEF HeadInv, HeadTypes
  <2>2. q # <<>> /\ Head(q).cmd = "turn"
    BY <2>1 DEF WorkerTurn
  <2>3. Head(q) \in Sent
    BY <2>2
  <2>4. QED
    BY <2>1, <2>2, <2>3
<1>4. x \in [cmd : {"turn"}, turn : TurnRecords]
  BY <1>3 DEF Sent
<1>5. PICK t \in TurnRecords : t = x.turn
  BY <1>4
<1>6. PICK m1 \in Seq(TurnRecords) : m1 = Append(wm, t)
  <2>1. Append(wm, t) \in Seq(TurnRecords)
    BY AppendProperties
  <2>2. QED
    BY <2>1, Zenon
<1>7. worker'.session.messages = m1 /\ start' = start
  <2>1. PICK w1 : w1 = [messages |-> Append(worker.session.messages, t), usage |-> worker.session.usage + t.usage]
    OBVIOUS
  <2>2. worker' = [worker EXCEPT !.session = w1, !.published = TRUE] /\ start' = start
    BY <1>3, <1>5, <2>1 DEF WorkerTurn
  <2>3. worker'.session = w1
    BY <2>2 DEF HeadInv, HeadTypes
  <2>4. QED
    BY <1>1, <1>6, <2>1, <2>2, <2>3
<1>8. c \in 0..Len(wm)
  BY <1>2
<1>9. SubSeq(Append(wm, t), c + 1, Len(Append(wm, t))) = Append(SubSeq(wm, c + 1, Len(wm)), t)
  BY <1>8, MineNext
<1>10. PICK o : o = SubSeq(wm, c + 1, Len(wm))
  OBVIOUS
<1>11. o \in Seq(TurnRecords) /\ Len(o) = Len(wm) - c
  <2>1. Len(wm) \in 0..Len(wm) /\ c \in 0..Len(wm)
    BY <1>8
  <2>2. QED
    BY <1>10, <2>1, MinePrefix
<1>12. Handed = o
  BY <1>1, <1>10 DEF Handed, Mine
<1>13. Handed' = Append(o, t)
  <2>1. Handed' = SubSeq(m1, c + 1, Len(m1))
    BY <1>1, <1>7 DEF Handed, Mine
  <2>2. QED
    BY <1>6, <1>9, <1>10, <2>1
<1>14. QED
  BY <1>1, <1>3, <1>5, <1>11, <1>12, <1>13

LEMMA PublishClears ==
  ASSUME NEW w, NEW o, NEW broken \in {"none", "report", "trajectory"}, publish_checkpoint(w, o, broken)
  PROVE  older' \subseteq older /\ (broken = "none" => older' = older \ {"report", "trajectory"})
BY DEF publish_checkpoint

LEMMA WorkerTurnKept ==
  ASSUME HeadInv, KeptInv, NEW how \in (DOMAIN JournalForms) \cup {"lost"},
         NEW broken \in {"none", "report", "trajectory"}, WorkerTurn(how, broken)
  PROVE  KeptInv'
<1>1. PICK t \in TurnRecords : /\ t = Head(checkpoints).turn /\ Handed \in Seq(TurnRecords)
                               /\ Handed' = Append(Handed, t)
                               /\ Len(Handed) = Len(worker.session.messages) - start.count
  BY TakesTurn
<1>2. PICK m \in Seq(TurnRecords) : m = Handed
  BY <1>1
<1>3. Handed' = Append(m, t) /\ Len(m) = Len(worker.session.messages) - start.count /\ Append(m, t) # <<>>
      /\ Len(Append(m, t)) = Len(m) + 1 /\ Len(m) \in Nat
  BY <1>1, <1>2, AppendProperties
<1>4. PICK o \in {"no", "yes", "never"}, lg \in Seq(Entries), d \in Nat, h \in BOOLEAN :
        journal = [open |-> o, log |-> lg, out |-> d, hurt |-> h]
  BY DEF KeptInv, JournalFits, Journals
<1>5. /\ journal.open = o /\ journal.log = lg /\ journal.out = d /\ journal.hurt = h /\ d <= Len(lg)
      /\ LogFits(lg, m) /\ LogRises(lg) /\ (~h => LogWhole(lg)) /\ (o = "yes" /\ ~h => Len(lg) = Len(m))
      /\ (o # "yes" => lg = <<>>)
  BY <1>2, <1>4 DEF KeptInv, JournalFits, JournalOpens
<1>6. JournalTurn(t, how) /\ UNCHANGED <<session, start, run>> /\ worker'.published
  BY <1>1 DEF WorkerTurn, HeadInv, HeadTypes
<1>7. run.at # "returned"
  <2>1. run.at = "returned" => worker.gone
    BY DEF HeadInv, Waits
  <2>2. QED
    BY <2>1 DEF WorkerTurn
<1>8. /\ hfaults' \in Nat
      /\ hfaults' = 0 => hfaults = 0 /\ how = "written" /\ broken = "none"
  <2>1. PICK S : S = Failing("line", how = "written") \cup Failing("publish", broken = "none")
    OBVIOUS
  <2>2. Faults(S) /\ hfaults \in Nat
    BY <2>1 DEF WorkerTurn, KeptInv, Unharmed
  <2>3. IsFiniteSet(S) /\ (S = {} => how = "written" /\ broken = "none")
    BY <2>1, FailingFinite
  <2>4. QED
    BY <2>2, <2>3, FaultsTell
<1>9. older' \subseteq older
      /\ (hfaults' = 0 => older' \subseteq {"journal"})
  <2>1. older \subseteq {"journal", "report", "trajectory"}
    BY DEF KeptInv, OlderStands
  <2>2. CASE worker.published
    <3>1. older' = older
      BY <2>2 DEF WorkerTurn
    <3>2. QED
      BY <1>8, <2>2, <3>1 DEF KeptInv, Unharmed
  <2>3. CASE ~worker.published
    <3>1. \E w, x : publish_checkpoint(w, x, broken)
      BY <2>3 DEF WorkerTurn
    <3>2. older' \subseteq older /\ (broken = "none" => older' = older \ {"report", "trajectory"})
      BY <3>1, PublishClears
    <3>3. QED
      BY <1>8, <2>1, <3>2
  <2>4. QED
    BY <2>2, <2>3
<1>10. CASE o = "never"
  <2>1. journal' = journal /\ lg = <<>>
    BY <1>4, <1>5, <1>6, <1>10 DEF JournalTurn
  <2>2. JournalFits'
    <3>1. LogFits(<<>>, Append(m, t))
      BY DEF LogFits
    <3>2. QED
      BY <1>3, <1>5, <2>1, <3>1 DEF KeptInv, JournalFits
  <2>3. JournalOpens' /\ Unharmed' /\ OlderStands'
    BY <1>5, <1>6, <1>7, <1>8, <1>9, <1>10, <2>1 DEF KeptInv, JournalOpens, Unharmed, OlderStands
  <2>4. QED
    BY <2>2, <2>3 DEF KeptInv
<1>11. CASE o = "yes"
  <2>1. PICK e \in Entries : e.turn = t /\ e.at = Len(m) + 1
                             /\ (how # "lost" => e = Entry(t, how))
                             /\ (how \in {"written", "kept"} => e.form = "whole")
    <3>1. CASE how = "lost"
      <4>1. [turn |-> t, at |-> Len(m) + 1, form |-> "whole"] \in Entries
        BY <1>3 DEF Entries
      <4>2. QED
        BY <3>1, <4>1
    <3>2. CASE how # "lost"
      <4>1. PICK f \in {"whole", "unended", "torn"} : f = JournalForms[how] /\ (how \in {"written", "kept"} => f = "whole")
        BY <3>2 DEF JournalForms
      <4>2. Entry(t, how) = [turn |-> t, at |-> Len(m) + 1, form |-> f]
        BY <1>3, <4>1 DEF Entry
      <4>3. Entry(t, how) \in Entries
        BY <1>3, <4>2 DEF Entries
      <4>4. QED
        BY <4>1, <4>2, <4>3
    <3>3. QED
      BY <3>1, <3>2
  <2>2. PICK l1 : l1 = IF how = "lost" THEN lg ELSE Append(lg, e)
    OBVIOUS
  <2>3. PICK d1 \in d..Len(l1) : /\ how = "written" => d1 = Len(l1)
                                 /\ journal' = [journal EXCEPT !.log = l1, !.out = d1, !.hurt = @ \/ how \notin {"written", "kept"}]
    <3>1. l1 = (IF how = "lost" THEN journal.log ELSE Append(journal.log, Entry(t, how)))
      BY <1>5, <2>1, <2>2
    <3>2. journal.open = "yes" /\ journal.open # "never"
      BY <1>5, <1>11
    <3>3. \E x \in journal.out .. Len(l1) :
            /\ how = "written" => x = Len(l1)
            /\ journal' = [journal EXCEPT !.log = l1, !.out = x, !.hurt = @ \/ how \notin {"written", "kept"}]
      BY <1>6, <3>1, <3>2, Zenon DEF JournalTurn
    <3>4. QED
      BY <1>5, <3>3
  <2>4. /\ l1 \in Seq(Entries) /\ LogFits(l1, Append(m, t)) /\ LogRises(l1)
        /\ ~h /\ how \in {"written", "kept"} => LogWhole(l1) /\ Len(l1) = Len(m) + 1
    <3>1. /\ LogFits(lg, Append(m, t)) /\ LogFits(Append(lg, e), Append(m, t)) /\ LogRises(Append(lg, e))
          /\ LogWhole(lg) /\ Len(lg) = Len(m) /\ e.form = "whole" => LogWhole(Append(lg, e))
      BY <1>5, <2>1, EntryAdds
    <3>2. Append(lg, e) \in Seq(Entries) /\ Len(Append(lg, e)) = Len(lg) + 1
      BY AppendProperties
    <3>3. CASE how = "lost"
      BY <1>5, <2>2, <3>1, <3>3
    <3>4. CASE how # "lost"
      <4>1. l1 = Append(lg, e)
        BY <2>2, <3>4
      <4>2. ~h /\ how \in {"written", "kept"} => LogWhole(lg) /\ Len(lg) = Len(m) /\ e.form = "whole"
        BY <1>5, <1>11, <2>1
      <4>3. QED
        BY <3>1, <3>2, <4>1, <4>2
    <3>5. QED
      BY <3>3, <3>4
  <2>5. PICK h1 \in BOOLEAN : h1 <=> (h \/ how \notin {"written", "kept"})
    OBVIOUS
  <2>6. journal' = [open |-> o, log |-> l1, out |-> d1, hurt |-> h1]
    BY <1>4, <2>3, <2>5
  <2>7. d1 \in Nat /\ d1 <= Len(l1)
    BY <2>4
  <2>8. /\ journal'.open = o /\ journal'.log = l1 /\ journal'.out = d1 /\ journal'.hurt = h1 /\ journal' \in Journals
    BY <2>4, <2>6, <2>7 DEF Journals
  <2>9. ~h1 => LogWhole(l1) /\ Len(l1) = Len(m) + 1
    BY <2>4, <2>5
  <2>10. JournalFits'
    BY <1>3, <2>4, <2>7, <2>8, <2>9 DEF JournalFits
  <2>11. JournalOpens'
    BY <1>3, <1>6, <1>7, <1>11, <2>8, <2>9 DEF JournalOpens
  <2>12. Unharmed'
    <3>1. hfaults' = 0 => ~h1 /\ d1 = Len(l1)
      BY <1>5, <1>8, <2>3, <2>5 DEF KeptInv, Unharmed
    <3>2. QED
      BY <1>8, <1>9, <1>11, <2>8, <3>1 DEF Unharmed
  <2>13. OlderStands'
    BY <1>5, <1>6, <1>7, <1>9, <1>11 DEF KeptInv, OlderStands
  <2>14. QED
    BY <2>10, <2>11, <2>12, <2>13 DEF KeptInv
<1>12. o \in {"yes", "never"}
  BY <1>5, <1>6 DEF JournalTurn
<1>13. QED
  BY <1>10, <1>11, <1>12

LEMMA FinalLast ==
  ASSUME HeadInv, NEW went, NEW broken, WorkerFinal(went, broken)
  PROVE  Len(worker.session.messages) = Len(session.messages)
<1>1. PICK ms \in Seq(TurnRecords), wm \in Seq(TurnRecords) : ms = session.messages /\ wm = worker.session.messages
  BY DEF HeadInv, HeadTypes, SessionRecs
<1>2. PICK L \in Nat, k \in Nat : L = Len(ms) /\ k = Len(wm)
  OBVIOUS
<1>3. k <= L
  BY <1>1, <1>2 DEF HeadInv, Follows
<1>4. PICK q \in Seq(Sent) : q = checkpoints
  BY DEF HeadInv, HeadTypes
<1>5. run.at # "crashed" /\ ~worker.gone /\ q # <<>> /\ q[1].cmd = "final" /\ UNCHANGED <<session, start>>
  BY <1>4 DEF WorkerFinal
<1>6. run.at \in {"running", "finalizing"}
  BY <1>5 DEF HeadInv, HeadTypes, Waits
<1>7. /\ Len(q) = (L - k) + (IF run.at = "running" THEN 0 ELSE 1)
      /\ \A i \in 1..L - k : q[i] = [cmd |-> "turn", turn |-> ms[k + i]]
        <2>1. Len(worker.session.messages) = k /\ Len(session.messages) = L
    BY <1>1, <1>2
  <2>2. QED
    BY <1>1, <1>4, <1>6, <2>1 DEF HeadInv, Waits
<1>8. k = L
  <2>1. SUFFICES ASSUME k # L PROVE FALSE
    OBVIOUS
  <2>2. 1 \in 1..L - k
    BY <1>3, <2>1
  <2>3. q[1] = [cmd |-> "turn", turn |-> ms[k + 1]]
    BY <1>7, <2>2
  <2>4. QED
    BY <1>5, <2>3
<1>9. QED
  BY <1>1, <1>2, <1>8

LEMMA WorkerFinalKept ==
  ASSUME HeadInv, HeadInv', KeptInv, NEW went \in BOOLEAN,
         NEW broken \in {"none", "report", "trajectory"}, WorkerFinal(went, broken)
  PROVE  KeptInv'
<1>1. PICK o \in {"no", "yes", "never"}, lg \in Seq(Entries), d \in Nat, h \in BOOLEAN :
        journal = [open |-> o, log |-> lg, out |-> d, hurt |-> h]
  BY DEF KeptInv, JournalFits, Journals
<1>2. journal.open = o /\ journal.log = lg /\ journal.out = d /\ journal.hurt = h /\ o # "no"
  BY <1>1 DEF WorkerFinal
<1>3. PICK d1 \in d..Len(lg) : (went => d1 = Len(lg)) /\ journal' = [journal EXCEPT !.out = d1]
  BY <1>2 DEF WorkerFinal
<1>4. journal' = [open |-> o, log |-> lg, out |-> d1, hurt |-> h] /\ d1 \in Nat /\ d1 <= Len(lg)
  BY <1>1, <1>3
<1>5. journal'.open = o /\ journal'.log = lg /\ journal'.out = d1 /\ journal'.hurt = h /\ journal' \in Journals
  BY <1>4 DEF Journals
<1>6. worker'.session = worker.session /\ worker'.published = worker.published /\ UNCHANGED <<session, start>>
  BY DEF WorkerFinal, HeadInv, HeadTypes
<1>7. Handed' = Handed
  BY <1>6 DEF Handed, Mine
<1>8. /\ hfaults' \in Nat
      /\ hfaults' = 0 => hfaults = 0 /\ went /\ broken = "none"
  <2>1. PICK S : S = Failing("flush", went) \cup Failing("publish", broken = "none")
    OBVIOUS
  <2>2. Faults(S) /\ hfaults \in Nat
    BY <2>1 DEF WorkerFinal, KeptInv, Unharmed
  <2>3. IsFiniteSet(S) /\ (S = {} => went /\ broken = "none")
    BY <2>1, FailingFinite
  <2>4. QED
    BY <2>2, <2>3, FaultsTell
<1>9. older' \subseteq older /\ (broken = "none" => older' \subseteq {"journal"})
  <2>1. older \subseteq {"journal", "report", "trajectory"}
    BY DEF KeptInv, OlderStands
  <2>2. \E w, x : publish_checkpoint(w, x, broken)
    BY DEF WorkerFinal
  <2>3. older' \subseteq older /\ (broken = "none" => older' = older \ {"report", "trajectory"})
    BY <2>2, PublishClears
  <2>4. QED
    BY <2>1, <2>3
<1>10. run'.ok => broken = "none"
  BY DEF WorkerFinal, HeadInv, HeadTypes
<1>11. worker.session.messages = session.messages
  <2>1. PICK ms \in Seq(TurnRecords), wm \in Seq(TurnRecords) : ms = session.messages /\ wm = worker.session.messages
    BY DEF HeadInv, HeadTypes, SessionRecs
  <2>2. Len(wm) = Len(ms)
    BY <2>1, FinalLast
  <2>3. wm = SubSeq(ms, 1, Len(wm))
    BY <2>1 DEF HeadInv, Follows
  <2>4. SubSeq(ms, 1, Len(ms)) = ms
    OBVIOUS
  <2>5. QED
    BY <2>1, <2>2, <2>3, <2>4
<1>12. JournalFits'
  BY <1>2, <1>4, <1>5, <1>7 DEF KeptInv, JournalFits
<1>13. JournalOpens'
  BY <1>2, <1>5, <1>6, <1>7, <1>11 DEF KeptInv, JournalOpens
<1>14. Unharmed'
  BY <1>2, <1>3, <1>5, <1>8, <1>9 DEF KeptInv, Unharmed
<1>15. OlderStands'
  BY <1>2, <1>5, <1>9, <1>10 DEF KeptInv, OlderStands
<1>16. QED
  BY <1>12, <1>13, <1>14, <1>15 DEF KeptInv

LEMMA OpenJournalKept ==
  ASSUME HeadInv, KeptInv, NEW made \in BOOLEAN, OpenJournal(made) PROVE KeptInv'
<1>1. PICK lg \in Seq(Entries), d \in Nat, h \in BOOLEAN : journal = [open |-> "no", log |-> lg, out |-> d, hurt |-> h]
  BY DEF KeptInv, JournalFits, Journals, OpenJournal
<1>2. journal.open = "no" /\ journal.log = lg /\ journal.out = d /\ journal.hurt = h
  BY <1>1
<1>3. PICK o \in {"yes", "never"} : o = IF made THEN "yes" ELSE "never"
  OBVIOUS
<1>4. journal' = [open |-> o, log |-> lg, out |-> d, hurt |-> h]
  BY <1>1, <1>3 DEF OpenJournal
<1>5. journal'.open = o /\ journal'.log = lg /\ journal'.out = d /\ journal'.hurt = h /\ journal' \in Journals
  BY <1>4 DEF Journals
<1>6. UNCHANGED <<session, start, worker, run>> /\ older' = (IF made THEN older \ {"journal"} ELSE older)
  BY DEF OpenJournal
<1>7. Handed' = Handed
  BY <1>6 DEF Handed, Mine
<1>8. hfaults' \in Nat /\ (hfaults' = 0 => hfaults = 0 /\ made)
  <2>1. PICK S : S = Failing("journal", made)
    OBVIOUS
  <2>2. Faults(S) /\ hfaults \in Nat
    BY <2>1 DEF OpenJournal, KeptInv, Unharmed
  <2>3. IsFiniteSet(S) /\ (S = {} => made)
    BY <2>1, FailingFinite
  <2>4. QED
    BY <2>2, <2>3, FaultsTell
<1>9. lg = <<>> /\ Handed = <<>>
  BY <1>2 DEF KeptInv, JournalOpens
<1>10. JournalFits'
  BY <1>2, <1>5, <1>7 DEF KeptInv, JournalFits
<1>11. JournalOpens'
  BY <1>2, <1>5, <1>6, <1>7, <1>9 DEF KeptInv, JournalOpens
<1>12. Unharmed'
  BY <1>2, <1>3, <1>5, <1>6, <1>8 DEF KeptInv, Unharmed
<1>13. OlderStands'
  BY <1>3, <1>5, <1>6 DEF KeptInv, OlderStands
<1>14. QED
  BY <1>10, <1>11, <1>12, <1>13 DEF KeptInv

LEMMA KeptStarts == ASSUME HeadInit PROVE KeptInv
<1>1. journal = [open |-> "no", log |-> <<>>, out |-> 0, hurt |-> FALSE] /\ hfaults = 0
      /\ older \subseteq {"journal", "report", "trajectory"}
  BY DEF HeadInit
<1>2. worker = [session |-> session, published |-> FALSE, gone |-> FALSE] /\ start.count = Len(session.messages)
      /\ run.at = "running"
  BY DEF HeadInit
<1>3. Handed = <<>>
  <2>1. PICK ts \in Seq(TurnRecords) : session.messages = ts
    BY HeadAssumption DEF HeadInit
  <2>2. SubSeq(ts, Len(ts) + 1, Len(ts)) = <<>>
    OBVIOUS
  <2>3. QED
    BY <1>2, <2>1, <2>2 DEF Handed, Mine
<1>4. JournalFits
  BY <1>1 DEF JournalFits, Journals, LogFits, LogRises, LogWhole
<1>5. JournalOpens /\ Unharmed /\ OlderStands
  BY <1>1, <1>2, <1>3 DEF JournalOpens, Unharmed, OlderStands
<1>6. QED
  BY <1>4, <1>5 DEF KeptInv

LEMMA KeptNext ==
  ASSUME HeadInv, HeadInv', KeptInv, [HeadNext]_headVars PROVE KeptInv'
<1>0. hfaults \in Nat
  BY DEF KeptInv, Unharmed
<1>1. CASE UNCHANGED headVars
  BY <1>0, <1>1, KeptSame DEF headVars
<1>2. CASE HeadNext
  <2>1. ASSUME NEW t \in TurnRecords, NEW saved \in BOOLEAN, OnTurn(t, saved) PROVE KeptInv'
    <3>1. UNCHANGED <<journal, worker, older, start, run>> /\ run.at = "running" /\ Faults(Failing("store", saved))
      BY <2>1 DEF OnTurn
    <3>2. IsFiniteSet(Failing("store", saved))
      BY FailingFinite
    <3>3. hfaults' \in Nat /\ (hfaults' = 0 => hfaults = 0)
      BY <1>0, <3>1, <3>2, FaultsTell
    <3>4. QED
      BY <3>1, <3>3, KeptSame
  <2>2. ASSUME NEW x \in {"stop", "cancelled", "failed"}, Finish(x) PROVE KeptInv'
    <3>1. UNCHANGED <<journal, worker, older, start, hfaults>> /\ run'.at # "returned"
      BY <2>2 DEF Finish
    <3>2. QED
      BY <1>0, <3>1, KeptSame
  <2>3. CASE Die
    <3>1. UNCHANGED <<journal, worker, older, start, hfaults>> /\ run'.at # "returned"
      BY <2>3 DEF Die, HeadInv, HeadTypes
    <3>2. QED
      BY <1>0, <3>1, KeptSame
  <2>4. QED
    BY <1>2, <2>1, <2>2, <2>3, OpenJournalKept, WorkerTurnKept, WorkerFinalKept DEF HeadNext
<1>3. QED
  BY <1>1, <1>2

LEMMA InvJournal == ASSUME HeadInv, KeptInv PROVE JournalTells
<1>1. PICK o \in Seq(TurnRecords) : o = Own
  BY OwnIs DEF HeadInv
<1>2. PICK n \in 0..Len(o) : Handed = SubSeq(o, 1, n)
  <2>1. PICK k \in Nat : k = Len(worker.session.messages)
    BY DEF HeadInv, HeadTypes, SessionRecs
  <2>2. worker.session \in SessionRecs
    BY DEF HeadInv, HeadTypes
  <2>3. Mine(worker.session.messages) = SubSeq(Own, 1, k - start.count) /\ k - start.count \in 0..Len(Own)
    BY <2>1, <2>2, ViewIs DEF HeadInv, Follows
  <2>4. QED
    BY <1>1, <2>3 DEF Handed
<1>3. PICK m \in Seq(TurnRecords) : m = Handed /\ Len(m) = n /\ \A i \in 1..n : m[i] = o[i]
  <2>1. PICK m : m = SubSeq(o, 1, n)
    OBVIOUS
  <2>2. m \in Seq(TurnRecords) /\ Len(m) = n /\ \A i \in 1..n : m[i] = o[i]
    BY <2>1
  <2>3. QED
    BY <1>2, <2>1, <2>2
<1>4. PICK lg \in Seq(Entries), d \in Nat : lg = journal.log /\ d = journal.out /\ d <= Len(lg)
  BY DEF KeptInv, JournalFits, Journals
<1>5. \A i \in ReadableLines : i \in 1..d /\ i \in 1..Len(lg)
  BY <1>4 DEF ReadableLines
<1>6. LogFits(lg, m) /\ LogRises(lg) /\ (~journal.hurt => LogWhole(lg))
  BY <1>3, <1>4 DEF KeptInv, JournalFits
<1>7. ASSUME NEW i \in ReadableLines PROVE journal.log[i].at \in DOMAIN Own /\ journal.log[i].turn = Own[journal.log[i].at]
  <2>1. PICK x \in 1..n : x = lg[i].at /\ lg[i].turn = m[x]
    BY <1>3, <1>5, <1>6 DEF LogFits
  <2>2. x \in 1..Len(o) /\ m[x] = o[x]
    BY <1>3
  <2>3. QED
    BY <1>1, <1>4, <2>1, <2>2
<1>8. \A i, j \in ReadableLines : i < j => journal.log[i].at < journal.log[j].at
  BY <1>4, <1>5, <1>6 DEF LogRises
<1>9. ASSUME ~journal.hurt PROVE ReadableLines = 1..journal.out /\ \A i \in ReadableLines : journal.log[i].at = i
  <2>1. ASSUME NEW i \in 1..d PROVE i \in 1..Len(lg) /\ (i > 1 => i - 1 \in 1..Len(lg))
    BY <1>4
  <2>2. \A i \in 1..Len(lg) : lg[i].form = "whole" /\ lg[i].at = i
    BY <1>6, <1>9 DEF LogWhole
  <2>3. QED
    BY <1>4, <1>5, <2>1, <2>2 DEF ReadableLines
<1>10. ASSUME run.at = "returned", hfaults = 0 PROVE journal.out = Len(Own)
  <2>1. journal.open = "yes" /\ ~journal.hurt /\ d = Len(lg) /\ Len(lg) = Len(m)
    BY <1>3, <1>4, <1>10 DEF KeptInv, JournalFits, Journals, JournalOpens, Unharmed
  <2>2. Handed = Own
    BY <1>10, OwnIs DEF HeadInv, KeptInv, JournalOpens, Handed
  <2>3. QED
    BY <1>3, <1>4, <2>1, <2>2
<1>11. QED
  BY <1>7, <1>8, <1>9, <1>10 DEF JournalTells

LEMMA InvArtifacts == ASSUME HeadInv, KeptInv PROVE ArtifactsSound
<1>1. PICK o \in Seq(TurnRecords) : o = Own
  BY OwnIs DEF HeadInv
<1>2. ASSUME NEW p, Begins(p) PROVE IsPrefix(p, o)
  <2>1. PICK n \in 0..Len(o) : p = SubSeq(o, 1, n)
    BY <1>1, <1>2 DEF Begins
  <2>2. p \in Seq(TurnRecords) /\ Len(p) = n /\ n <= Len(o)
    BY <2>1
  <2>3. SubSeq(p, 1, Len(p)) = p
    BY <2>2
  <2>4. QED
    BY <2>1, <2>2, <2>3 DEF IsPrefix
<1>3. worker.published /\ hfaults = 0 => older = {}
  <2>1. SUFFICES ASSUME worker.published, hfaults = 0 PROVE older = {}
    OBVIOUS
  <2>2. journal.open = "yes"
    BY <2>1 DEF KeptInv, JournalFits, Journals, JournalOpens, Unharmed
  <2>3. QED
    BY <2>1, <2>2 DEF KeptInv, Unharmed, OlderStands
<1>4. ArtifactsTellTheRun
  BY <1>1, <1>2, <1>3 DEF HeadInv, KeptInv, OlderStands, ReportTells, EndTells, ArtifactsTellTheRun
<1>5. TrajectoryWhole
  <2>1. SUFFICES ASSUME trajectory # <<>>
                 PROVE  /\ IsPrefix(Flat(trajectory[1]), Own)
                        /\ run.ok /\ run.at = "returned" => Flat(trajectory[1]) = Own
                        /\ Hung(trajectory[1])
    BY Zenon DEF TrajectoryWhole, Flat, Telling, Hung
  <2>2. QED
    BY <1>1, <1>2, <2>1 DEF HeadInv, TrajectoryBegins, EndTells
<1>6. QED
  BY <1>4, <1>5, InvJournal DEF ArtifactsSound

(* Whatever the run resumes and finds at its paths, however many turns it takes,         *)
(* whichever writes fail and wherever the process dies: every line of the journal that   *)
(* can be read is a turn of the run in its place, and all of them from the first on as   *)
(* long as none was refused; every published report is a beginning of the run's own      *)
(* turns with exactly their tokens, the trajectory tells each turn once, in order and    *)
(* under its call, and an exit without an error left the whole run in them and nothing   *)
(* of an earlier one.                                                                    *)
THEOREM ArtifactsSoundAlways == HeadSpec => []ArtifactsSound
<1>1. HeadInv /\ KeptInv => ArtifactsSound
  BY InvArtifacts
<1>2. HeadInit => HeadInv /\ KeptInv
  BY HeadInitInv, KeptStarts
<1>3. HeadInv /\ KeptInv /\ [HeadNext]_headVars => (HeadInv /\ KeptInv)'
  BY HeadNextInv, KeptNext
<1>4. QED
  BY <1>1, <1>2, <1>3, PTL DEF HeadSpec

-----------------------------------------------------------------------------
(* The screen.  Blocks and live calls are where their rows are.            *)

RowParts == {"text", "sum", "body", "call", "note", "blank", "divider", "spinner"}
ScreenRows == [own : Nat, part : RowParts]
ScreenBlocks == [own : Nat, kind : {"thought", "tool"}, row : Nat, len : Nat, open : BOOLEAN]
LiveRecs == [start : Nat, len : Nat, own : Nat]
Lives == UNION {[S -> LiveRecs] : S \in {T \in SUBSET Calls : IsFiniteSet(T)}}
Views == [rows : Seq(ScreenRows), blocks : SUBSET ScreenBlocks, live : Lives, text : Nat, thought : Nat,
          running : Nat, busy : BOOLEAN, started : BOOLEAN, next : Nat]

PosOf(q, r) == {i \in 1..Len(q) : q[i] = r}

BlockFit(q, b, n) ==
  /\ b.own < n /\ PosOf(q, Row(b.own, "sum")) = {b.row}
  /\ PosOf(q, Row(b.own, "body")) = IF b.open THEN (b.row + 1)..(b.row + b.len) ELSE {}
BlocksFit(q, bs, n) ==
  (\A b \in bs : BlockFit(q, b, n)) /\ \A b, c \in bs : b.own = c.own => b = c
LiveFit(q, x, n) ==
  /\ x.own < n /\ x.len >= 1
  /\ PosOf(q, Row(x.own, "call")) = x.start..(x.start + x.len - 1)
  /\ PosOf(q, Row(x.own, "sum")) = {} /\ PosOf(q, Row(x.own, "body")) = {}
LivesFit(q, calls, n) ==
  (\A c \in DOMAIN calls : LiveFit(q, calls[c], n)) /\ \A c, d \in DOMAIN calls : calls[c].own = calls[d].own => c = d
OwnersFit(q, text, thought, n) ==
  /\ text < n /\ thought < n /\ (text # 0 => text # thought)
  /\ \A i \in 1..Len(q) : /\ q[i].own < n
                          /\ text # 0 => q[i].own # text
                          /\ thought # 0 => q[i].own # thought
ViewFits(w) ==
  /\ w \in Views
  /\ BlocksFit(w.rows, w.blocks, w.next) /\ LivesFit(w.rows, w.live, w.next)
  /\ OwnersFit(w.rows, w.text, w.thought, w.next)

LEMMA RowTyped == ASSUME NEW o \in Nat, NEW p \in RowParts PROVE Row(o, p) \in ScreenRows /\ Row(o, p).own = o /\ Row(o, p).part = p
BY DEF Row, ScreenRows

LEMMA RowSame ==
  ASSUME NEW o, NEW p, NEW o2, NEW p2, Row(o, p) = Row(o2, p2) PROVE o = o2 /\ p = p2
BY DEF Row

LEMMA RowAt == ASSUME NEW q \in Seq(ScreenRows), NEW i \in 1..Len(q) PROVE q[i] \in ScreenRows /\ q[i].own \in Nat
<1>1. q[i] \in ScreenRows
  BY ElementOfSeq
<1>2. QED
  BY <1>1 DEF ScreenRows

LEMMA LiveTyped ==
  ASSUME NEW calls \in Lives
  PROVE  calls \in [DOMAIN calls -> LiveRecs] /\ IsFiniteSet(DOMAIN calls) /\ DOMAIN calls \subseteq Calls
BY DEF Lives

LEMMA LiveMade ==
  ASSUME NEW S, IsFiniteSet(S), S \subseteq Calls, NEW calls \in [S -> LiveRecs] PROVE calls \in Lives
BY DEF Lives

LEMMA RowsJoin ==
  ASSUME NEW a \in Seq(ScreenRows), NEW b \in Seq(ScreenRows)
  PROVE  /\ a \o b \in Seq(ScreenRows) /\ Len(a \o b) = Len(a) + Len(b)
         /\ \A i \in 1..Len(a) : (a \o b)[i] = a[i]
         /\ \A i \in 1..Len(b) : (a \o b)[Len(a) + i] = b[i]
<1>1. a \o b \in Seq(ScreenRows) /\ Len(a \o b) = Len(a) + Len(b)
  BY ConcatProperties
<1>2. ASSUME NEW i \in 1..Len(a) PROVE (a \o b)[i] = a[i]
  OBVIOUS
<1>3. ASSUME NEW i \in 1..Len(b) PROVE (a \o b)[Len(a) + i] = b[i]
  OBVIOUS
<1>4. QED
  BY <1>1, <1>2, <1>3

\* What is where after rows s .. s + l - 1 were replaced by new.
CutAt(p, q, s, l, new) ==
  /\ p \in Seq(ScreenRows) /\ Len(p) = (Len(q) - l) + Len(new)
  /\ \A i \in 1..(s - 1) : p[i] = q[i]
  /\ \A i \in 1..Len(new) : p[(s - 1) + i] = new[i]
  /\ \A i \in (s + l)..Len(q) : p[(i - l) + Len(new)] = q[i]
LEMMA Spliced ==
  ASSUME NEW q \in Seq(ScreenRows), NEW new \in Seq(ScreenRows), NEW s \in Nat \ {0}, NEW l \in Nat, s + l <= Len(q) + 1
  PROVE  CutAt(splice(q, s, l, new), q, s, l, new)
<1>1. PICK L \in Nat, M \in Nat : L = Len(q) /\ M = Len(new)
  OBVIOUS
<1>2. PICK a : a = SubSeq(q, 1, s - 1)
  OBVIOUS
<1>3. PICK b : b = SubSeq(q, s + l, L)
  OBVIOUS
<1>4. a \in Seq(ScreenRows) /\ Len(a) = s - 1 /\ \A i \in 1..(s - 1) : a[i] = q[i]
  <2>1. s - 1 \in 0..L
    BY <1>1
  <2>2. QED
    BY <1>1, <1>2, <2>1
<1>5. b \in Seq(ScreenRows) /\ Len(b) = (L - (s + l)) + 1 /\ \A i \in 1..((L - (s + l)) + 1) : b[i] = q[(s + l) + (i - 1)]
  <2>1. s + l \in 1..(L + 1)
    BY <1>1
  <2>2. b \in Seq(ScreenRows) /\ Len(b) = (L - (s + l)) + 1
    BY <1>1, <1>3, <2>1
  <2>3. ASSUME NEW i \in 1..((L - (s + l)) + 1) PROVE b[i] = q[(s + l) + (i - 1)]
    <3>1. L \in ((s + l) - 1)..L /\ i \in 1..(L - (s + l) + 1) /\ (s + l) + i - 1 = (s + l) + (i - 1)
      BY <1>1, <2>1
    <3>2. SubSeq(q, s + l, L)[i] = q[(s + l) + i - 1]
      BY <1>1, <2>1, <3>1, SubSeqProperties
    <3>3. QED
      BY <1>3, <3>1, <3>2
  <2>4. QED
    BY <2>2, <2>3
<1>6. PICK c : c = a \o new
  OBVIOUS
<1>7. c \in Seq(ScreenRows) /\ Len(c) = (s - 1) + M /\ (\A i \in 1..(s - 1) : c[i] = q[i]) /\ \A i \in 1..M : c[(s - 1) + i] = new[i]
  <2>1. c \in Seq(ScreenRows) /\ Len(c) = (s - 1) + M
    <3>1. c \in Seq(ScreenRows) /\ Len(c) = Len(a) + Len(new)
      BY <1>4, <1>6, RowsJoin
    <3>2. QED
      BY <1>1, <1>4, <3>1
  <2>2. ASSUME NEW i \in 1..(s - 1) PROVE c[i] = q[i]
    <3>1. c[i] = a[i]
      BY <1>1, <1>4, <1>6
    <3>2. QED
      BY <1>4, <3>1
  <2>3. ASSUME NEW i \in 1..M PROVE c[(s - 1) + i] = new[i]
    <3>1. i \in 1..Len(new) /\ a \in Seq(ScreenRows)
      BY <1>1, <1>4
    <3>2. (a \o new)[Len(a) + i] = new[i]
      BY <3>1, RowsJoin
    <3>3. QED
      BY <1>4, <1>6, <3>2
  <2>4. QED
    BY <2>1, <2>2, <2>3
<1>8. PICK p : p = c \o b
  OBVIOUS
<1>9. p = splice(q, s, l, new)
  BY <1>1, <1>2, <1>3, <1>6, <1>8 DEF splice
<1>10. p \in Seq(ScreenRows) /\ Len(p) = (L - l) + M
  <2>1. p \in Seq(ScreenRows) /\ Len(p) = Len(c) + Len(b)
    BY <1>5, <1>7, <1>8, RowsJoin
  <2>2. Len(c) = (s - 1) + M /\ Len(b) = (L - (s + l)) + 1
    BY <1>5, <1>7
  <2>3. Len(p) = (L - l) + M
    BY <2>1, <2>2
  <2>4. QED
    BY <2>1, <2>3
<1>11. ASSUME NEW i \in 1..(s - 1) PROVE p[i] = q[i]
  BY <1>5, <1>7, <1>8
<1>12. ASSUME NEW i \in 1..M PROVE p[(s - 1) + i] = new[i]
  BY <1>5, <1>7, <1>8
<1>13. ASSUME NEW i \in (s + l)..L PROVE p[(i - l) + M] = q[i]
  <2>1. PICK j \in Nat : j = (i - (s + l)) + 1
    OBVIOUS
  <2>2. j \in 1..((L - (s + l)) + 1) /\ (s + l) + (j - 1) = i /\ (i - l) + M = ((s - 1) + M) + j
    BY <2>1
  <2>3. p[((s - 1) + M) + j] = b[j]
    <3>1. PICK C \in Nat : C = Len(c) /\ C = (s - 1) + M
      BY <1>7
    <3>2. j \in 1..Len(b)
      BY <1>5, <2>2
    <3>3. b \in Seq(ScreenRows) /\ c \in Seq(ScreenRows)
      BY <1>5, <1>7
    <3>4. (c \o b)[Len(c) + j] = b[j]
      BY <3>2, <3>3, RowsJoin
    <3>5. QED
      BY <1>8, <3>1, <3>4
  <2>4. b[j] = q[(s + l) + (j - 1)]
    BY <1>5, <2>2
  <2>5. QED
    BY <2>2, <2>3, <2>4
<1>14. QED
  BY <1>1, <1>9, <1>10, <1>11, <1>12, <1>13 DEF CutAt

Lacks(new, r) == \A i \in 1..Len(new) : new[i] # r
MovesTo(P, a, b, s, l, M) ==
  (b < s => P = a..b) /\ (a >= s + l => P = ((a - l) + M)..((b - l) + M))

\* Rows that are not among the new ones stay, or move with what is below the cut.
LEMMA PosAfter ==
  ASSUME NEW q \in Seq(ScreenRows), NEW new \in Seq(ScreenRows), NEW s \in Nat \ {0}, NEW l \in Nat, s + l <= Len(q) + 1,
         NEW r, Lacks(new, r), NEW i \in Int
  PROVE  i \in PosOf(splice(q, s, l, new), r) <=>
           (i < s /\ i \in PosOf(q, r)) \/ (i >= s + Len(new) /\ (i + l) - Len(new) \in PosOf(q, r))
<1>1. PICK L \in Nat, M \in Nat : L = Len(q) /\ M = Len(new)
  OBVIOUS
<1>2. PICK p : p = splice(q, s, l, new)
  OBVIOUS
<1>3. /\ Len(p) = (L - l) + M
      /\ \A k \in 1..(s - 1) : p[k] = q[k]
      /\ \A k \in 1..M : p[(s - 1) + k] = new[k]
      /\ \A k \in (s + l)..L : p[(k - l) + M] = q[k]
  <2>1. CutAt(p, q, s, l, new)
    BY <1>2, Spliced
  <2>2. QED
    BY <1>1, <2>1 DEF CutAt
<1>4. CASE i < s
  <2>1. ~(i >= s + M)
    BY <1>4
  <2>2. i \in 1..Len(p) => i \in 1..L /\ p[i] = q[i]
    <3>1. i >= 1 => i \in 1..(s - 1) /\ i \in 1..L
      BY <1>1, <1>4
    <3>2. i \in 1..(s - 1) => p[i] = q[i]
      BY <1>3
    <3>3. i \in 1..Len(p) => i >= 1
      OBVIOUS
    <3>4. QED
      BY <3>1, <3>2, <3>3
  <2>3. i \in 1..L => i \in 1..Len(p)
    BY <1>1, <1>3, <1>4
  <2>4. QED
    BY <1>1, <1>2, <1>4, <2>1, <2>2, <2>3 DEF PosOf
<1>5. CASE i >= s /\ i < s + M
  <2>1. PICK k \in 1..M : k = (i - s) + 1
    BY <1>5
  <2>2. (s - 1) + k = i
    BY <2>1
  <2>3. p[i] = new[k] /\ new[k] # r
    BY <1>1, <1>3, <2>1, <2>2 DEF Lacks
  <2>4. QED
    BY <1>1, <1>2, <1>5, <2>3 DEF PosOf
<1>6. CASE i >= s + M
  <2>1. PICK k \in Int : k = (i + l) - M
    OBVIOUS
  <2>2. ~(i < s) /\ (k - l) + M = i /\ (i \in 1..Len(p) <=> k \in 1..L) /\ k >= s + l
    <3>1. PICK P \in Int : P = Len(p) /\ P = (L - l) + M
      BY <1>3
    <3>2. ~(i < s) /\ (k - l) + M = i /\ (i \in 1..P <=> k \in 1..L) /\ k >= s + l
      BY <1>6, <2>1, <3>1
    <3>3. QED
      BY <3>1, <3>2
  <2>3. k \in 1..L => p[i] = q[k]
    <3>1. k \in 1..L => k \in (s + l)..L
      BY <2>2
    <3>2. k \in (s + l)..L => p[(k - l) + M] = q[k]
      BY <1>3, Zenon
    <3>3. QED
      BY <2>2, <3>1, <3>2
  <2>4. QED
    BY <1>1, <1>2, <1>6, <2>1, <2>2, <2>3 DEF PosOf
<1>7. QED
  BY <1>4, <1>5, <1>6

LEMMA PosMoved ==
  ASSUME NEW q \in Seq(ScreenRows), NEW new \in Seq(ScreenRows), NEW s \in Nat \ {0}, NEW l \in Nat, s + l <= Len(q) + 1,
         NEW r, Lacks(new, r), NEW a \in Int, NEW b \in Int, PosOf(q, r) = a..b
  PROVE  MovesTo(PosOf(splice(q, s, l, new), r), a, b, s, l, Len(new))
<1>1. PICK M \in Nat : M = Len(new)
  OBVIOUS
<1>2. PICK P : P = PosOf(splice(q, s, l, new), r)
  OBVIOUS
<1>3. ASSUME NEW i \in Int PROVE i \in P <=> (i < s /\ i \in a..b) \/ (i >= s + M /\ (i + l) - M \in a..b)
  BY <1>1, <1>2, PosAfter
<1>4. P \subseteq Int
  BY <1>2 DEF PosOf
<1>5. ASSUME b < s PROVE P = a..b
  <2>1. ASSUME NEW i \in Int PROVE i \in P <=> i \in a..b
    BY <1>3, <1>5
  <2>2. a..b \subseteq Int
    OBVIOUS
  <2>3. QED
    BY <1>4, <2>1, <2>2, Zenon
<1>6. ASSUME a >= s + l PROVE P = ((a - l) + M)..((b - l) + M)
  <2>1. ASSUME NEW i \in Int PROVE i \in P <=> i \in ((a - l) + M)..((b - l) + M)
    BY <1>3, <1>6
  <2>2. ((a - l) + M)..((b - l) + M) \subseteq Int
    OBVIOUS
  <2>3. QED
    BY <1>4, <2>1, <2>2, Zenon
<1>7. QED
  BY <1>1, <1>2, <1>5, <1>6 DEF MovesTo

\* Rows that were not there are not there.
LEMMA PosNone ==
  ASSUME NEW q \in Seq(ScreenRows), NEW new \in Seq(ScreenRows), NEW s \in Nat \ {0}, NEW l \in Nat, s + l <= Len(q) + 1,
         NEW r, Lacks(new, r), PosOf(q, r) = {}
  PROVE  PosOf(splice(q, s, l, new), r) = {}
<1>1. ASSUME NEW i \in PosOf(splice(q, s, l, new), r) PROVE FALSE
  <2>1. i \in Int
    BY DEF PosOf
  <2>2. QED
    BY <2>1, PosAfter
<1>2. QED
  BY <1>1

\* Rows that are no block's and no live call's among those of the owners O.
Foreign(new, O) == \A i \in 1..Len(new) : new[i].part \notin {"sum", "body", "call"} \/ new[i].own \notin O

LEMMA ForeignRow ==
  ASSUME NEW new, NEW O, Foreign(new, O), NEW o \in O, NEW p \in {"sum", "body", "call"}
  PROVE  Lacks(new, Row(o, p))
BY DEF Foreign, Row, Lacks

\* A block with its body is above a cut or below it, and so is a live call.
BlockClear(b, s, l) == (b.row < s /\ (b.open => b.row + b.len < s)) \/ b.row >= s + l
LiveClear(x, s, l) == x.start + x.len <= s \/ x.start >= s + l
MovedBlock(b, t, d) == IF b.row >= t THEN [b EXCEPT !.row = @ + d] ELSE b
MovedLive(x, t, d) == IF x.start >= t THEN [x EXCEPT !.start = @ - d] ELSE x

LEMMA CutBlock ==
  ASSUME NEW q \in Seq(ScreenRows), NEW new \in Seq(ScreenRows), NEW s \in Nat \ {0}, NEW l \in Nat, s + l <= Len(q) + 1,
         NEW d \in Int, d = Len(new) - l, NEW n \in Nat,
         NEW b \in ScreenBlocks, BlockFit(q, b, n), BlockClear(b, s, l), Foreign(new, {b.own})
  PROVE  /\ MovedBlock(b, s + l, d) \in ScreenBlocks /\ MovedBlock(b, s + l, d).own = b.own
         /\ BlockFit(splice(q, s, l, new), MovedBlock(b, s + l, d), n)
<1>1. PICK o \in Nat, x \in Nat, len \in Nat, open \in BOOLEAN : o = b.own /\ x = b.row /\ len = b.len /\ open = b.open
  BY DEF ScreenBlocks
<1>2. PICK M \in Nat : M = Len(new) /\ d = M - l
  OBVIOUS
<1>3. PICK p : p = splice(q, s, l, new)
  OBVIOUS
<1>4. PICK y : y = IF x >= s + l THEN x + d ELSE x
  OBVIOUS
<1>5. PICK c : c = MovedBlock(b, s + l, d)
  OBVIOUS
<1>6. y \in Nat
  BY <1>2, <1>4
<1>7. c \in ScreenBlocks /\ c.own = o /\ c.row = y /\ c.len = len /\ c.open = open
  <2>1. CASE x >= s + l
    <3>1. c = [b EXCEPT !.row = y]
      BY <1>1, <1>4, <1>5, <2>1 DEF MovedBlock, ScreenBlocks
    <3>2. QED
      BY <1>1, <1>6, <3>1 DEF ScreenBlocks
  <2>2. CASE ~(x >= s + l)
    BY <1>1, <1>4, <1>5, <2>2 DEF MovedBlock
  <2>3. QED
    BY <2>1, <2>2
<1>8. o < n /\ PosOf(q, Row(o, "sum")) = {x} /\ PosOf(q, Row(o, "body")) = IF open THEN (x + 1)..(x + len) ELSE {}
  BY <1>1 DEF BlockFit
<1>9. Lacks(new, Row(o, "sum")) /\ Lacks(new, Row(o, "body"))
  BY <1>1, ForeignRow
<1>10. (x < s /\ (open => x + len < s)) \/ x >= s + l
  BY <1>1 DEF BlockClear
<1>11. PosOf(p, Row(o, "sum")) = {y}
  <2>1. PosOf(q, Row(o, "sum")) = x..x
    BY <1>8
  <2>2. /\ x < s => PosOf(p, Row(o, "sum")) = x..x
        /\ x >= s + l => PosOf(p, Row(o, "sum")) = ((x - l) + M)..((x - l) + M)
    <3>1. MovesTo(PosOf(splice(q, s, l, new), Row(o, "sum")), x, x, s, l, Len(new))
      <4>1. PICK r : r = Row(o, "sum") /\ Lacks(new, r) /\ PosOf(q, r) = x..x
        BY <1>9, <2>1
      <4>2. x \in Int
        OBVIOUS
      <4>3. MovesTo(PosOf(splice(q, s, l, new), r), x, x, s, l, Len(new))
        BY <4>1, <4>2, PosMoved
      <4>4. QED
        BY <4>1, <4>3
    <3>2. QED
      BY <1>2, <1>3, <3>1 DEF MovesTo
  <2>3. CASE x >= s + l
    <3>1. y = (x - l) + M
      BY <1>2, <1>4, <2>3
    <3>2. QED
      BY <2>2, <2>3, <3>1
  <2>4. CASE ~(x >= s + l)
    BY <1>4, <1>10, <2>2, <2>4
  <2>5. QED
    BY <2>3, <2>4
<1>12. PosOf(p, Row(o, "body")) = IF open THEN (y + 1)..(y + len) ELSE {}
  <2>1. CASE ~open
    <3>1. PosOf(q, Row(o, "body")) = {}
      BY <1>8, <2>1
    <3>2. PosOf(p, Row(o, "body")) = {}
      BY <1>2, <1>3, <1>9, <3>1, PosNone
    <3>3. QED
      BY <2>1, <3>2
  <2>2. CASE open
    <3>1. PosOf(q, Row(o, "body")) = (x + 1)..(x + len)
      BY <1>8, <2>2
    <3>2. /\ x + len < s => PosOf(p, Row(o, "body")) = (x + 1)..(x + len)
          /\ x + 1 >= s + l => PosOf(p, Row(o, "body")) = (((x + 1) - l) + M)..(((x + len) - l) + M)
      <4>1. x + 1 \in Int /\ x + len \in Int
        OBVIOUS
      <4>2. MovesTo(PosOf(splice(q, s, l, new), Row(o, "body")), x + 1, x + len, s, l, Len(new))
        BY <1>9, <3>1, <4>1, PosMoved
      <4>3. QED
        BY <1>2, <1>3, <4>2 DEF MovesTo
    <3>3. CASE x >= s + l
      <4>1. y + 1 = ((x + 1) - l) + M /\ y + len = ((x + len) - l) + M /\ x + 1 >= s + l
        BY <1>2, <1>4, <3>3
      <4>2. QED
        BY <2>2, <3>2, <4>1
    <3>4. CASE ~(x >= s + l)
      BY <1>4, <1>10, <2>2, <3>2, <3>4
    <3>5. QED
      BY <3>3, <3>4
  <2>3. QED
    BY <2>1, <2>2
<1>13. QED
  BY <1>1, <1>3, <1>5, <1>7, <1>8, <1>11, <1>12 DEF BlockFit

LEMMA CutLive ==
  ASSUME NEW q \in Seq(ScreenRows), NEW new \in Seq(ScreenRows), NEW s \in Nat \ {0}, NEW l \in Nat, s + l <= Len(q) + 1,
         NEW d \in Int, d = l - Len(new), NEW n \in Nat,
         NEW x \in LiveRecs, LiveFit(q, x, n), LiveClear(x, s, l), Foreign(new, {x.own})
  PROVE  /\ MovedLive(x, s + l, d) \in LiveRecs /\ MovedLive(x, s + l, d).own = x.own
         /\ LiveFit(splice(q, s, l, new), MovedLive(x, s + l, d), n)
<1>1. PICK o \in Nat, a \in Nat, len \in Nat : o = x.own /\ a = x.start /\ len = x.len
  BY DEF LiveRecs
<1>2. PICK M \in Nat : M = Len(new) /\ d = l - M
  OBVIOUS
<1>3. PICK p : p = splice(q, s, l, new)
  OBVIOUS
<1>4. PICK y : y = IF a >= s + l THEN a - d ELSE a
  OBVIOUS
<1>5. PICK c : c = MovedLive(x, s + l, d)
  OBVIOUS
<1>6. y \in Nat
  BY <1>2, <1>4
<1>7. c \in LiveRecs /\ c.own = o /\ c.start = y /\ c.len = len
  <2>1. CASE a >= s + l
    <3>1. c = [x EXCEPT !.start = y]
      BY <1>1, <1>4, <1>5, <2>1 DEF MovedLive, LiveRecs
    <3>2. QED
      BY <1>1, <1>6, <3>1 DEF LiveRecs
  <2>2. CASE ~(a >= s + l)
    BY <1>1, <1>4, <1>5, <2>2 DEF MovedLive
  <2>3. QED
    BY <2>1, <2>2
<1>8. /\ o < n /\ len >= 1 /\ PosOf(q, Row(o, "call")) = a..(a + len - 1)
      /\ PosOf(q, Row(o, "sum")) = {} /\ PosOf(q, Row(o, "body")) = {}
  BY <1>1 DEF LiveFit
<1>9. Lacks(new, Row(o, "sum")) /\ Lacks(new, Row(o, "body")) /\ Lacks(new, Row(o, "call"))
  BY <1>1, ForeignRow
<1>10. PosOf(p, Row(o, "sum")) = {} /\ PosOf(p, Row(o, "body")) = {}
  BY <1>2, <1>3, <1>8, <1>9, PosNone
<1>11. /\ a + len - 1 < s => PosOf(p, Row(o, "call")) = a..(a + len - 1)
       /\ a >= s + l => PosOf(p, Row(o, "call")) = ((a - l) + M)..(((a + len - 1) - l) + M)
  <2>1. PICK e : e \in Int /\ e = a + len - 1
    OBVIOUS
  <2>2. MovesTo(PosOf(splice(q, s, l, new), Row(o, "call")), a, a + len - 1, s, l, Len(new))
    <3>1. a \in Int
      OBVIOUS
    <3>2. MovesTo(PosOf(splice(q, s, l, new), Row(o, "call")), a, e, s, l, Len(new))
      BY <1>8, <1>9, <2>1, <3>1, PosMoved
    <3>3. QED
      BY <2>1, <3>2
  <2>3. QED
    BY <1>2, <1>3, <2>2 DEF MovesTo
<1>12. PosOf(p, Row(o, "call")) = y..(y + len - 1)
  <2>1. a + len <= s \/ a >= s + l
    BY <1>1 DEF LiveClear
  <2>2. CASE a >= s + l
    <3>1. y = (a - l) + M /\ y + len - 1 = ((a + len - 1) - l) + M
      BY <1>2, <1>4, <2>2
    <3>2. QED
      BY <1>11, <2>2, <3>1
  <2>3. CASE ~(a >= s + l)
    BY <1>4, <1>11, <2>1, <2>3
  <2>4. QED
    BY <2>2, <2>3
<1>13. QED
  BY <1>1, <1>3, <1>5, <1>7, <1>8, <1>10, <1>12 DEF LiveFit


\* What is new in a splice is where it was put.
LEMMA PosNew ==
  ASSUME NEW q \in Seq(ScreenRows), NEW new \in Seq(ScreenRows), NEW s \in Nat \ {0}, NEW l \in Nat, s + l <= Len(q) + 1,
         NEW r, PosOf(q, r) = {}, NEW i \in Int
  PROVE  i \in PosOf(splice(q, s, l, new), r) <=> i - (s - 1) \in PosOf(new, r)
<1>1. PICK L \in Nat, M \in Nat : L = Len(q) /\ M = Len(new)
  OBVIOUS
<1>2. PICK p : p = splice(q, s, l, new)
  OBVIOUS
<1>3. /\ Len(p) = (L - l) + M
      /\ \A k \in 1..(s - 1) : p[k] = q[k]
      /\ \A k \in 1..M : p[(s - 1) + k] = new[k]
      /\ \A k \in (s + l)..L : p[(k - l) + M] = q[k]
  <2>1. CutAt(p, q, s, l, new)
    BY <1>2, Spliced
  <2>2. QED
    BY <1>1, <2>1 DEF CutAt
<1>4. \A k \in 1..L : q[k] # r
  BY <1>1 DEF PosOf
<1>5. CASE i < s
  <2>1. i \notin PosOf(p, r)
    <3>1. i \in 1..Len(p) => i \in 1..(s - 1) /\ i \in 1..L
      BY <1>1, <1>5
    <3>2. i \in 1..(s - 1) => p[i] = q[i]
      BY <1>3
    <3>3. QED
      BY <1>4, <3>1, <3>2 DEF PosOf
  <2>2. i - (s - 1) \notin 1..M
    BY <1>5
  <2>3. QED
    BY <1>1, <1>2, <2>1, <2>2 DEF PosOf
<1>6. CASE i >= s /\ i < s + M
  <2>1. PICK k \in 1..M : k = i - (s - 1)
    BY <1>6
  <2>2. (s - 1) + k = i
    BY <2>1
  <2>3. p[i] = new[k]
    BY <1>3, <2>1, <2>2
  <2>4. i \in 1..Len(p)
    <3>1. PICK P \in Int : P = Len(p) /\ P = (L - l) + M
      BY <1>3
    <3>2. i \in 1..P
      BY <1>1, <1>6, <3>1
    <3>3. QED
      BY <3>1, <3>2
  <2>5. QED
    BY <1>1, <1>2, <2>1, <2>3, <2>4 DEF PosOf
<1>7. CASE i >= s + M
  <2>1. PICK k \in Int : k = (i + l) - M
    OBVIOUS
  <2>2. (k - l) + M = i /\ (i \in 1..Len(p) => k \in (s + l)..L) /\ i - (s - 1) \notin 1..M
    <3>1. PICK P \in Int : P = Len(p) /\ P = (L - l) + M
      BY <1>3
    <3>2. (k - l) + M = i /\ (i \in 1..P => k \in (s + l)..L) /\ i - (s - 1) \notin 1..M
      BY <1>7, <2>1, <3>1
    <3>3. QED
      BY <3>1, <3>2
  <2>3. i \in 1..Len(p) => p[i] = q[k] /\ k \in 1..L
    <3>1. k \in (s + l)..L => p[(k - l) + M] = q[k] /\ k \in 1..L
      BY <1>3
    <3>2. QED
      BY <2>2, <3>1
  <2>4. QED
    BY <1>1, <1>2, <1>4, <2>2, <2>3 DEF PosOf
<1>8. QED
  BY <1>5, <1>6, <1>7

\* Every row of a splice is an old one or a new one.
From(p, q, new) ==
  \A i \in 1..Len(p) : (\E k \in 1..Len(q) : p[i] = q[k]) \/ (\E k \in 1..Len(new) : p[i] = new[k])
LEMMA SplicedFrom ==
  ASSUME NEW q \in Seq(ScreenRows), NEW new \in Seq(ScreenRows), NEW s \in Nat \ {0}, NEW l \in Nat, s + l <= Len(q) + 1
  PROVE  From(splice(q, s, l, new), q, new)
<1>1. PICK p : p = splice(q, s, l, new)
  OBVIOUS
<1>2. ASSUME NEW i \in 1..Len(p)
      PROVE  (\E k \in 1..Len(q) : p[i] = q[k]) \/ (\E k \in 1..Len(new) : p[i] = new[k])
  <2>1. PICK r : r = p[i]
    OBVIOUS
  <2>2. CASE PosOf(q, r) # {}
    BY <2>1, <2>2 DEF PosOf
  <2>3. CASE PosOf(q, r) = {}
    <3>1. i \in PosOf(p, r) /\ i \in Int
      BY <2>1 DEF PosOf
    <3>2. i - (s - 1) \in PosOf(new, r)
      BY <1>1, <2>3, <3>1, PosNew
    <3>3. QED
      BY <2>1, <3>2 DEF PosOf
  <2>4. QED
    BY <2>2, <2>3
<1>3. QED
  BY <1>1, <1>2 DEF From

AllClear(bs, s, l, new) == \A b \in bs : BlockClear(b, s, l) /\ Foreign(new, {b.own})
OwnedAs(cs, bs) == \A c \in cs : \E b \in bs : c.own = b.own
LEMMA CutBlocks ==
  ASSUME NEW q \in Seq(ScreenRows), NEW new \in Seq(ScreenRows), NEW s \in Nat \ {0}, NEW l \in Nat, s + l <= Len(q) + 1,
         NEW d \in Int, d = Len(new) - l, NEW n \in Nat, NEW bs \in SUBSET ScreenBlocks, BlocksFit(q, bs, n), AllClear(bs, s, l, new)
  PROVE  /\ shift(bs, s + l, d) \in SUBSET ScreenBlocks /\ BlocksFit(splice(q, s, l, new), shift(bs, s + l, d), n)
         /\ OwnedAs(shift(bs, s + l, d), bs)
<1>1. PICK T : T = shift(bs, s + l, d)
  OBVIOUS
<1>2. T = {MovedBlock(b, s + l, d) : b \in bs}
  BY <1>1 DEF shift, MovedBlock
<1>3. ASSUME NEW b \in bs
      PROVE  /\ MovedBlock(b, s + l, d) \in ScreenBlocks /\ MovedBlock(b, s + l, d).own = b.own
             /\ BlockFit(splice(q, s, l, new), MovedBlock(b, s + l, d), n)
  <2>1. b \in ScreenBlocks /\ BlockFit(q, b, n) /\ BlockClear(b, s, l) /\ Foreign(new, {b.own})
    BY DEF BlocksFit, AllClear
  <2>2. QED
    BY <2>1, CutBlock
<1>4. \A b, c \in bs : b.own = c.own => b = c
  BY DEF BlocksFit
<1>5. ASSUME NEW x \in T, NEW y \in T, x.own = y.own PROVE x = y
  <2>1. PICK b \in bs : x = MovedBlock(b, s + l, d)
    BY <1>2
  <2>2. PICK c \in bs : y = MovedBlock(c, s + l, d)
    BY <1>2
  <2>3. QED
    BY <1>3, <1>4, <1>5, <2>1, <2>2
<1>6. \A x \in T : x \in ScreenBlocks /\ BlockFit(splice(q, s, l, new), x, n) /\ \E b \in bs : x.own = b.own
  BY <1>2, <1>3
<1>7. QED
  BY <1>1, <1>5, <1>6 DEF BlocksFit, OwnedAs

LEMMA CutLives ==
  ASSUME NEW q \in Seq(ScreenRows), NEW new \in Seq(ScreenRows), NEW s \in Nat \ {0}, NEW l \in Nat, s + l <= Len(q) + 1,
         NEW d \in Int, d = l - Len(new), NEW n \in Nat, NEW calls \in Lives, LivesFit(q, calls, n),
         \A c \in DOMAIN calls : LiveClear(calls[c], s, l) /\ Foreign(new, {calls[c].own})
  PROVE  reindex(calls, s + l, d) \in Lives /\ LivesFit(splice(q, s, l, new), reindex(calls, s + l, d), n)
<1>1. PICK T : T = reindex(calls, s + l, d)
  OBVIOUS
<1>2. T = [c \in DOMAIN calls |-> MovedLive(calls[c], s + l, d)]
  BY <1>1 DEF reindex, MovedLive
<1>3. calls \in [DOMAIN calls -> LiveRecs] /\ IsFiniteSet(DOMAIN calls) /\ DOMAIN calls \subseteq Calls
  BY LiveTyped
<1>4. ASSUME NEW c \in DOMAIN calls
      PROVE  /\ T[c] \in LiveRecs /\ T[c].own = calls[c].own
             /\ LiveFit(splice(q, s, l, new), T[c], n)
  <2>1. PICK x \in LiveRecs : x = calls[c]
    BY <1>3
  <2>2. LiveFit(q, x, n) /\ LiveClear(x, s, l) /\ Foreign(new, {x.own})
    BY <2>1 DEF LivesFit
  <2>3. T[c] = MovedLive(x, s + l, d)
    BY <1>2, <2>1
  <2>4. /\ MovedLive(x, s + l, d) \in LiveRecs /\ MovedLive(x, s + l, d).own = x.own
        /\ LiveFit(splice(q, s, l, new), MovedLive(x, s + l, d), n)
    BY <2>2, CutLive
  <2>5. QED
    BY <2>1, <2>3, <2>4
<1>5. DOMAIN T = DOMAIN calls /\ T \in [DOMAIN calls -> LiveRecs]
  <2>1. DOMAIN T = DOMAIN calls /\ T = [c \in DOMAIN calls |-> T[c]]
    BY <1>2
  <2>2. QED
    BY <1>4, <2>1
<1>6. T \in Lives
  BY <1>3, <1>5, LiveMade
<1>7. \A c, e \in DOMAIN calls : calls[c].own = calls[e].own => c = e
  BY DEF LivesFit
<1>8. QED
  BY <1>1, <1>4, <1>5, <1>6, <1>7 DEF LivesFit

LEMMA RowsJoined ==
  ASSUME NEW q \in Seq(ScreenRows), NEW new \in Seq(ScreenRows)
  PROVE  q \o new = splice(q, Len(q) + 1, 0, new)
<1>1. PICK L \in Nat : L = Len(q)
  OBVIOUS
<1>2. SubSeq(q, 1, (L + 1) - 1) = q
  <2>1. (L + 1) - 1 = L
    OBVIOUS
  <2>2. QED
    BY <1>1, <2>1, SubSeqFull
<1>3. SubSeq(q, (L + 1) + 0, L) = <<>>
  <2>1. (L + 1) + 0 = L + 1
    OBVIOUS
  <2>2. QED
    BY <1>1, <2>1, SubSeqEmpty
<1>4. (q \o new) \o <<>> = q \o new
  <2>1. q \o new \in Seq(ScreenRows)
    BY RowsJoin
  <2>2. QED
    BY <2>1, ConcatEmptySeq
<1>5. QED
  BY <1>1, <1>2, <1>3, <1>4 DEF splice

\* Rows put at the end move nothing.
LEMMA AppendBlocks ==
  ASSUME NEW q \in Seq(ScreenRows), NEW new \in Seq(ScreenRows), NEW n \in Nat, NEW bs \in SUBSET ScreenBlocks,
         BlocksFit(q, bs, n), \A b \in bs : Foreign(new, {b.own})
  PROVE  BlocksFit(q \o new, bs, n)
<1>1. PICK L \in Nat, d \in Int : L = Len(q) /\ d = Len(new) - 0
  OBVIOUS
<1>2. ASSUME NEW b \in bs PROVE BlockClear(b, L + 1, 0) /\ ~(b.row >= L + 1)
  <2>1. PICK x \in Nat, len \in Nat, open \in BOOLEAN : x = b.row /\ len = b.len /\ open = b.open
    BY DEF ScreenBlocks
  <2>2. x \in PosOf(q, Row(b.own, "sum")) /\ PosOf(q, Row(b.own, "body")) = IF open THEN (x + 1)..(x + len) ELSE {}
    BY <2>1 DEF BlocksFit, BlockFit
  <2>3. x <= L
    BY <1>1, <2>2 DEF PosOf
  <2>4. open => x + len <= L
    <3>1. CASE len = 0
      BY <2>3, <3>1
    <3>2. CASE len # 0 /\ open
      <4>1. x + len \in (x + 1)..(x + len)
        BY <3>2
      <4>2. x + len \in PosOf(q, Row(b.own, "body"))
        BY <2>2, <3>2, <4>1
      <4>3. QED
        BY <1>1, <4>2 DEF PosOf
    <3>3. QED
      BY <3>1, <3>2
  <2>5. QED
    BY <2>1, <2>3, <2>4 DEF BlockClear
<1>3. shift(bs, (L + 1) + 0, d) = bs
  <2>1. \A b \in bs : ~(b.row >= (L + 1) + 0)
    BY <1>2
  <2>2. QED
    BY <2>1 DEF shift
<1>4. BlocksFit(splice(q, L + 1, 0, new), shift(bs, (L + 1) + 0, d), n)
  <2>1. L + 1 \in Nat \ {0} /\ (L + 1) + 0 <= Len(q) + 1 /\ AllClear(bs, L + 1, 0, new)
    BY <1>1, <1>2 DEF AllClear
  <2>2. QED
    BY <1>1, <2>1, CutBlocks
<1>5. QED
  BY <1>1, <1>3, <1>4, RowsJoined

LEMMA AppendLives ==
  ASSUME NEW q \in Seq(ScreenRows), NEW new \in Seq(ScreenRows), NEW n \in Nat, NEW calls \in Lives,
         LivesFit(q, calls, n), \A c \in DOMAIN calls : Foreign(new, {calls[c].own})
  PROVE  LivesFit(q \o new, calls, n)
<1>1. PICK L \in Nat, d \in Int : L = Len(q) /\ d = 0 - Len(new)
  OBVIOUS
<1>2. calls \in [DOMAIN calls -> LiveRecs]
  BY LiveTyped
<1>3. ASSUME NEW c \in DOMAIN calls PROVE LiveClear(calls[c], L + 1, 0) /\ ~(calls[c].start >= L + 1)
  <2>1. PICK x \in LiveRecs : x = calls[c]
    BY <1>2
  <2>2. PICK a \in Nat, len \in Nat : a = x.start /\ len = x.len
    BY DEF LiveRecs
  <2>3. len >= 1 /\ PosOf(q, Row(x.own, "call")) = a..(a + len - 1)
    BY <2>1, <2>2 DEF LivesFit, LiveFit
  <2>4. a + len - 1 \in a..(a + len - 1)
    BY <2>3
  <2>5. a + len - 1 <= L
    BY <1>1, <2>3, <2>4 DEF PosOf
  <2>6. a + len <= L + 1 /\ ~(a >= L + 1)
    BY <2>3, <2>5
  <2>7. LiveClear(x, L + 1, 0)
    BY <2>2, <2>6 DEF LiveClear
  <2>8. QED
    BY <2>1, <2>2, <2>6, <2>7
<1>4. reindex(calls, (L + 1) + 0, d) = calls
  <2>1. \A c \in DOMAIN calls : ~(calls[c].start >= (L + 1) + 0)
    BY <1>3
  <2>2. reindex(calls, (L + 1) + 0, d) = [c \in DOMAIN calls |-> calls[c]]
    BY <2>1 DEF reindex
  <2>3. QED
    BY <1>2, <2>2
<1>5. LivesFit(splice(q, L + 1, 0, new), reindex(calls, (L + 1) + 0, d), n)
  <2>1. L + 1 \in Nat \ {0} /\ (L + 1) + 0 <= Len(q) + 1 /\ \A c \in DOMAIN calls : LiveClear(calls[c], L + 1, 0) /\ Foreign(new, {calls[c].own})
    BY <1>1, <1>3
  <2>2. QED
    BY <1>1, <2>1, CutLives
<1>6. QED
  BY <1>1, <1>4, <1>5, RowsJoined

LEMMA BlocksMore ==
  ASSUME NEW q, NEW n \in Nat, NEW m \in Nat, n <= m, NEW bs \in SUBSET ScreenBlocks, BlocksFit(q, bs, n)
  PROVE  BlocksFit(q, bs, m)
<1>1. ASSUME NEW b \in bs PROVE BlockFit(q, b, m)
  <2>1. BlockFit(q, b, n) /\ b.own \in Nat
    BY DEF BlocksFit, ScreenBlocks
  <2>2. QED
    BY <2>1 DEF BlockFit
<1>2. QED
  BY <1>1 DEF BlocksFit

LEMMA LivesMore ==
  ASSUME NEW q, NEW n \in Nat, NEW m \in Nat, n <= m, NEW calls \in Lives, LivesFit(q, calls, n)
  PROVE  LivesFit(q, calls, m)
<1>1. ASSUME NEW c \in DOMAIN calls PROVE LiveFit(q, calls[c], m)
  <2>1. PICK x \in LiveRecs : x = calls[c]
    BY LiveTyped
  <2>2. LiveFit(q, x, n) /\ x.own \in Nat
    BY <2>1 DEF LivesFit, LiveRecs
  <2>3. QED
    BY <2>1, <2>2 DEF LiveFit
<1>2. QED
  BY <1>1 DEF LivesFit

LEMMA BlocksAdd ==
  ASSUME NEW q, NEW n, NEW bs, NEW b, BlocksFit(q, bs, n), BlockFit(q, b, n), \A c \in bs : c.own # b.own
  PROVE  BlocksFit(q, bs \cup {b}, n)
BY DEF BlocksFit

-----------------------------------------------------------------------------
(* What the rows tell.                                                     *)

Tells(p, r) == IF r.part = "text" THEN Append(p, r.own) ELSE p

LEMMA ToldRun ==
  ASSUME NEW q \in Seq(ScreenRows)
  PROVE  \E h \in [0..Len(q) -> Seq(Nat)] :
           h[0] = <<>> /\ (\A n \in 1..Len(q) : h[n] = Tells(h[n - 1], q[n])) /\ Texts(q) = h[Len(q)]
<1> DEFINE L == Len(q)
           F == [p \in (1..L) \X Seq(Nat) |-> Tells(p[2], q[p[1]])]
           Rec(h) == h = [n \in 0..L |-> IF n = 0 THEN <<>> ELSE Tells(h[n - 1], q[n])]
<1>2. L \in Nat /\ <<>> \in Seq(Nat)
  OBVIOUS
<1>3. ASSUME NEW n \in 1..L, NEW p \in Seq(Nat) PROVE Tells(p, q[n]) \in Seq(Nat)
  <2>1. PICK t \in ScreenRows : t = q[n]
    BY ElementOfSeq
  <2>2. PICK o \in Nat : o = t.own
    BY DEF ScreenRows
  <2>3. Append(p, o) \in Seq(Nat)
    OBVIOUS
  <2>4. QED
    BY <2>1, <2>2, <2>3 DEF Tells
<1>4. F \in [(1..L) \X Seq(Nat) -> Seq(Nat)]
      /\ \A n \in 1..L, p \in Seq(Nat) : F[<<n, p>>] = Tells(p, q[n])
  BY <1>3
<1> HIDE DEF F
<1>5. PICK g : Iterates(g, L, Seq(Nat), <<>>, F)
  BY <1>2, <1>4, Recursion, Zenon
<1>6. g \in [0..L -> Seq(Nat)] /\ g[0] = <<>> /\ \A n \in 1..L : g[n] = F[<<n, g[n - 1]>>]
  BY <1>5 DEF Iterates
<1>7. ASSUME NEW n \in 1..L PROVE g[n] = Tells(g[n - 1], q[n]) /\ n - 1 \in 0..L /\ n \in 0..L /\ n # 0
  <2>1. n - 1 \in 0..L /\ n \in 0..L /\ n # 0
    BY <1>2
  <2>2. g[n - 1] \in Seq(Nat)
    BY <1>6, <2>1
  <2>3. F[<<n, g[n - 1]>>] = Tells(g[n - 1], q[n])
    BY <1>4, <2>2
  <2>4. QED
    BY <1>6, <2>1, <2>3
<1>8. Rec(g)
  <2>1. ASSUME NEW n \in 0..L PROVE g[n] = IF n = 0 THEN <<>> ELSE Tells(g[n - 1], q[n])
    <3>1. n # 0 => n \in 1..L
      BY <1>2
    <3>2. QED
      BY <1>6, <1>7, <3>1
  <2>2. QED
    BY <1>6, <2>1
<1> DEFINE h == CHOOSE f : Rec(f)
<1>9. Rec(h)
  <2> HIDE DEF Rec
  <2>1. QED
    BY <1>8, Zenon
<1>10. Texts(q) = h[L]
  BY DEF Texts, Tells
<1> HIDE DEF h
<1>11. ASSUME NEW n \in 0..L PROVE h[n] = IF n = 0 THEN <<>> ELSE Tells(h[n - 1], q[n])
  BY <1>9
<1>12. DOMAIN h = 0..L /\ h = [n \in 0..L |-> h[n]]
  BY <1>9
<1> HIDE DEF Rec
<1> DEFINE Good == {n \in 0..L : h[n] \in Seq(Nat)}
<1>13. h[0] = <<>> /\ 0 \in Good
  <2>1. 0 \in 0..L
    BY <1>2
  <2>2. h[0] = <<>>
    BY <1>11, <2>1
  <2>3. QED
    BY <1>2, <2>1, <2>2
<1>14. ASSUME NEW n \in 1..L PROVE h[n] = Tells(h[n - 1], q[n])
  BY <1>7, <1>11
<1>15. ASSUME NEW n \in 1..L, n - 1 \in Good PROVE n \in Good
  BY <1>3, <1>7, <1>14, <1>15
<1>16. 0..L \subseteq Good
  <2> HIDE DEF Good
  <2>1. QED
    BY <1>2, <1>13, <1>15, Segment
<1>17. h \in [0..L -> Seq(Nat)]
  BY <1>12, <1>16
<1>18. QED
  BY <1>10, <1>13, <1>14, <1>17

LEMMA TellsAfter ==
  ASSUME NEW x \in Seq(Nat), NEW y \in Seq(Nat), NEW r \in ScreenRows
  PROVE  Tells(x \o y, r) = x \o Tells(y, r)
<1>1. PICK o \in Nat : o = r.own
  BY DEF ScreenRows
<1>2. Append(x \o y, o) = x \o Append(y, o)
  <2>1. <<o>> \in Seq(Nat) /\ x \o y \in Seq(Nat)
    OBVIOUS
  <2>2. Append(x \o y, o) = (x \o y) \o <<o>> /\ Append(y, o) = y \o <<o>>
    BY <2>1, AppendIsConcat
  <2>3. (x \o y) \o <<o>> = x \o (y \o <<o>>)
    BY <2>1, ConcatAssociative
  <2>4. QED
    BY <2>2, <2>3
<1>3. QED
  BY <1>1, <1>2 DEF Tells

LEMMA TextsNat == ASSUME NEW q \in Seq(ScreenRows) PROVE Texts(q) \in Seq(Nat)
<1>1. PICK h \in [0..Len(q) -> Seq(Nat)] : Texts(q) = h[Len(q)]
  BY ToldRun
<1>2. Len(q) \in 0..Len(q)
  OBVIOUS
<1>3. QED
  BY <1>1, <1>2

LEMMA TextsJoin ==
  ASSUME NEW a \in Seq(ScreenRows), NEW b \in Seq(ScreenRows)
  PROVE  Texts(a \o b) = Texts(a) \o Texts(b)
<1>1. PICK c \in Seq(ScreenRows) : c = a \o b
  BY RowsJoin
<1>2. PICK A \in Nat, B \in Nat : A = Len(a) /\ B = Len(b)
  OBVIOUS
<1>3. Len(c) = A + B /\ (\A i \in 1..A : c[i] = a[i]) /\ \A i \in 1..B : c[A + i] = b[i]
  BY <1>1, <1>2, RowsJoin
<1>4. PICK f \in [0..A -> Seq(Nat)] : f[0] = <<>> /\ (\A n \in 1..A : f[n] = Tells(f[n - 1], a[n])) /\ Texts(a) = f[A]
  BY <1>2, ToldRun
<1>5. PICK g \in [0..B -> Seq(Nat)] : g[0] = <<>> /\ (\A n \in 1..B : g[n] = Tells(g[n - 1], b[n])) /\ Texts(b) = g[B]
  BY <1>2, ToldRun
<1>6. PICK h \in [0..(A + B) -> Seq(Nat)] : h[0] = <<>> /\ (\A n \in 1..(A + B) : h[n] = Tells(h[n - 1], c[n])) /\ Texts(c) = h[A + B]
  BY <1>3, ToldRun
<1> DEFINE Same == {n \in 0..A : h[n] = f[n]}
<1>7. 0 \in Same
  BY <1>4, <1>6
<1>8. ASSUME NEW n \in 1..A, n - 1 \in Same PROVE n \in Same
  <2>1. n \in 1..(A + B) /\ n \in 0..A /\ h[n - 1] = f[n - 1]
    BY <1>8
  <2>2. h[n] = Tells(f[n - 1], a[n])
    BY <1>3, <1>6, <2>1
  <2>3. QED
    BY <1>4, <2>1, <2>2
<1>9. 0..A \subseteq Same
  <2> HIDE DEF Same
  <2>1. QED
    BY <1>7, <1>8, Segment
<1>10. PICK t \in Seq(Nat) : t = f[A] /\ h[A] = t
  <2>1. A \in 0..A
    OBVIOUS
  <2>2. QED
    BY <1>4, <1>9, <2>1
<1> DEFINE On == {n \in 0..B : h[A + n] = t \o g[n]}
<1>11. 0 \in On
  <2>1. A + 0 = A /\ 0 \in 0..B
    OBVIOUS
  <2>2. t \o <<>> = t
    BY ConcatEmptySeq
  <2>3. QED
    BY <1>5, <1>10, <2>1, <2>2
<1>12. ASSUME NEW n \in 1..B, n - 1 \in On PROVE n \in On
  <2>1. A + n \in 1..(A + B) /\ n \in 0..B /\ n - 1 \in 0..B /\ (A + n) - 1 = A + (n - 1) /\ h[A + (n - 1)] = t \o g[n - 1]
    <3>1. A + n \in 1..(A + B) /\ n \in 0..B /\ n - 1 \in 0..B /\ (A + n) - 1 = A + (n - 1)
      OBVIOUS
    <3>2. h[A + (n - 1)] = t \o g[n - 1]
      BY <1>12, Zenon
    <3>3. QED
      BY <3>1, <3>2
  <2>2. PICK x \in Seq(Nat), r \in ScreenRows : x = g[n - 1] /\ r = b[n]
    BY <1>2, <1>5, <2>1, ElementOfSeq
  <2>3. h[A + n] = Tells(t \o x, r)
    <3>1. c[A + n] = r
      BY <1>3, <2>2
    <3>2. h[A + n] = Tells(h[(A + n) - 1], c[A + n])
      BY <1>6, <2>1
    <3>3. QED
      BY <2>1, <2>2, <3>1, <3>2
  <2>4. g[n] = Tells(x, r)
    BY <1>5, <2>2
  <2>5. Tells(t \o x, r) = t \o Tells(x, r)
    BY TellsAfter
  <2>6. QED
    BY <2>1, <2>3, <2>4, <2>5
<1>13. 0..B \subseteq On
  <2> HIDE DEF On
  <2>1. QED
    BY <1>11, <1>12, Segment
<1>14. h[A + B] = t \o g[B]
  <2>1. B \in 0..B
    OBVIOUS
  <2>2. QED
    BY <1>13, <2>1
<1>15. QED
  BY <1>1, <1>4, <1>5, <1>6, <1>10, <1>14

NoText(q) == \A i \in 1..Len(q) : q[i].part # "text"
LEMMA TextsMute ==
  ASSUME NEW q \in Seq(ScreenRows), NoText(q) PROVE Texts(q) = <<>>
<1>1. PICK L \in Nat : L = Len(q)
  OBVIOUS
<1>2. PICK h \in [0..L -> Seq(Nat)] : h[0] = <<>> /\ (\A n \in 1..L : h[n] = Tells(h[n - 1], q[n])) /\ Texts(q) = h[L]
  BY <1>1, ToldRun
<1> DEFINE Mute == {n \in 0..L : h[n] = <<>>}
<1>3. 0 \in Mute
  BY <1>2
<1>4. ASSUME NEW n \in 1..L, n - 1 \in Mute PROVE n \in Mute
  <2>1. h[n] = Tells(<<>>, q[n]) /\ q[n].part # "text" /\ n \in 0..L
    BY <1>1, <1>2, <1>4 DEF NoText
  <2>2. QED
    BY <2>1 DEF Tells
<1>5. 0..L \subseteq Mute
  <2> HIDE DEF Mute
  <2>1. QED
    BY <1>3, <1>4, Segment
<1>6. QED
  BY <1>2, <1>5

LEMMA OneRow == ASSUME NEW r \in ScreenRows PROVE <<r>> \in Seq(ScreenRows) /\ Len(<<r>>) = 1 /\ <<r>>[1] = r
OBVIOUS

LEMMA TextsOne == ASSUME NEW o \in Nat PROVE Texts(<<Row(o, "text")>>) = <<o>>
<1>1. PICK q \in Seq(ScreenRows) : q = <<Row(o, "text")>>
  <2>1. Row(o, "text") \in ScreenRows
    BY DEF RowParts, Row, ScreenRows
  <2>2. <<Row(o, "text")>> \in Seq(ScreenRows)
    BY <2>1, OneRow
  <2>3. QED
    BY <2>2
<1>2. Len(q) = 1 /\ q[1].part = "text" /\ q[1].own = o
  BY <1>1 DEF Row
<1>3. PICK h \in [0..1 -> Seq(Nat)] : h[0] = <<>> /\ (\A n \in 1..1 : h[n] = Tells(h[n - 1], q[n])) /\ Texts(q) = h[1]
  BY <1>2, ToldRun
<1>4. h[1] = Tells(<<>>, q[1])
  <2>1. 1 \in 1..1 /\ 1 - 1 = 0
    OBVIOUS
  <2>2. QED
    BY <1>3, <2>1
<1>5. QED
  BY <1>1, <1>2, <1>3, <1>4 DEF Tells

LEMMA TextsSplice ==
  ASSUME NEW q \in Seq(ScreenRows), NEW new \in Seq(ScreenRows), NEW s \in Nat \ {0}, NEW l \in Nat, s + l <= Len(q) + 1
  PROVE  Texts(splice(q, s, l, new)) = Texts(SubSeq(q, 1, s - 1)) \o Texts(new) \o Texts(SubSeq(q, s + l, Len(q)))
<1>1. PICK a \in Seq(ScreenRows) : a = SubSeq(q, 1, s - 1)
  <2>1. \A i \in 1..(s - 1) : q[i] \in ScreenRows
    BY ElementOfSeq
  <2>2. 1 \in Int /\ s - 1 \in Int
    OBVIOUS
  <2>3. SubSeq(q, 1, s - 1) \in Seq(ScreenRows)
    BY <2>1, <2>2, SubSeqProperties
  <2>4. QED
    BY <2>3
<1>2. PICK b \in Seq(ScreenRows) : b = SubSeq(q, s + l, Len(q))
  <2>1. \A i \in (s + l)..Len(q) : q[i] \in ScreenRows
    BY ElementOfSeq
  <2>2. s + l \in Int /\ Len(q) \in Int
    OBVIOUS
  <2>3. SubSeq(q, s + l, Len(q)) \in Seq(ScreenRows)
    BY <2>1, <2>2, SubSeqProperties
  <2>4. QED
    BY <2>3
<1>3. PICK c \in Seq(ScreenRows) : c = a \o new
  BY RowsJoin
<1>4. Texts(c) = Texts(a) \o Texts(new)
  BY <1>3, TextsJoin
<1>5. Texts(c \o b) = Texts(c) \o Texts(b)
  BY TextsJoin
<1>6. QED
  BY <1>1, <1>2, <1>3, <1>4, <1>5 DEF splice

\* Rows that tell nothing may come and go.
LEMMA TextsKept ==
  ASSUME NEW q \in Seq(ScreenRows), NEW new \in Seq(ScreenRows), NEW s \in Nat \ {0}, NEW l \in Nat, s + l <= Len(q) + 1,
         NoText(new), \A i \in s..(s + l - 1) : q[i].part # "text"
  PROVE  Texts(splice(q, s, l, new)) = Texts(q)
<1>1. PICK L \in Nat : L = Len(q)
  OBVIOUS
<1>2. PICK m : m = SubSeq(q, s, s + l - 1)
  OBVIOUS
<1>3. m \in Seq(ScreenRows) /\ Len(m) = l /\ \A i \in 1..l : m[i] = q[s + i - 1]
  <2>1. s \in 1..(L + 1) /\ s + l - 1 \in (s - 1)..L /\ (s + l - 1) - s + 1 = l
    BY <1>1
  <2>2. m \in Seq(ScreenRows) /\ Len(m) = (s + l - 1) - s + 1
    BY <1>1, <1>2, <2>1, SubSeqProperties
  <2>3. \A i \in 1..((s + l - 1) - s + 1) : m[i] = q[s + i - 1]
    BY <1>1, <1>2, <2>1, SubSeqProperties
  <2>4. QED
    BY <2>1, <2>2, <2>3
<1>4. splice(q, s, l, m) = q
  <2>1. PICK p : p = splice(q, s, l, m)
    OBVIOUS
  <2>2. CutAt(p, q, s, l, m)
    BY <1>3, <2>1, Spliced
  <2>3. p \in Seq(ScreenRows) /\ Len(p) = L
    BY <1>1, <1>3, <2>2 DEF CutAt
  <2>4. ASSUME NEW i \in 1..L PROVE p[i] = q[i]
    <3>1. CASE i < s
      BY <2>2, <3>1 DEF CutAt
    <3>2. CASE i >= s /\ i < s + l
      <4>1. PICK k \in 1..l : k = (i - s) + 1
        BY <3>2
      <4>2. (s - 1) + k = i /\ s + k - 1 = i
        BY <4>1
      <4>3. p[(s - 1) + k] = m[k]
        BY <1>3, <2>2 DEF CutAt
      <4>4. m[k] = q[s + k - 1]
        BY <1>3
      <4>5. QED
        BY <4>2, <4>3, <4>4
    <3>3. CASE i >= s + l
      <4>1. i \in (s + l)..L /\ (i - l) + l = i
        BY <3>3
      <4>2. p[(i - l) + l] = q[i]
        BY <1>1, <1>3, <2>2, <4>1 DEF CutAt
      <4>3. QED
        BY <4>1, <4>2
    <3>4. QED
      BY <3>1, <3>2, <3>3
  <2>5. p = q
    BY <1>1, <2>3, <2>4, SeqEqual
  <2>6. QED
    BY <2>1, <2>5
<1>5. NoText(m)
  <2>1. ASSUME NEW i \in 1..l PROVE m[i].part # "text"
    <3>1. s + i - 1 \in s..(s + l - 1)
      OBVIOUS
    <3>2. QED
      BY <1>3, <3>1
  <2>2. QED
    BY <1>3, <2>1 DEF NoText
<1>6. Texts(m) = Texts(new)
  BY <1>3, <1>5, TextsMute
<1>7. Texts(splice(q, s, l, m)) = Texts(splice(q, s, l, new))
  <2>1. Texts(splice(q, s, l, m)) = Texts(SubSeq(q, 1, s - 1)) \o Texts(m) \o Texts(SubSeq(q, s + l, Len(q)))
    BY <1>3, TextsSplice
  <2>2. Texts(splice(q, s, l, new)) = Texts(SubSeq(q, 1, s - 1)) \o Texts(new) \o Texts(SubSeq(q, s + l, Len(q)))
    BY TextsSplice
  <2>3. QED
    BY <1>6, <2>1, <2>2
<1>8. QED
  BY <1>4, <1>7

-----------------------------------------------------------------------------
(* Rows added at the end.                                                  *)

Without(q, o) == \A i \in 1..Len(q) : q[i].own # o
\* An owner that has no row has no block and no live call.
LEMMA NotAround ==
  ASSUME NEW q \in Seq(ScreenRows), NEW o \in Nat, Without(q, o), NEW n \in Nat,
         NEW bs \in SUBSET ScreenBlocks, BlocksFit(q, bs, n), NEW calls \in Lives, LivesFit(q, calls, n)
  PROVE  (\A p : PosOf(q, Row(o, p)) = {}) /\ (\A b \in bs : b.own # o) /\ \A c \in DOMAIN calls : calls[c].own # o
<1>1. ASSUME NEW p PROVE PosOf(q, Row(o, p)) = {}
  <2>1. Row(o, p).own = o
    BY DEF Row
  <2>2. QED
    BY <2>1 DEF PosOf, Without
<1>2. ASSUME NEW b \in bs PROVE b.own # o
  <2>1. b.row \in PosOf(q, Row(b.own, "sum"))
    BY DEF BlocksFit, BlockFit
  <2>2. QED
    BY <1>1, <2>1
<1>3. ASSUME NEW c \in DOMAIN calls PROVE calls[c].own # o
  <2>1. PICK x \in LiveRecs : x = calls[c]
    BY LiveTyped
  <2>2. PICK a \in Nat, len \in Nat : a = x.start /\ len = x.len
    BY DEF LiveRecs
  <2>3. len >= 1 /\ PosOf(q, Row(x.own, "call")) = a..(a + len - 1)
    BY <2>1, <2>2 DEF LivesFit, LiveFit
  <2>4. a \in PosOf(q, Row(x.own, "call"))
    BY <2>3
  <2>5. QED
    BY <1>1, <2>1, <2>4
<1>4. QED
  BY <1>1, <1>2, <1>3

Plain(r) == r.part \notin {"sum", "body", "call"}
LEMMA RowsGrown ==
  ASSUME NEW q \in Seq(ScreenRows), NEW new \in Seq(ScreenRows), NEW n \in Nat, NEW m \in Nat, n <= m,
         NEW bs \in SUBSET ScreenBlocks, BlocksFit(q, bs, n), NEW calls \in Lives, LivesFit(q, calls, n),
         NEW o \in Nat, Without(q, o), \A i \in 1..Len(new) : Plain(new[i]) \/ new[i].own = o
  PROVE  /\ q \o new \in Seq(ScreenRows) /\ BlocksFit(q \o new, bs, m) /\ LivesFit(q \o new, calls, m)
         /\ \A p : \A i \in Int : i \in PosOf(q \o new, Row(o, p)) <=> i - Len(q) \in PosOf(new, Row(o, p))
<1>1. (\A p : PosOf(q, Row(o, p)) = {}) /\ (\A b \in bs : b.own # o) /\ \A c \in DOMAIN calls : calls[c].own # o
  BY NotAround
<1>2. ASSUME NEW x, x # o PROVE Foreign(new, {x})
  BY <1>2 DEF Foreign, Plain
<1>3. BlocksFit(q \o new, bs, m)
  <2>1. BlocksFit(q, bs, m)
    BY BlocksMore
  <2>2. QED
    BY <1>1, <1>2, <2>1, AppendBlocks
<1>4. LivesFit(q \o new, calls, m)
  <2>1. LivesFit(q, calls, m)
    BY LivesMore
  <2>2. QED
    BY <1>1, <1>2, <2>1, AppendLives
<1>5. ASSUME NEW p, NEW i \in Int PROVE i \in PosOf(q \o new, Row(o, p)) <=> i - Len(q) \in PosOf(new, Row(o, p))
  <2>1. PICK s \in Nat \ {0} : s = Len(q) + 1 /\ s + 0 <= Len(q) + 1 /\ s - 1 = Len(q)
    OBVIOUS
  <2>2. i \in PosOf(splice(q, s, 0, new), Row(o, p)) <=> i - (s - 1) \in PosOf(new, Row(o, p))
    BY <1>1, <2>1, PosNew
  <2>3. QED
    BY <2>1, <2>2, RowsJoined
<1>6. QED
  BY <1>3, <1>4, <1>5, RowsJoin

LEMMA JoinedFrom ==
  ASSUME NEW q \in Seq(ScreenRows), NEW new \in Seq(ScreenRows)
  PROVE  From(q \o new, q, new)
<1>1. PICK s \in Nat \ {0} : s = Len(q) + 1 /\ s + 0 <= Len(q) + 1
  OBVIOUS
<1>2. From(splice(q, s, 0, new), q, new)
  BY <1>1, SplicedFrom
<1>3. QED
  BY <1>1, <1>2, RowsJoined

LEMMA TwoRows == ASSUME NEW s \in ScreenRows, NEW b \in ScreenRows PROVE <<s>> \o <<b>> = <<s, b>>
<1> DEFINE x == <<s>>
           y == <<b>>
           z == <<s, b>>
<1>1. x \in Seq(ScreenRows) /\ y \in Seq(ScreenRows) /\ z \in Seq(ScreenRows)
  OBVIOUS
<1>2. Len(x) = 1 /\ Len(y) = 1 /\ Len(z) = 2 /\ x[1] = s /\ y[1] = b /\ z[1] = s /\ z[2] = b
  OBVIOUS
<1> HIDE DEF x, y, z
<1>3. PICK c \in Seq(ScreenRows) : c = x \o y
  BY <1>1, RowsJoin
<1>4. Len(c) = 2 /\ c[1] = s /\ c[2] = b
  <2>1. Len(c) = Len(x) + Len(y) /\ (\A i \in 1..Len(x) : c[i] = x[i]) /\ \A i \in 1..Len(y) : c[Len(x) + i] = y[i]
    BY <1>1, <1>3, RowsJoin
  <2>2. QED
    BY <1>2, <2>1
<1>5. \A i \in 1..2 : c[i] = z[i]
  BY <1>2, <1>4
<1>6. c = z
  BY <1>1, <1>2, <1>4, <1>5, SeqEqual
<1>7. QED
  BY <1>3, <1>6 DEF x, y, z

LEMMA ThreeRows ==
  ASSUME NEW s \in ScreenRows, NEW b \in ScreenRows, NEW t \in ScreenRows PROVE <<s, b>> \o <<t>> = <<s, b, t>>
<1> DEFINE x == <<s, b>>
           y == <<t>>
           z == <<s, b, t>>
<1>1. x \in Seq(ScreenRows) /\ y \in Seq(ScreenRows) /\ z \in Seq(ScreenRows)
  OBVIOUS
<1>2. Len(x) = 2 /\ Len(y) = 1 /\ Len(z) = 3 /\ x[1] = s /\ x[2] = b /\ y[1] = t /\ z[1] = s /\ z[2] = b /\ z[3] = t
  OBVIOUS
<1> HIDE DEF x, y, z
<1>3. PICK c \in Seq(ScreenRows) : c = x \o y
  BY <1>1, RowsJoin
<1>4. Len(c) = 3 /\ c[1] = s /\ c[2] = b /\ c[3] = t
  <2>1. Len(c) = Len(x) + Len(y) /\ (\A i \in 1..Len(x) : c[i] = x[i]) /\ \A i \in 1..Len(y) : c[Len(x) + i] = y[i]
    BY <1>1, <1>3, RowsJoin
  <2>2. QED
    BY <1>2, <2>1
<1>5. \A i \in 1..3 : c[i] = z[i]
  BY <1>2, <1>4
<1>6. c = z
  BY <1>1, <1>2, <1>4, <1>5, SeqEqual
<1>7. QED
  BY <1>3, <1>6 DEF x, y, z

\* What is streamed, as it will be left.
LEMMA LiveParts ==
  ASSUME NEW w, w.text \in Nat, w.thought \in Nat
  PROVE  /\ w.thought = 0 /\ w.text = 0 => parse_live(w) = <<>>
         /\ w.thought = 0 /\ w.text # 0 => parse_live(w) = <<Row(w.text, "text")>>
         /\ w.thought # 0 /\ w.text = 0 => parse_live(w) = <<Row(w.thought, "sum")>>
         /\ w.thought # 0 /\ w.text # 0 => parse_live(w) = <<Row(w.thought, "sum"), Row(0, "blank"), Row(w.text, "text")>>
         /\ parse_live(w) \in Seq(ScreenRows)
<1>1. PICK t, s, b : t = Row(w.text, "text") /\ s = Row(w.thought, "sum") /\ b = Row(0, "blank")
  OBVIOUS
<1>2. t \in ScreenRows /\ s \in ScreenRows /\ b \in ScreenRows
  BY <1>1 DEF Row, ScreenRows, RowParts
<1>3. parse_live(w) = (IF w.thought = 0 THEN <<>> ELSE <<s>>) \o (IF w.thought # 0 /\ w.text # 0 THEN <<b>> ELSE <<>>)
                        \o (IF w.text = 0 THEN <<>> ELSE <<t>>)
  BY <1>1 DEF parse_live
<1>4. w.thought = 0 /\ w.text = 0 => parse_live(w) = <<>>
  BY <1>3
<1>5. w.thought = 0 /\ w.text # 0 => parse_live(w) = <<t>>
  BY <1>3
<1>6. w.thought # 0 /\ w.text = 0 => parse_live(w) = <<s>>
  BY <1>3
<1>7. w.thought # 0 /\ w.text # 0 => parse_live(w) = <<s, b, t>>
  <2>1. <<s>> \o <<b>> = <<s, b>>
    BY <1>2, TwoRows
  <2>2. <<s, b>> \o <<t>> = <<s, b, t>>
    BY <1>2, ThreeRows
  <2>3. QED
    BY <1>3, <2>1, <2>2
<1>8. <<>> \in Seq(ScreenRows) /\ <<t>> \in Seq(ScreenRows) /\ <<s>> \in Seq(ScreenRows) /\ <<s, b, t>> \in Seq(ScreenRows)
  BY <1>2
<1>9. QED
  BY <1>1, <1>4, <1>5, <1>6, <1>7, <1>8

ShownTexts(w) == Texts(w.rows) \o (IF w.text = 0 THEN <<>> ELSE <<w.text>>)

\* What differs between two views is their rows, blocks, live calls and next owner.
LEMMA ViewFields ==
  ASSUME NEW w \in Views
  PROVE  /\ w.rows \in Seq(ScreenRows) /\ w.blocks \in SUBSET ScreenBlocks /\ w.live \in Lives
         /\ w.text \in Nat /\ w.thought \in Nat /\ w.running \in Nat /\ w.next \in Nat
         /\ w.busy \in BOOLEAN /\ w.started \in BOOLEAN
BY DEF Views

LEMMA FlushRows ==
  ASSUME NEW w \in Views
  PROVE  /\ flush_text(w).rows = w.rows \o parse_live(w)
         /\ flush_text(w) = [w EXCEPT !.rows = w.rows \o parse_live(w),
              !.blocks = IF w.thought = 0 THEN @ ELSE @ \cup {Block(w.thought, "thought", Len(w.rows) + 1, Body)},
              !.text = 0, !.thought = 0]
<1> DEFINE s == IF w.thought = 0 THEN <<>> ELSE <<Row(w.thought, "sum")>>
           g == IF w.thought # 0 /\ w.text # 0 THEN <<Row(0, "blank")>> ELSE <<>>
           a == IF w.text = 0 THEN <<>> ELSE <<Row(w.text, "text")>>
           bk == {Block(w.thought, "thought", Len(w.rows) + 1, Body) : x \in {y \in {w.thought} : y # 0}}
<1>1. Row(w.thought, "sum") \in ScreenRows /\ Row(0, "blank") \in ScreenRows /\ Row(w.text, "text") \in ScreenRows
  BY DEF Row, ScreenRows, RowParts, Views
<1>2. s \in Seq(ScreenRows) /\ g \in Seq(ScreenRows) /\ a \in Seq(ScreenRows)
  <2>1. <<>> \in Seq(ScreenRows)
    OBVIOUS
  <2>2. QED
    BY <1>1, <2>1, OneRow
<1>3. flush_text(w) = [w EXCEPT !.rows = @ \o s \o g \o a, !.blocks = @ \cup bk, !.text = 0, !.thought = 0]
  BY DEF flush_text
<1>4. parse_live(w) = s \o g \o a
  BY DEF parse_live
<1>5. w.blocks \cup bk = IF w.thought = 0 THEN w.blocks ELSE w.blocks \cup {Block(w.thought, "thought", Len(w.rows) + 1, Body)}
  <2>1. w.thought = 0 => bk = {}
    OBVIOUS
  <2>2. w.thought # 0 => bk = {Block(w.thought, "thought", Len(w.rows) + 1, Body)}
    OBVIOUS
  <2>3. QED
    BY <2>1, <2>2
<1> HIDE DEF s, g, a, bk
<1>6. w.rows \o s \o g \o a = w.rows \o (s \o g \o a)
  <2>1. PICK q \in Seq(ScreenRows) : q = w.rows
    BY ViewFields
  <2>2. PICK sg \in Seq(ScreenRows) : sg = s \o g
    BY <1>2, RowsJoin
  <2>3. (q \o s) \o g = q \o sg
    BY <1>2, <2>2, ConcatAssociative
  <2>4. (q \o sg) \o a = q \o (sg \o a)
    <3>1. PICK x \in Seq(ScreenRows) : x = a
      BY <1>2
    <3>2. (q \o sg) \o x = q \o (sg \o x)
      BY ConcatAssociative
    <3>3. QED
      BY <3>1, <3>2
  <2>5. QED
    BY <2>1, <2>2, <2>3, <2>4
<1>7. flush_text(w) = [w EXCEPT !.rows = w.rows \o parse_live(w),
              !.blocks = IF w.thought = 0 THEN @ ELSE @ \cup {Block(w.thought, "thought", Len(w.rows) + 1, Body)},
              !.text = 0, !.thought = 0]
  BY <1>3, <1>4, <1>5, <1>6
<1>8. QED
  BY <1>7 DEF Views

LEMMA LiveTexts ==
  ASSUME NEW w, w.text \in Nat, w.thought \in Nat
  PROVE  Texts(parse_live(w)) = IF w.text = 0 THEN <<>> ELSE <<w.text>>
<1>1. PICK t, s, b : t = Row(w.text, "text") /\ s = Row(w.thought, "sum") /\ b = Row(0, "blank")
  OBVIOUS
<1>2. t \in ScreenRows /\ s \in ScreenRows /\ b \in ScreenRows /\ s.part # "text" /\ b.part # "text"
  BY <1>1 DEF Row, ScreenRows, RowParts
<1>3. <<s>> \in Seq(ScreenRows) /\ <<s, b>> \in Seq(ScreenRows) /\ <<t>> \in Seq(ScreenRows) /\ <<>> \in Seq(ScreenRows)
  BY <1>2
<1>4. NoText(<<>>) /\ NoText(<<s>>) /\ NoText(<<s, b>>)
  BY <1>2 DEF NoText
<1>5. Texts(<<>>) = <<>> /\ Texts(<<s>>) = <<>> /\ Texts(<<s, b>>) = <<>>
  BY <1>3, <1>4, TextsMute
<1>6. Texts(<<t>>) = <<w.text>>
  BY <1>1, TextsOne
<1>7. Texts(<<s, b, t>>) = <<w.text>>
  <2>1. Texts(<<s, b>> \o <<t>>) = Texts(<<s, b>>) \o Texts(<<t>>)
    BY <1>3, TextsJoin
  <2>2. <<>> \o <<w.text>> = <<w.text>>
    OBVIOUS
  <2>3. QED
    BY <1>2, <1>5, <1>6, <2>1, <2>2, ThreeRows
<1>8. QED
  BY <1>1, <1>5, <1>6, <1>7, LiveParts

LEMMA FlushFits ==
  ASSUME NEW w, ViewFits(w)
  PROVE  /\ ViewFits(flush_text(w)) /\ flush_text(w).text = 0 /\ flush_text(w).thought = 0
         /\ flush_text(w).next = w.next /\ flush_text(w).live = w.live /\ flush_text(w).busy = w.busy
         /\ flush_text(w).rows = w.rows \o parse_live(w) /\ Texts(flush_text(w).rows) = ShownTexts(w)
<1>1. PICK q \in Seq(ScreenRows), n \in Nat, bs \in SUBSET ScreenBlocks, calls \in Lives, text \in Nat, th \in Nat :
        q = w.rows /\ n = w.next /\ bs = w.blocks /\ calls = w.live /\ text = w.text /\ th = w.thought
  BY DEF ViewFits, Views
<1>2. w \in Views /\ BlocksFit(q, bs, n) /\ LivesFit(q, calls, n) /\ OwnersFit(q, text, th, n)
  BY <1>1 DEF ViewFits
<1>3. PICK new \in Seq(ScreenRows) : new = parse_live(w)
  BY <1>1, LiveParts
<1>4. PICK p : p = q \o new
  OBVIOUS
<1>5. PICK o \in Nat : o = IF th = 0 THEN n ELSE th
  OBVIOUS
<1>6. Without(q, o)
  <2>1. \A i \in 1..Len(q) : q[i] \in ScreenRows /\ q[i].own \in Nat
    BY RowAt
  <2>2. QED
    BY <1>2, <1>5, <2>1 DEF Without, OwnersFit
<1>7. /\ th = 0 /\ text = 0 => new = <<>>
      /\ th = 0 /\ text # 0 => new = <<Row(text, "text")>>
      /\ th # 0 /\ text = 0 => new = <<Row(th, "sum")>>
      /\ th # 0 /\ text # 0 => new = <<Row(th, "sum"), Row(0, "blank"), Row(text, "text")>>
  BY <1>1, <1>3, LiveParts
<1>8. \A i \in 1..Len(new) : (Plain(new[i]) \/ new[i].own = o) /\ new[i].own < n
  <2>1. 0 < n /\ th < n /\ text < n
    BY <1>2 DEF OwnersFit
  <2>2. CASE th = 0
    BY <1>5, <1>7, <2>1, <2>2 DEF Plain, Row
  <2>3. CASE th # 0
    BY <1>5, <1>7, <2>1, <2>3 DEF Plain, Row
  <2>4. QED
    BY <2>2, <2>3
<1>9. /\ p \in Seq(ScreenRows) /\ BlocksFit(p, bs, n) /\ LivesFit(p, calls, n)
      /\ \A x : \A i \in Int : i \in PosOf(p, Row(o, x)) <=> i - Len(q) \in PosOf(new, Row(o, x))
  <2>1. \A i \in 1..Len(new) : Plain(new[i]) \/ new[i].own = o
    BY <1>8
  <2>2. n <= n
    OBVIOUS
  <2>3. QED
    BY <1>2, <1>4, <1>6, <2>1, <2>2, RowsGrown
<1>10. OwnersFit(p, 0, 0, n)
  <2>1. ASSUME NEW i \in 1..Len(p) PROVE p[i].own < n
    <3>1. (\E k \in 1..Len(q) : p[i] = q[k]) \/ (\E k \in 1..Len(new) : p[i] = new[k])
      BY <1>4, JoinedFrom DEF From
    <3>2. QED
      BY <1>2, <1>8, <3>1 DEF OwnersFit
  <2>2. 0 < n
    BY <1>2 DEF OwnersFit
  <2>3. QED
    BY <2>1, <2>2 DEF OwnersFit
<1>11. PICK cs : cs = IF th = 0 THEN bs ELSE bs \cup {Block(th, "thought", Len(q) + 1, Body)}
  OBVIOUS
<1>0. PICK L \in Nat : L = Len(q)
  OBVIOUS
<1>12. cs \in SUBSET ScreenBlocks /\ BlocksFit(p, cs, n)
  <2>1. CASE th = 0
    BY <1>9, <1>11, <2>1
  <2>2. CASE th # 0
    <3>1. PICK b : b = Block(th, "thought", L + 1, Body) /\ cs = bs \cup {b}
      BY <1>0, <1>11, <2>2
    <3>2. b \in ScreenBlocks /\ b.own = th /\ b.row = L + 1 /\ b.open = FALSE
      BY <3>1, ScreenAssumption DEF Block, ScreenBlocks
    <3>3. PosOf(new, Row(th, "sum")) = {1} /\ PosOf(new, Row(th, "body")) = {}
      <4>1. CASE text = 0
        <5>1. new = <<Row(th, "sum")>>
          BY <1>7, <2>2, <4>1
        <5>2. QED
          BY <5>1 DEF PosOf, Row
      <4>2. CASE text # 0
        <5>1. new = <<Row(th, "sum"), Row(0, "blank"), Row(text, "text")>>
          BY <1>7, <2>2, <4>2
        <5>2. Len(new) = 3 /\ new[1] = Row(th, "sum") /\ new[2] = Row(0, "blank") /\ new[3] = Row(text, "text")
          BY <5>1
        <5>3. Row(0, "blank") # Row(th, "sum") /\ Row(text, "text") # Row(th, "sum") /\ Row(0, "blank") # Row(th, "body")
              /\ Row(text, "text") # Row(th, "body") /\ Row(th, "sum") # Row(th, "body")
          BY DEF Row
        <5>4. QED
          BY <5>2, <5>3 DEF PosOf
      <4>3. QED
        BY <4>1, <4>2
    <3>4. PosOf(p, Row(th, "sum")) = {L + 1} /\ PosOf(p, Row(th, "body")) = {}
      <4>1. PosOf(p, Row(th, "sum")) \subseteq Int /\ PosOf(p, Row(th, "body")) \subseteq Int
        BY DEF PosOf
      <4>2. \A i \in Int : (i \in PosOf(p, Row(th, "sum")) <=> i - L = 1) /\ i \notin PosOf(p, Row(th, "body"))
        BY <1>0, <1>5, <1>9, <2>2, <3>3
      <4>3. \A i \in Int : i - L = 1 <=> i = L + 1
        OBVIOUS
      <4>4. L + 1 \in Int
        OBVIOUS
      <4>5. QED
        BY <4>1, <4>2, <4>3, <4>4
    <3>5. BlockFit(p, b, n)
      BY <1>2, <3>2, <3>4 DEF BlockFit, OwnersFit
    <3>6. \A c \in bs : c.own # th
      BY <1>2, <1>5, <1>6, <2>2, NotAround
    <3>7. BlocksFit(p, bs \cup {b}, n)
      BY <1>9, <3>2, <3>5, <3>6, BlocksAdd
    <3>8. QED
      BY <3>1, <3>2, <3>7
  <2>3. QED
    BY <2>1, <2>2
<1>13. PICK f : f = flush_text(w)
  OBVIOUS
<1>14. f = [w EXCEPT !.rows = p, !.blocks = cs, !.text = 0, !.thought = 0]
  BY <1>1, <1>2, <1>3, <1>4, <1>11, <1>13, FlushRows
<1>15. /\ f \in Views /\ f.rows = p /\ f.blocks = cs /\ f.text = 0 /\ f.thought = 0
       /\ f.next = n /\ f.live = calls /\ f.busy = w.busy
  BY <1>1, <1>2, <1>9, <1>12, <1>14 DEF Views
<1>16. ViewFits(f)
  BY <1>9, <1>10, <1>12, <1>15 DEF ViewFits
<1>17. Texts(p) = ShownTexts(w)
  BY <1>1, <1>3, <1>4, LiveTexts, TextsJoin DEF ShownTexts
<1>18. QED
  BY <1>1, <1>3, <1>4, <1>13, <1>15, <1>16, <1>17

\* The rows of something new.
Later(new, n, m) == \A i \in 1..Len(new) : (new[i].own = 0 \/ new[i].own >= n) /\ new[i].own < m
LEMMA OwnersGrown ==
  ASSUME NEW q \in Seq(ScreenRows), NEW new \in Seq(ScreenRows), NEW n \in Nat, NEW m \in Nat, n <= m,
         NEW text \in Nat, NEW th \in Nat, OwnersFit(q, text, th, n), Later(new, n, m)
  PROVE  OwnersFit(q \o new, text, th, m)
<1>1. text < n /\ th < n /\ (text # 0 => text # th)
  BY DEF OwnersFit
<1>2. PICK p : p = q \o new
  OBVIOUS
<1>3. ASSUME NEW i \in 1..Len(p)
      PROVE  p[i].own < m /\ (text # 0 => p[i].own # text) /\ (th # 0 => p[i].own # th)
  <2>1. (\E k \in 1..Len(q) : p[i] = q[k]) \/ (\E k \in 1..Len(new) : p[i] = new[k])
    BY <1>2, JoinedFrom DEF From
  <2>2. ASSUME NEW k \in 1..Len(q), p[i] = q[k]
        PROVE  p[i].own < m /\ (text # 0 => p[i].own # text) /\ (th # 0 => p[i].own # th)
    <3>1. q[k].own \in Nat /\ q[k].own < n /\ (text # 0 => q[k].own # text) /\ (th # 0 => q[k].own # th)
      BY RowAt DEF OwnersFit
    <3>2. QED
      BY <2>2, <3>1
  <2>3. ASSUME NEW k \in 1..Len(new), p[i] = new[k]
        PROVE  p[i].own < m /\ (text # 0 => p[i].own # text) /\ (th # 0 => p[i].own # th)
    <3>1. new[k].own \in Nat /\ (new[k].own = 0 \/ new[k].own >= n) /\ new[k].own < m
      BY RowAt DEF Later
    <3>2. QED
      BY <1>1, <2>3, <3>1
  <2>4. QED
    BY <2>1, <2>2, <2>3
<1>4. QED
  BY <1>1, <1>2, <1>3 DEF OwnersFit

LEMMA NextUnseen ==
  ASSUME NEW q \in Seq(ScreenRows), NEW text, NEW th, NEW n \in Nat, OwnersFit(q, text, th, n) PROVE Without(q, n)
<1>1. \A i \in 1..Len(q) : q[i].own \in Nat /\ q[i].own < n
  BY RowAt DEF OwnersFit
<1>2. QED
  BY <1>1 DEF Without

LEMMA PlainFits ==
  ASSUME NEW w, ViewFits(w), NEW new \in Seq(ScreenRows), NEW m \in Nat, w.next <= m,
         \A i \in 1..Len(new) : Plain(new[i]), Later(new, w.next, m)
  PROVE  ViewFits([w EXCEPT !.rows = @ \o new, !.next = m])
<1>1. PICK q \in Seq(ScreenRows), n \in Nat, bs \in SUBSET ScreenBlocks, calls \in Lives, text \in Nat, th \in Nat :
        q = w.rows /\ n = w.next /\ bs = w.blocks /\ calls = w.live /\ text = w.text /\ th = w.thought
  BY DEF ViewFits, Views
<1>2. w \in Views /\ BlocksFit(q, bs, n) /\ LivesFit(q, calls, n) /\ OwnersFit(q, text, th, n) /\ n <= m /\ Later(new, n, m)
  BY <1>1 DEF ViewFits
<1>3. Without(q, n) /\ \A i \in 1..Len(new) : Plain(new[i]) \/ new[i].own = n
  BY <1>2, NextUnseen
<1>4. q \o new \in Seq(ScreenRows) /\ BlocksFit(q \o new, bs, m) /\ LivesFit(q \o new, calls, m)
  BY <1>2, <1>3, RowsGrown
<1>5. OwnersFit(q \o new, text, th, m)
  BY <1>2, OwnersGrown
<1>6. PICK u : u = [w EXCEPT !.rows = @ \o new, !.next = m]
  OBVIOUS
<1>7. u \in Views /\ u.rows = q \o new /\ u.next = m /\ u.blocks = bs /\ u.live = calls /\ u.text = text /\ u.thought = th
  BY <1>1, <1>2, <1>4, <1>6 DEF Views
<1>8. QED
  BY <1>4, <1>5, <1>6, <1>7 DEF ViewFits

\* A failed call that was never shown.
LEMMA ToolBlockFits ==
  ASSUME NEW w, ViewFits(w)
  PROVE  /\ ViewFits(push_tool_block(w)) /\ Texts(push_tool_block(w).rows) = Texts(w.rows)
         /\ push_tool_block(w).text = w.text /\ push_tool_block(w).thought = w.thought
         /\ push_tool_block(w).busy = w.busy
<1>1. PICK q \in Seq(ScreenRows), n \in Nat, bs \in SUBSET ScreenBlocks, calls \in Lives, text \in Nat, th \in Nat :
        q = w.rows /\ n = w.next /\ bs = w.blocks /\ calls = w.live /\ text = w.text /\ th = w.thought
  BY DEF ViewFits, Views
<1>2. w \in Views /\ BlocksFit(q, bs, n) /\ LivesFit(q, calls, n) /\ OwnersFit(q, text, th, n) /\ n <= n + 1 /\ n + 1 \in Nat
  BY <1>1 DEF ViewFits
<1>3. PICK r \in ScreenRows : r = Row(n, "sum") /\ r.own = n /\ r.part = "sum"
  <2>1. Row(n, "sum") \in ScreenRows /\ Row(n, "sum").own = n /\ Row(n, "sum").part = "sum"
    BY DEF Row, ScreenRows, RowParts
  <2>2. QED
    BY <2>1
<1> DEFINE new == <<r>>
<1>4. new \in Seq(ScreenRows) /\ Len(new) = 1 /\ new[1] = r
  OBVIOUS
<1>5. q \o new = Append(q, r)
  BY AppendIsConcat
<1> HIDE DEF new
<1>6. Without(q, n) /\ (\A i \in 1..Len(new) : Plain(new[i]) \/ new[i].own = n) /\ Later(new, n, n + 1) /\ NoText(new)
  BY <1>2, <1>3, <1>4, NextUnseen DEF Later, NoText
<1>7. PICK p : p = q \o new
  OBVIOUS
<1>8. /\ p \in Seq(ScreenRows) /\ BlocksFit(p, bs, n + 1) /\ LivesFit(p, calls, n + 1)
      /\ \A x : \A i \in Int : i \in PosOf(p, Row(n, x)) <=> i - Len(q) \in PosOf(new, Row(n, x))
  BY <1>2, <1>4, <1>6, <1>7, RowsGrown
<1>9. OwnersFit(p, text, th, n + 1)
  BY <1>2, <1>4, <1>6, <1>7, OwnersGrown
<1>10. PICK L \in Nat : L = Len(q)
  OBVIOUS
<1>11. PICK b : b = Block(n, "tool", L + 1, 1)
  OBVIOUS
<1>12. b \in ScreenBlocks /\ b.own = n /\ b.row = L + 1 /\ b.open = FALSE
  BY <1>11 DEF Block, ScreenBlocks
<1>13. PosOf(p, Row(n, "sum")) = {L + 1} /\ PosOf(p, Row(n, "body")) = {}
  <2>1. PosOf(new, Row(n, "sum")) = {1} /\ PosOf(new, Row(n, "body")) = {}
    BY <1>3, <1>4 DEF PosOf, Row
  <2>2. PosOf(p, Row(n, "sum")) \subseteq Int /\ PosOf(p, Row(n, "body")) \subseteq Int
    BY DEF PosOf
  <2>3. \A i \in Int : (i \in PosOf(p, Row(n, "sum")) <=> i - L = 1) /\ i \notin PosOf(p, Row(n, "body"))
    BY <1>8, <1>10, <2>1
  <2>4. L + 1 \in Int /\ \A i \in Int : i - L = 1 <=> i = L + 1
    OBVIOUS
  <2>5. QED
    BY <2>2, <2>3, <2>4
<1>14. BlocksFit(p, bs \cup {b}, n + 1)
  <2>1. BlockFit(p, b, n + 1)
    BY <1>12, <1>13 DEF BlockFit
  <2>2. \A c \in bs : c.own # n
    BY <1>2, <1>6, NotAround
  <2>3. QED
    BY <1>8, <1>12, <2>1, <2>2, BlocksAdd
<1>15. PICK u : u = push_tool_block(w)
  OBVIOUS
<1>16. u = [w EXCEPT !.rows = p, !.blocks = bs \cup {b}, !.next = n + 1]
  BY <1>1, <1>2, <1>3, <1>5, <1>7, <1>10, <1>11, <1>15 DEF push_tool_block, Views
<1>17. u \in Views /\ u.rows = p /\ u.next = n + 1 /\ u.blocks = bs \cup {b} /\ u.live = calls /\ u.text = text /\ u.thought = th /\ u.busy = w.busy
  BY <1>1, <1>2, <1>8, <1>12, <1>16 DEF Views
<1>18. ViewFits(u)
  BY <1>8, <1>9, <1>14, <1>17 DEF ViewFits
<1>19. Texts(p) = Texts(q)
  <2>1. Texts(p) = Texts(q) \o Texts(new) /\ Texts(new) = <<>>
    BY <1>4, <1>6, <1>7, TextsJoin, TextsMute
  <2>2. Texts(q) \in Seq(Nat)
    BY TextsNat
  <2>3. QED
    BY <2>1, <2>2, ConcatEmptySeq
<1>20. QED
  BY <1>1, <1>15, <1>17, <1>18, <1>19

-----------------------------------------------------------------------------
(* Rows taken out.                                                         *)

SumOf(new, o) == \A i \in 1..Len(new) : new[i].own = o /\ new[i].part = "sum"
Misses(calls, o) == \A c \in DOMAIN calls : calls[c].own # o

CutTo(p, cs, lv, q, o, text, th, n) ==
  /\ p \in Seq(ScreenRows) /\ OwnersFit(p, text, th, n) /\ Texts(p) = Texts(q)
  /\ cs \in SUBSET ScreenBlocks /\ BlocksFit(p, cs, n) /\ (\A c \in cs : c.own # o)
  /\ lv \in Lives /\ LivesFit(p, lv, n)

\* The rows of a call give way to its summary, or to nothing.
LEMMA CallCut ==
  ASSUME NEW q \in Seq(ScreenRows), NEW n \in Nat, NEW bs \in SUBSET ScreenBlocks, BlocksFit(q, bs, n),
         NEW calls \in Lives, LivesFit(q, calls, n), NEW text \in Nat, NEW th \in Nat, OwnersFit(q, text, th, n),
         NEW o \in Nat, Misses(calls, o), NEW s \in Nat \ {0}, NEW l \in Nat, l >= 1, s + l <= Len(q) + 1,
         PosOf(q, Row(o, "call")) = s..(s + l - 1), PosOf(q, Row(o, "sum")) = {},
         NEW new \in Seq(ScreenRows), SumOf(new, o), NEW d \in Int, d = Len(new) - l, NEW e \in Int, e = l - Len(new)
  PROVE  CutTo(splice(q, s, l, new), shift(bs, s + l, d), reindex(calls, s + l, e), q, o, text, th, n)
<1>1. \A i \in s..(s + l - 1) : i \in 1..Len(q) /\ q[i] = Row(o, "call")
  BY DEF PosOf
<1>2. s \in s..(s + l - 1)
  OBVIOUS
<1>3. ASSUME NEW r, NEW i \in PosOf(q, r), r # Row(o, "call") PROVE i \in 1..Len(q) /\ (i < s \/ i >= s + l)
  <2>1. i \in 1..Len(q) /\ q[i] = r
    BY <1>3 DEF PosOf
  <2>2. i \notin s..(s + l - 1)
    BY <1>1, <1>3, <2>1
  <2>3. QED
    BY <2>1, <2>2
<1>4. ASSUME NEW b \in bs PROVE BlockClear(b, s, l) /\ b.own # o
  <2>1. PICK y \in Nat, len \in Nat, open \in BOOLEAN : y = b.row /\ len = b.len /\ open = b.open
    BY DEF ScreenBlocks
  <2>2. y \in PosOf(q, Row(b.own, "sum")) /\ PosOf(q, Row(b.own, "body")) = IF open THEN (y + 1)..(y + len) ELSE {}
    BY <2>1 DEF BlocksFit, BlockFit
  <2>3. Row(b.own, "sum") # Row(o, "call") /\ Row(b.own, "body") # Row(o, "call")
    BY DEF Row
  <2>4. y < s \/ y >= s + l
    BY <1>3, <2>2, <2>3
  <2>5. ASSUME y < s, open PROVE y + len < s
    <3>1. s \notin (y + 1)..(y + len)
      <4>1. ASSUME s \in PosOf(q, Row(b.own, "body")) PROVE FALSE
        <5>1. s < s \/ s >= s + l
          BY <1>3, <2>3, <4>1
        <5>2. QED
          BY <5>1
      <4>2. QED
        BY <2>2, <2>5, <4>1
    <3>2. QED
      BY <2>5, <3>1
  <2>6. b.own # o
    BY <2>2
  <2>7. QED
    BY <2>1, <2>4, <2>5, <2>6 DEF BlockClear
<1>5. ASSUME NEW y, y # o PROVE Foreign(new, {y})
  BY <1>5 DEF Foreign, SumOf
<1>6. /\ shift(bs, s + l, d) \in SUBSET ScreenBlocks /\ BlocksFit(splice(q, s, l, new), shift(bs, s + l, d), n)
      /\ OwnedAs(shift(bs, s + l, d), bs)
  <2>1. AllClear(bs, s, l, new)
    BY <1>4, <1>5 DEF AllClear
  <2>2. QED
    BY <2>1, CutBlocks
<1>7. ASSUME NEW c \in DOMAIN calls PROVE LiveClear(calls[c], s, l) /\ calls[c].own # o
  <2>1. PICK z \in LiveRecs : z = calls[c]
    BY LiveTyped
  <2>2. PICK a \in Nat, len \in Nat : a = z.start /\ len = z.len
    BY DEF LiveRecs
  <2>3. z.own # o
    BY <2>1 DEF Misses
  <2>4. len >= 1 /\ PosOf(q, Row(z.own, "call")) = a..(a + len - 1)
    BY <2>1, <2>2 DEF LivesFit, LiveFit
  <2>5. Row(z.own, "call") # Row(o, "call")
    BY <2>3 DEF Row
  <2>6. a < s \/ a >= s + l
    <3>1. a \in PosOf(q, Row(z.own, "call"))
      BY <2>4
    <3>2. QED
      BY <1>3, <2>5, <3>1
  <2>7. s \notin a..(a + len - 1)
    <3>1. ASSUME s \in PosOf(q, Row(z.own, "call")) PROVE FALSE
      <4>1. s < s \/ s >= s + l
        BY <1>3, <2>5, <3>1
      <4>2. QED
        BY <4>1
    <3>2. QED
      BY <2>4, <3>1
  <2>8. a + len <= s \/ a >= s + l
    BY <2>6, <2>7
  <2>9. QED
    BY <2>1, <2>2, <2>3, <2>8 DEF LiveClear
<1>8. reindex(calls, s + l, e) \in Lives /\ LivesFit(splice(q, s, l, new), reindex(calls, s + l, e), n)
  <2>1. \A c \in DOMAIN calls : LiveClear(calls[c], s, l) /\ Foreign(new, {calls[c].own})
    BY <1>5, <1>7
  <2>2. QED
    BY <2>1, CutLives
<1>9. PICK p : p = splice(q, s, l, new)
  OBVIOUS
<1>10. p \in Seq(ScreenRows)
  <2>1. CutAt(splice(q, s, l, new), q, s, l, new)
    BY Spliced
  <2>2. QED
    BY <1>9, <2>1 DEF CutAt
<1>11. OwnersFit(p, text, th, n)
  <2>1. ASSUME NEW i \in 1..Len(p) PROVE \E k \in 1..Len(q) : p[i].own = q[k].own
    <3>1. (\E k \in 1..Len(q) : p[i] = q[k]) \/ (\E k \in 1..Len(new) : p[i] = new[k])
      <4>1. From(splice(q, s, l, new), q, new)
        BY SplicedFrom
      <4>2. QED
        BY <1>9, <4>1 DEF From
    <3>2. s \in 1..Len(q) /\ q[s].own = o
      <4>1. s \in 1..Len(q) /\ q[s] = Row(o, "call")
        BY <1>1, <1>2
      <4>2. QED
        BY <4>1 DEF Row
    <3>3. QED
      BY <3>1, <3>2 DEF SumOf
  <2>2. QED
    BY <2>1 DEF OwnersFit
<1>12. Texts(p) = Texts(q)
  <2>1. NoText(new)
    BY DEF NoText, SumOf
  <2>2. \A i \in s..(s + l - 1) : q[i].part # "text"
    BY <1>1 DEF Row
  <2>3. Texts(splice(q, s, l, new)) = Texts(q)
    BY <2>1, <2>2, TextsKept
  <2>4. QED
    BY <1>9, <2>3
<1>13. \A c \in shift(bs, s + l, d) : c.own # o
  BY <1>4, <1>6 DEF OwnedAs
<1>14. QED
  BY <1>6, <1>8, <1>9, <1>10, <1>11, <1>12, <1>13 DEF CutTo

\* What one call leaves of a view.
Keeps(u, w) ==
  ViewFits(u) /\ Texts(u.rows) = Texts(w.rows) /\ u.text = w.text /\ u.thought = w.thought /\ u.busy = w.busy

LEMMA CollapseFits ==
  ASSUME NEW w, ViewFits(w), NEW id, NEW ok \in BOOLEAN
  PROVE  Keeps(collapse_tool_call(w, id, ok), w)
<1>1. PICK u : u = collapse_tool_call(w, id, ok)
  OBVIOUS
<1>2. CASE id \notin DOMAIN w.live
  <2>1. u = IF ok THEN w ELSE push_tool_block(w)
    BY <1>1, <1>2 DEF collapse_tool_call
  <2>2. Keeps(push_tool_block(w), w)
    BY ToolBlockFits DEF Keeps
  <2>3. QED
    BY <1>1, <2>1, <2>2 DEF Keeps
<1>3. CASE id \in DOMAIN w.live
  <2>1. PICK q \in Seq(ScreenRows), n \in Nat, bs \in SUBSET ScreenBlocks, calls \in Lives, text \in Nat, th \in Nat :
          q = w.rows /\ n = w.next /\ bs = w.blocks /\ calls = w.live /\ text = w.text /\ th = w.thought
    BY DEF ViewFits, Views
  <2>2. w \in Views /\ BlocksFit(q, bs, n) /\ LivesFit(q, calls, n) /\ OwnersFit(q, text, th, n)
    BY <2>1 DEF ViewFits
  <2>3. calls \in [DOMAIN calls -> LiveRecs] /\ IsFiniteSet(DOMAIN calls) /\ DOMAIN calls \subseteq Calls /\ id \in DOMAIN calls
    BY <1>3, <2>1, LiveTyped
  <2>4. PICK o \in Nat, s \in Nat, l \in Nat : o = calls[id].own /\ s = calls[id].start /\ l = calls[id].len
    BY <2>3 DEF LiveRecs
  <2>5. /\ o < n /\ l >= 1 /\ PosOf(q, Row(o, "call")) = s..(s + l - 1)
        /\ PosOf(q, Row(o, "sum")) = {} /\ PosOf(q, Row(o, "body")) = {}
    BY <2>2, <2>3, <2>4 DEF LivesFit, LiveFit
  <2>6. s \in Nat \ {0} /\ s + l <= Len(q) + 1
    <3>1. s \in s..(s + l - 1) /\ s + l - 1 \in s..(s + l - 1)
      BY <2>5
    <3>2. s \in 1..Len(q) /\ s + l - 1 \in 1..Len(q)
      BY <2>5, <3>1 DEF PosOf
    <3>3. QED
      BY <3>2
  <2>7. PICK rest : rest = [c \in DOMAIN calls \ {id} |-> calls[c]]
    OBVIOUS
  <2>8. rest \in Lives /\ LivesFit(q, rest, n) /\ Misses(rest, o)
    <3>1. DOMAIN rest = DOMAIN calls \ {id} /\ \A c \in DOMAIN rest : rest[c] = calls[c]
      BY <2>7
    <3>2. rest \in [DOMAIN calls \ {id} -> LiveRecs]
      BY <2>3, <2>7
    <3>3. IsFiniteSet(DOMAIN calls \ {id}) /\ DOMAIN calls \ {id} \subseteq Calls
      BY <2>3, FS_Subset
    <3>4. rest \in Lives
      BY <3>2, <3>3, LiveMade
    <3>5. \A c, e \in DOMAIN calls : calls[c].own = calls[e].own => c = e
      BY <2>2 DEF LivesFit
    <3>6. \A c \in DOMAIN rest : LiveFit(q, rest[c], n)
      BY <2>2, <3>1 DEF LivesFit
    <3>7. \A c, e \in DOMAIN rest : rest[c].own = rest[e].own => c = e
      BY <3>1, <3>5
    <3>8. Misses(rest, o)
      BY <2>3, <2>4, <3>1, <3>5 DEF Misses
    <3>9. QED
      BY <3>4, <3>6, <3>7, <3>8 DEF LivesFit
  <2>9. CASE ok
    <3>1. u = [w EXCEPT !.rows = splice(q, s, l, <<>>), !.blocks = shift(bs, s + l, -l), !.live = reindex(rest, s + l, l)]
      <4>1. PICK g : g = [w EXCEPT !.live = reindex(rest, s + l, l)]
        OBVIOUS
      <4>2. u = remove_transcript_range(g, s, l)
        <5>1. u = LET x == w.live[id] IN
                    remove_transcript_range([w EXCEPT !.live = reindex([c \in DOMAIN w.live \ {id} |-> w.live[c]],
                                                                      x.start + x.len, x.len)], x.start, x.len)
          BY <1>1, <1>3, <2>9 DEF collapse_tool_call
        <5>2. QED
          BY <2>1, <2>4, <2>7, <4>1, <5>1, Zenon
      <4>3. g.rows = q /\ g.blocks = bs
        BY <2>1, <2>2, <4>1 DEF Views
      <4>4. u = [g EXCEPT !.rows = splice(q, s, l, <<>>), !.blocks = shift(bs, s + l, -l)]
        BY <4>2, <4>3 DEF remove_transcript_range
      <4>5. QED
        BY <2>2, <4>1, <4>4 DEF Views
    <3> DEFINE new == <<>>
    <3>2. new \in Seq(ScreenRows) /\ SumOf(new, o) /\ Len(new) = 0
      BY DEF SumOf
    <3>9. PICK d \in Int, e \in Int : d = -l /\ e = l /\ d = Len(new) - l /\ e = l - Len(new)
      BY <3>2
    <3>3. u = [w EXCEPT !.rows = splice(q, s, l, new), !.blocks = shift(bs, s + l, d), !.live = reindex(rest, s + l, e)]
      BY <3>1, <3>9
    <3>10. d = Len(new) - l /\ e = l - Len(new)
      BY <3>9
    <3>11. new \in Seq(ScreenRows) /\ SumOf(new, o)
      BY <3>2
    <3> HIDE DEF new
    <3>4. /\ splice(q, s, l, new) \in Seq(ScreenRows) /\ OwnersFit(splice(q, s, l, new), text, th, n)
          /\ Texts(splice(q, s, l, new)) = Texts(q)
          /\ shift(bs, s + l, d) \in SUBSET ScreenBlocks /\ BlocksFit(splice(q, s, l, new), shift(bs, s + l, d), n)
          /\ reindex(rest, s + l, e) \in Lives /\ LivesFit(splice(q, s, l, new), reindex(rest, s + l, e), n)
      <4>1. CutTo(splice(q, s, l, new), shift(bs, s + l, d), reindex(rest, s + l, e), q, o, text, th, n)
        BY <2>2, <2>5, <2>6, <2>8, <3>10, <3>11, CallCut
      <4>2. QED
        BY <4>1 DEF CutTo
    <3>5. PICK p, cs, lv : p = splice(q, s, l, new) /\ cs = shift(bs, s + l, d) /\ lv = reindex(rest, s + l, e)
      OBVIOUS
    <3>6. u = [w EXCEPT !.rows = p, !.blocks = cs, !.live = lv]
      BY <3>3, <3>5
    <3>7. u \in Views /\ u.rows = p /\ u.blocks = cs /\ u.live = lv /\ u.next = n /\ u.text = text /\ u.thought = th /\ u.busy = w.busy
      BY <2>1, <2>2, <3>4, <3>5, <3>6 DEF Views
    <3>8. QED
      BY <1>1, <2>1, <3>4, <3>5, <3>7 DEF ViewFits, Keeps
  <2>10. CASE ~ok
    <3>1. u = [w EXCEPT !.rows = splice(q, s, l, <<Row(o, "sum")>>),
                        !.blocks = shift(bs, s + l, 1 - l) \cup {Block(o, "tool", s, l + 1)},
                        !.live = reindex(rest, s + l, l - 1)]
      <4>1. PICK g : g = [w EXCEPT !.live = reindex(rest, s + l, l - 1)]
        OBVIOUS
      <4>2. u = replace_with_tool_block(g, o, s, l)
        <5>1. u = LET x == w.live[id] IN
                    replace_with_tool_block([w EXCEPT !.live = reindex([c \in DOMAIN w.live \ {id} |-> w.live[c]],
                                                                      x.start + x.len, x.len - 1)], x.own, x.start, x.len)
          BY <1>1, <1>3, <2>10 DEF collapse_tool_call
        <5>2. QED
          BY <2>1, <2>4, <2>7, <4>1, <5>1, Zenon
      <4>3. g.rows = q /\ g.blocks = bs
        BY <2>1, <2>2, <4>1 DEF Views
      <4>4. u = [g EXCEPT !.rows = splice(q, s, l, <<Row(o, "sum")>>),
                          !.blocks = shift(bs, s + l, 1 - l) \cup {Block(o, "tool", s, l + 1)}]
        BY <4>2, <4>3 DEF replace_with_tool_block
      <4>5. QED
        BY <2>2, <4>1, <4>4 DEF Views
    <3>2. PICK r \in ScreenRows : r = Row(o, "sum") /\ r.own = o /\ r.part = "sum"
      <4>1. Row(o, "sum") \in ScreenRows /\ Row(o, "sum").own = o /\ Row(o, "sum").part = "sum"
        BY DEF Row, ScreenRows, RowParts
      <4>2. QED
        BY <4>1
    <3> DEFINE new == <<r>>
    <3>3. /\ new \in Seq(ScreenRows) /\ SumOf(new, o) /\ 1 - l = Len(new) - l /\ l - 1 = l - Len(new) /\ 1 - l \in Int /\ l - 1 \in Int
          /\ Len(new) = 1 /\ new[1] = r
      BY <3>2 DEF SumOf
    <3>4. PICK d \in Int, e \in Int : d = 1 - l /\ e = l - 1 /\ d = Len(new) - l /\ e = l - Len(new)
      BY <3>3
    <3>5. PICK b : b = Block(o, "tool", s, l + 1)
      OBVIOUS
    <3>6. u = [w EXCEPT !.rows = splice(q, s, l, new), !.blocks = shift(bs, s + l, d) \cup {b}, !.live = reindex(rest, s + l, e)]
      BY <3>1, <3>2, <3>4, <3>5
    <3> HIDE DEF new
    <3>7. /\ splice(q, s, l, new) \in Seq(ScreenRows) /\ OwnersFit(splice(q, s, l, new), text, th, n)
          /\ Texts(splice(q, s, l, new)) = Texts(q)
          /\ shift(bs, s + l, d) \in SUBSET ScreenBlocks /\ BlocksFit(splice(q, s, l, new), shift(bs, s + l, d), n)
          /\ \A c \in shift(bs, s + l, d) : c.own # o
          /\ reindex(rest, s + l, e) \in Lives /\ LivesFit(splice(q, s, l, new), reindex(rest, s + l, e), n)
      <4>1. CutTo(splice(q, s, l, new), shift(bs, s + l, d), reindex(rest, s + l, e), q, o, text, th, n)
        BY <2>2, <2>5, <2>6, <2>8, <3>3, <3>4, CallCut
      <4>2. QED
        BY <4>1 DEF CutTo
    <3>8. PICK p, cs, lv : p = splice(q, s, l, new) /\ cs = shift(bs, s + l, d) \cup {b} /\ lv = reindex(rest, s + l, e)
      OBVIOUS
    <3>9. b \in ScreenBlocks /\ b.own = o /\ b.row = s /\ b.open = FALSE
      BY <3>5 DEF Block, ScreenBlocks
    <3>10. PosOf(p, Row(o, "sum")) = {s}
      <4>1. \A i \in Int : i \in PosOf(p, Row(o, "sum")) <=> i - (s - 1) \in PosOf(new, Row(o, "sum"))
        BY <2>5, <2>6, <3>3, <3>8, PosNew
      <4>2. PosOf(new, Row(o, "sum")) = {1}
        BY <3>2, <3>3 DEF PosOf
      <4>3. \A i \in Int : i - (s - 1) = 1 <=> i = s
        OBVIOUS
      <4>4. PosOf(p, Row(o, "sum")) \subseteq Int /\ s \in Int
        BY DEF PosOf
      <4>5. QED
        BY <4>1, <4>2, <4>3, <4>4
    <3>11. PosOf(p, Row(o, "body")) = {}
      <4>1. Lacks(new, Row(o, "body"))
        BY <3>2, <3>3 DEF Lacks, Row
      <4>2. QED
        BY <2>5, <2>6, <3>3, <3>8, <4>1, PosNone
    <3>12. BlockFit(p, b, n)
      BY <2>5, <3>9, <3>10, <3>11 DEF BlockFit
    <3>13. BlocksFit(p, cs, n) /\ cs \in SUBSET ScreenBlocks
      <4>1. BlocksFit(p, shift(bs, s + l, d), n) /\ \A c \in shift(bs, s + l, d) : c.own # b.own
        BY <3>7, <3>8, <3>9
      <4>2. BlocksFit(p, shift(bs, s + l, d) \cup {b}, n)
        BY <3>12, <4>1, BlocksAdd
      <4>3. QED
        BY <3>7, <3>8, <3>9, <4>2
    <3>14. u = [w EXCEPT !.rows = p, !.blocks = cs, !.live = lv]
      BY <3>6, <3>8
    <3>15. u \in Views /\ u.rows = p /\ u.blocks = cs /\ u.live = lv /\ u.next = n /\ u.text = text /\ u.thought = th /\ u.busy = w.busy
      BY <2>1, <2>2, <3>7, <3>8, <3>13, <3>14 DEF Views
    <3>16. QED
      BY <1>1, <2>1, <3>7, <3>8, <3>13, <3>15 DEF ViewFits, Keeps
  <2>11. QED
    BY <2>9, <2>10
<1>4. QED
  BY <1>2, <1>3

BodyOf(new, o) == \A i \in 1..Len(new) : new[i].own = o /\ new[i].part = "body"

Stands(b, o, y) == b.own = o /\ b.row = y

\* The body of a block comes or goes below its summary.
LEMMA BodyCut ==
  ASSUME NEW q \in Seq(ScreenRows), NEW n \in Nat, NEW bs \in SUBSET ScreenBlocks, BlocksFit(q, bs, n),
         NEW text \in Nat, NEW th \in Nat, OwnersFit(q, text, th, n), NEW b \in bs,
         NEW o \in Nat, NEW y \in Nat, Stands(b, o, y), NEW s \in Nat \ {0}, s = y + 1, NEW l \in Nat, s + l <= Len(q) + 1,
         \A i \in s..(s + l - 1) : q[i] = Row(o, "body"),
         NEW new \in Seq(ScreenRows), BodyOf(new, o), NEW d \in Int, d = Len(new) - l
  PROVE  CutTo(splice(q, s, l, new), shift(bs \ {b}, s + l, d), NoLive, q, o, text, th, n)
<1>1. PosOf(q, Row(o, "sum")) = {y} /\ y \in 1..Len(q) /\ q[y] = Row(o, "sum")
  BY DEF BlocksFit, BlockFit, PosOf, Stands
<1>2. ASSUME NEW c \in bs \ {b} PROVE c.own # o /\ BlockClear(c, s, l)
  <2>1. PICK z \in Nat, len \in Nat, open \in BOOLEAN : z = c.row /\ len = c.len /\ open = c.open
    BY DEF ScreenBlocks
  <2>2. c.own # o
    BY DEF BlocksFit, Stands
  <2>3. z \in PosOf(q, Row(c.own, "sum")) /\ PosOf(q, Row(c.own, "body")) = IF open THEN (z + 1)..(z + len) ELSE {}
    BY <2>1 DEF BlocksFit, BlockFit
  <2>4. z \in 1..Len(q) /\ q[z] = Row(c.own, "sum")
    BY <2>3 DEF PosOf
  <2>5. Row(c.own, "sum") # Row(o, "sum") /\ Row(c.own, "sum") # Row(o, "body") /\ Row(c.own, "body") # Row(o, "sum")
    BY <2>2 DEF Row
  <2>6. z # y /\ z \notin s..(s + l - 1)
    BY <1>1, <2>4, <2>5
  <2>7. ASSUME z < s, open PROVE z + len < s
    <3>1. y \notin (z + 1)..(z + len)
      <4>1. y \notin PosOf(q, Row(c.own, "body"))
        BY <1>1, <2>5 DEF PosOf
      <4>2. QED
        BY <2>3, <2>7, <4>1
    <3>2. z < y
      BY <2>6, <2>7
    <3>3. QED
      BY <3>1, <3>2
  <2>8. z < s \/ z >= s + l
    BY <2>6
  <2>9. QED
    BY <2>1, <2>2, <2>7, <2>8 DEF BlockClear
<1>3. PICK cs \in SUBSET ScreenBlocks : cs = bs \ {b}
  OBVIOUS
<1>4. BlocksFit(q, cs, n)
  BY <1>3 DEF BlocksFit
<1>5. AllClear(cs, s, l, new)
  BY <1>2, <1>3 DEF AllClear, Foreign, BodyOf
<1>6. /\ shift(cs, s + l, d) \in SUBSET ScreenBlocks /\ BlocksFit(splice(q, s, l, new), shift(cs, s + l, d), n)
      /\ OwnedAs(shift(cs, s + l, d), cs)
  BY <1>4, <1>5, CutBlocks
<1>7. PICK p : p = splice(q, s, l, new)
  OBVIOUS
<1>8. p \in Seq(ScreenRows)
  <2>1. CutAt(splice(q, s, l, new), q, s, l, new)
    BY Spliced
  <2>2. QED
    BY <1>7, <2>1 DEF CutAt
<1>9. OwnersFit(p, text, th, n)
  <2>1. ASSUME NEW i \in 1..Len(p) PROVE \E k \in 1..Len(q) : p[i].own = q[k].own
    <3>1. (\E k \in 1..Len(q) : p[i] = q[k]) \/ (\E k \in 1..Len(new) : p[i] = new[k])
      <4>1. From(splice(q, s, l, new), q, new)
        BY SplicedFrom
      <4>2. QED
        BY <1>7, <4>1 DEF From
    <3>2. q[y].own = o
      BY <1>1 DEF Row
    <3>3. QED
      BY <1>1, <3>1, <3>2 DEF BodyOf
  <2>2. QED
    BY <2>1 DEF OwnersFit
<1>10. Texts(p) = Texts(q)
  <2>1. NoText(new)
    BY DEF NoText, BodyOf
  <2>2. \A i \in s..(s + l - 1) : q[i].part # "text"
    <3>1. Row(o, "body").part # "text"
      BY DEF Row
    <3>2. QED
      BY <3>1
  <2>3. Texts(splice(q, s, l, new)) = Texts(q)
    BY <2>1, <2>2, TextsKept
  <2>4. QED
    BY <1>7, <2>3
<1>11. NoLive \in Lives /\ LivesFit(p, NoLive, n)
  <2>1. DOMAIN NoLive = {} /\ NoLive \in [{} -> LiveRecs] /\ IsFiniteSet({})
    BY FS_EmptySet DEF NoLive
  <2>2. QED
    BY <2>1, LiveMade DEF LivesFit
<1>12. \A c \in shift(cs, s + l, d) : c.own # o
  <2>1. \A c \in cs : c.own # o
    BY <1>2, <1>3
  <2>2. QED
    BY <1>6, <2>1 DEF OwnedAs
<1>13. QED
  BY <1>3, <1>6, <1>7, <1>8, <1>9, <1>10, <1>11, <1>12 DEF CutTo

LEMMA ToggleFits ==
  ASSUME NEW w, ViewFits(w), w.live = NoLive, NEW b \in w.blocks
  PROVE  Keeps(toggle(w, b), w)
<1>1. PICK q \in Seq(ScreenRows), n \in Nat, bs \in SUBSET ScreenBlocks, text \in Nat, th \in Nat :
        q = w.rows /\ n = w.next /\ bs = w.blocks /\ text = w.text /\ th = w.thought /\ b \in bs
  BY DEF ViewFits, Views
<1>2. w \in Views /\ BlocksFit(q, bs, n) /\ OwnersFit(q, text, th, n)
  BY <1>1 DEF ViewFits
<1>3. PICK o \in Nat, y \in Nat, len \in Nat, open \in BOOLEAN : o = b.own /\ y = b.row /\ len = b.len /\ open = b.open
  BY <1>1 DEF ScreenBlocks
<1>4. /\ o < n /\ PosOf(q, Row(o, "sum")) = {y}
      /\ PosOf(q, Row(o, "body")) = IF open THEN (y + 1)..(y + len) ELSE {}
  BY <1>1, <1>2, <1>3 DEF BlocksFit, BlockFit
<1>5. PICK s \in Nat \ {0} : s = y + 1 /\ s <= Len(q) + 1
  BY <1>4 DEF PosOf
<1>6. PICK e : e = [b EXCEPT !.open = ~@]
  OBVIOUS
<1>7. e \in ScreenBlocks /\ e.own = o /\ e.row = y /\ e.len = len /\ e.open = ~open
  BY <1>1, <1>3, <1>6 DEF ScreenBlocks
<1>8. PICK u : u = toggle(w, b)
  OBVIOUS
<1>9. ASSUME NEW new \in Seq(ScreenRows), NEW l \in Nat, NEW d \in Int, d = Len(new) - l, BodyOf(new, o), s + l <= Len(q) + 1,
             \A i \in s..(s + l - 1) : q[i] = Row(o, "body"),
             u = [w EXCEPT !.rows = splice(q, s, l, new), !.blocks = shift(bs \ {b}, s + l, d) \cup {e}],
             PosOf(splice(q, s, l, new), Row(o, "body")) = IF ~open THEN (y + 1)..(y + len) ELSE {}
      PROVE  Keeps(u, w)
  <2>1. CutTo(splice(q, s, l, new), shift(bs \ {b}, s + l, d), NoLive, q, o, text, th, n)
    <3>1. Stands(b, o, y) /\ b \in bs
      BY <1>1, <1>3 DEF Stands
    <3>2. s = y + 1
      BY <1>5
    <3>3. QED
      BY <1>2, <1>9, <3>1, <3>2, BodyCut
  <2>2. PICK p, cs : p = splice(q, s, l, new) /\ cs = shift(bs \ {b}, s + l, d)
    OBVIOUS
  <2>3. /\ p \in Seq(ScreenRows) /\ OwnersFit(p, text, th, n) /\ Texts(p) = Texts(q)
        /\ cs \in SUBSET ScreenBlocks /\ BlocksFit(p, cs, n) /\ (\A c \in cs : c.own # o) /\ LivesFit(p, NoLive, n)
    BY <2>1, <2>2 DEF CutTo
  <2>4. PosOf(p, Row(o, "sum")) = {y}
    <3>1. Lacks(new, Row(o, "sum"))
      BY <1>9 DEF Lacks, BodyOf, Row
    <3>2. PosOf(q, Row(o, "sum")) = y..y /\ y \in Int /\ y < s
      BY <1>4, <1>5
    <3>3. MovesTo(PosOf(splice(q, s, l, new), Row(o, "sum")), y, y, s, l, Len(new))
      BY <1>9, <3>1, <3>2, PosMoved
    <3>4. QED
      BY <2>2, <3>2, <3>3 DEF MovesTo
  <2>5. BlockFit(p, e, n)
    BY <1>4, <1>7, <1>9, <2>2, <2>4 DEF BlockFit
  <2>6. BlocksFit(p, cs \cup {e}, n)
    BY <1>7, <2>3, <2>5, BlocksAdd
  <2>7. u = [w EXCEPT !.rows = p, !.blocks = cs \cup {e}]
    BY <1>9, <2>2
  <2>8. u \in Views /\ u.rows = p /\ u.blocks = cs \cup {e} /\ u.live = NoLive /\ u.next = n /\ u.text = text /\ u.thought = th /\ u.busy = w.busy
    BY <1>1, <1>2, <1>7, <2>3, <2>7 DEF Views
  <2>9. QED
    BY <1>1, <2>3, <2>6, <2>8 DEF ViewFits, Keeps
<1>10. CASE open
  <2> DEFINE new == <<>>
  <2>1. new \in Seq(ScreenRows) /\ Len(new) = 0 /\ BodyOf(new, o)
    BY DEF BodyOf
  <2>2. PICK d \in Int : d = -len /\ d = Len(new) - len
    BY <2>1
  <2>3. u = [w EXCEPT !.rows = splice(q, s, len, new), !.blocks = shift(bs \ {b}, s + len, d) \cup {e}]
    BY <1>1, <1>2, <1>3, <1>5, <1>6, <1>8, <1>10, <2>2 DEF toggle, Views
  <2> HIDE DEF new
  <2>4. \A i \in s..(s + len - 1) : i \in 1..Len(q) /\ q[i] = Row(o, "body")
    BY <1>4, <1>5, <1>10 DEF PosOf
  <2>5. s + len <= Len(q) + 1
    <3>1. CASE len = 0
      BY <1>5, <3>1
    <3>2. CASE len # 0
      <4>1. s + len - 1 \in s..(s + len - 1)
        BY <3>2
      <4>2. s + len - 1 \in 1..Len(q)
        BY <2>4, <4>1
      <4>3. QED
        BY <4>2
    <3>3. QED
      BY <3>1, <3>2
  <2>6. PosOf(splice(q, s, len, new), Row(o, "body")) = {}
    <3>1. Lacks(new, Row(o, "body"))
      BY <2>1 DEF Lacks
    <3>2. ASSUME NEW i \in PosOf(splice(q, s, len, new), Row(o, "body")) PROVE FALSE
      <4>1. i \in Int
        BY DEF PosOf
      <4>2. (i < s /\ i \in PosOf(q, Row(o, "body"))) \/ (i >= s + Len(new) /\ (i + len) - Len(new) \in PosOf(q, Row(o, "body")))
        BY <2>1, <2>5, <3>1, <4>1, PosAfter
      <4>3. (i < s /\ i \in (y + 1)..(y + len)) \/ (i >= s /\ i + len \in (y + 1)..(y + len))
        BY <1>4, <1>10, <2>1, <4>1, <4>2
      <4>4. QED
        BY <1>5, <4>1, <4>3
    <3>3. QED
      BY <3>2
  <2>7. Keeps(u, w)
    BY <1>9, <1>10, <2>1, <2>2, <2>3, <2>4, <2>5, <2>6
  <2>8. QED
    BY <1>8, <2>7
<1>11. CASE ~open
  <2>1. PICK r \in ScreenRows : r = Row(o, "body") /\ r.own = o /\ r.part = "body"
    <3>1. Row(o, "body") \in ScreenRows /\ Row(o, "body").own = o /\ Row(o, "body").part = "body"
      BY DEF Row, ScreenRows, RowParts
    <3>2. QED
      BY <3>1
  <2>2. PICK new : new = Rows(o, "body", len)
    OBVIOUS
  <2>3. new \in Seq(ScreenRows) /\ Len(new) = len /\ \A i \in 1..len : new[i] = r
    BY <2>1, <2>2 DEF Rows
  <2>4. BodyOf(new, o)
    BY <2>1, <2>3 DEF BodyOf
  <2>5. PICK d \in Int, l \in Nat : l = 0 /\ d = len /\ d = Len(new) - l
    BY <2>3
  <2>6. u = [w EXCEPT !.rows = splice(q, s, l, new), !.blocks = shift(bs \ {b}, s + l, d) \cup {e}]
    <3>1. s + l = s
      BY <2>5
    <3>2. QED
      BY <1>1, <1>2, <1>3, <1>5, <1>6, <1>8, <1>11, <2>2, <2>5, <3>1 DEF toggle, Views
  <2>7. PosOf(splice(q, s, l, new), Row(o, "body")) = (y + 1)..(y + len)
    <3>1. PosOf(q, Row(o, "body")) = {} /\ s + l <= Len(q) + 1
      BY <1>4, <1>5, <1>11, <2>5
    <3>2. \A i \in Int : i \in PosOf(splice(q, s, l, new), Row(o, "body")) <=> i - (s - 1) \in PosOf(new, Row(o, "body"))
      BY <2>3, <3>1, PosNew
    <3>3. PosOf(new, Row(o, "body")) = 1..len
      BY <2>1, <2>3 DEF PosOf
    <3>4. \A i \in Int : i - (s - 1) \in 1..len <=> i \in (y + 1)..(y + len)
      BY <1>5
    <3>5. PosOf(splice(q, s, l, new), Row(o, "body")) \subseteq Int /\ (y + 1)..(y + len) \subseteq Int
      BY DEF PosOf
    <3>6. QED
      BY <3>2, <3>3, <3>4, <3>5
  <2>8. s + l <= Len(q) + 1 /\ \A i \in s..(s + l - 1) : q[i] = Row(o, "body")
    BY <1>5, <2>5
  <2>9. Keeps(u, w)
    BY <1>9, <1>11, <2>3, <2>4, <2>5, <2>6, <2>7, <2>8
  <2>10. QED
    BY <1>8, <2>9
<1>12. QED
  BY <1>10, <1>11

-----------------------------------------------------------------------------
(* What begins, and what a turn leaves.                                    *)

LEMMA SameFit ==
  ASSUME NEW w, ViewFits(w), NEW u \in Views, u.rows = w.rows, u.blocks = w.blocks, u.live = w.live,
         u.text = w.text, u.thought = w.thought, u.next = w.next
  PROVE  ViewFits(u)
BY DEF ViewFits

\* An answer or a thought begins or is dropped.
LEMMA StreamFits ==
  ASSUME NEW w, ViewFits(w), NEW t \in Nat, NEW h \in Nat, NEW m \in Nat, w.next <= m, t < m, h < m, t # 0 => t # h,
         t \in {0, w.text} \/ t >= w.next, h \in {0, w.thought} \/ h >= w.next
  PROVE  ViewFits([w EXCEPT !.text = t, !.thought = h, !.next = m])
<1>1. PICK q \in Seq(ScreenRows), n \in Nat, bs \in SUBSET ScreenBlocks, calls \in Lives, text \in Nat, th \in Nat :
        q = w.rows /\ n = w.next /\ bs = w.blocks /\ calls = w.live /\ text = w.text /\ th = w.thought
  BY DEF ViewFits, Views
<1>2. w \in Views /\ BlocksFit(q, bs, n) /\ LivesFit(q, calls, n) /\ OwnersFit(q, text, th, n)
  BY <1>1 DEF ViewFits
<1>3. n <= m /\ (t = 0 \/ t = text \/ t >= n) /\ (h = 0 \/ h = th \/ h >= n)
  BY <1>1
<1>4. BlocksFit(q, bs, m) /\ LivesFit(q, calls, m)
  BY <1>2, <1>3, BlocksMore, LivesMore
<1>5. OwnersFit(q, t, h, m)
  <2>1. ASSUME NEW i \in 1..Len(q) PROVE q[i].own < m /\ (t # 0 => q[i].own # t) /\ (h # 0 => q[i].own # h)
    <3>1. q[i].own \in Nat /\ q[i].own < n /\ (text # 0 => q[i].own # text) /\ (th # 0 => q[i].own # th)
      BY <1>2, RowAt DEF OwnersFit
    <3>2. QED
      BY <1>3, <3>1
  <2>2. QED
    BY <2>1 DEF OwnersFit
<1>6. PICK u : u = [w EXCEPT !.text = t, !.thought = h, !.next = m]
  OBVIOUS
<1>7. u \in Views /\ u.rows = q /\ u.next = m /\ u.blocks = bs /\ u.live = calls /\ u.text = t /\ u.thought = h
  BY <1>1, <1>2, <1>6 DEF Views
<1>8. QED
  BY <1>4, <1>5, <1>6, <1>7 DEF ViewFits

LEMMA RowsTyped ==
  ASSUME NEW o \in Nat, NEW p \in RowParts, NEW k \in Nat
  PROVE  Rows(o, p, k) \in Seq(ScreenRows) /\ Len(Rows(o, p, k)) = k /\ \A i \in 1..k : Rows(o, p, k)[i] = Row(o, p)
<1>1. PICK r \in ScreenRows : r = Row(o, p)
  BY RowTyped
<1>2. Rows(o, p, k) = [i \in 1..k |-> r]
  BY <1>1 DEF Rows
<1>3. QED
  BY <1>1, <1>2

\* The rows of a call that begins.
Begun(w, id, rows) ==
  [PushBlock(w, rows) EXCEPT
    !.live = [c \in DOMAIN w.live \cup {id} |->
                IF c = id THEN [start |-> Len(w.rows) + 1, len |-> Len(rows), own |-> w.next] ELSE w.live[c]],
    !.running = @ + 1, !.next = @ + 1]
LEMMA CallFits ==
  ASSUME NEW w, ViewFits(w), NEW id \in Calls, NEW k \in Nat, k >= 1
  PROVE  Keeps(Begun(w, id, Rows(w.next, "call", k)), w)
<1>1. PICK q \in Seq(ScreenRows), n \in Nat, bs \in SUBSET ScreenBlocks, calls \in Lives, text \in Nat, th \in Nat :
        q = w.rows /\ n = w.next /\ bs = w.blocks /\ calls = w.live /\ text = w.text /\ th = w.thought
  BY DEF ViewFits, Views
<1>2. w \in Views /\ BlocksFit(q, bs, n) /\ LivesFit(q, calls, n) /\ OwnersFit(q, text, th, n) /\ n <= n + 1 /\ n + 1 \in Nat
  BY <1>1 DEF ViewFits
<1>3. PICK r \in ScreenRows : r = Row(n, "call") /\ r.own = n /\ r.part = "call"
  <2>1. Row(n, "call") \in ScreenRows /\ Row(n, "call").own = n /\ Row(n, "call").part = "call"
    BY DEF Row, ScreenRows, RowParts
  <2>2. QED
    BY <2>1
<1>4. PICK new : new = Rows(n, "call", k)
  OBVIOUS
<1>5. new \in Seq(ScreenRows) /\ Len(new) = k /\ \A i \in 1..k : new[i] = r
  <2>1. "call" \in RowParts
    BY DEF RowParts
  <2>2. QED
    BY <1>3, <1>4, <2>1, RowsTyped
<1>6. Without(q, n) /\ (\A i \in 1..Len(new) : Plain(new[i]) \/ new[i].own = n) /\ Later(new, n, n + 1) /\ NoText(new)
  BY <1>2, <1>3, <1>5, NextUnseen DEF Later, NoText
<1>7. PICK p : p = q \o new
  OBVIOUS
<1>8. /\ p \in Seq(ScreenRows) /\ BlocksFit(p, bs, n + 1) /\ LivesFit(p, calls, n + 1)
      /\ \A x : \A i \in Int : i \in PosOf(p, Row(n, x)) <=> i - Len(q) \in PosOf(new, Row(n, x))
  BY <1>2, <1>5, <1>6, <1>7, RowsGrown
<1>9. OwnersFit(p, text, th, n + 1)
  BY <1>2, <1>5, <1>6, <1>7, OwnersGrown
<1>10. PICK L \in Nat : L = Len(q)
  OBVIOUS
<1>11. PICK x : x = [start |-> L + 1, len |-> k, own |-> n]
  OBVIOUS
<1>12. x \in LiveRecs /\ x.start = L + 1 /\ x.len = k /\ x.own = n
  BY <1>11 DEF LiveRecs
<1>13. PosOf(p, Row(n, "call")) = (L + 1)..(L + 1 + k - 1) /\ PosOf(p, Row(n, "sum")) = {} /\ PosOf(p, Row(n, "body")) = {}
  <2>1. PosOf(new, Row(n, "call")) = 1..k /\ PosOf(new, Row(n, "sum")) = {} /\ PosOf(new, Row(n, "body")) = {}
    BY <1>3, <1>5 DEF PosOf, Row
  <2>2. PosOf(p, Row(n, "call")) \subseteq Int /\ PosOf(p, Row(n, "sum")) \subseteq Int /\ PosOf(p, Row(n, "body")) \subseteq Int
    BY DEF PosOf
  <2>3. \A i \in Int : i \notin PosOf(p, Row(n, "sum")) /\ i \notin PosOf(p, Row(n, "body"))
    BY <1>8, <2>1
  <2>4. \A i \in Int : i \in PosOf(p, Row(n, "call")) <=> i \in (L + 1)..(L + 1 + k - 1)
    <3>1. \A i \in Int : i \in PosOf(p, Row(n, "call")) <=> i - L \in 1..k
      BY <1>8, <1>10, <2>1
    <3>2. \A i \in Int : i - L \in 1..k <=> i \in (L + 1)..(L + 1 + k - 1)
      OBVIOUS
    <3>3. QED
      BY <3>1, <3>2
  <2>5. (L + 1)..(L + 1 + k - 1) \subseteq Int
    OBVIOUS
  <2>6. QED
    BY <2>2, <2>3, <2>4, <2>5
<1>14. LiveFit(p, x, n + 1)
  BY <1>12, <1>13 DEF LiveFit
<1>15. PICK lv : lv = [c \in DOMAIN calls \cup {id} |-> IF c = id THEN x ELSE calls[c]]
  OBVIOUS
<1>16. DOMAIN lv = DOMAIN calls \cup {id} /\ lv[id] = x /\ \A c \in DOMAIN lv : c # id => c \in DOMAIN calls /\ lv[c] = calls[c]
  BY <1>15
<1>17. calls \in [DOMAIN calls -> LiveRecs] /\ IsFiniteSet(DOMAIN calls) /\ DOMAIN calls \subseteq Calls
  BY LiveTyped
<1>18. lv \in Lives
  <2>1. lv \in [DOMAIN calls \cup {id} -> LiveRecs]
    BY <1>12, <1>15, <1>17
  <2>2. IsFiniteSet(DOMAIN calls \cup {id}) /\ DOMAIN calls \cup {id} \subseteq Calls
    BY <1>17, FS_AddElement
  <2>3. QED
    BY <2>1, <2>2, LiveMade
<1>19. LivesFit(p, lv, n + 1)
  <2>1. \A c \in DOMAIN calls : calls[c].own # n /\ LiveFit(p, calls[c], n + 1)
    BY <1>2, <1>6, <1>8, NotAround DEF LivesFit
  <2>2. \A c \in DOMAIN lv : LiveFit(p, lv[c], n + 1)
    BY <1>14, <1>16, <2>1
  <2>3. \A c, e \in DOMAIN calls : calls[c].own = calls[e].own => c = e
    BY <1>2 DEF LivesFit
  <2>4. \A c, e \in DOMAIN lv : lv[c].own = lv[e].own => c = e
    BY <1>12, <1>16, <2>1, <2>3
  <2>5. QED
    BY <2>2, <2>4 DEF LivesFit
<1>0. PICK u : u = Begun(w, id, new)
  OBVIOUS
<1>20. u = [w EXCEPT !.rows = p, !.live = lv, !.running = @ + 1, !.next = n + 1]
  <2>1. PICK g : g = PushBlock(w, new) /\ g = [w EXCEPT !.rows = p]
    BY <1>1, <1>2, <1>7 DEF PushBlock, Views
  <2>2. u = [g EXCEPT !.live = lv, !.running = @ + 1, !.next = @ + 1]
    <3>1. Len(w.rows) + 1 = L + 1 /\ Len(new) = k
      BY <1>1, <1>5, <1>10
    <3>2. QED
      BY <1>0, <1>1, <1>11, <1>15, <2>1, <3>1 DEF Begun
  <2>3. QED
    BY <1>1, <1>2, <2>1, <2>2 DEF Views
<1>21. u \in Views /\ u.rows = p /\ u.next = n + 1 /\ u.blocks = bs /\ u.live = lv /\ u.text = text /\ u.thought = th /\ u.busy = w.busy
  <2>1. PICK m \in Nat : m = n + 1
    OBVIOUS
  <2>2. PICK rn \in Nat : rn = w.running + 1
    BY <1>2 DEF Views
  <2>3. u = [w EXCEPT !.rows = p, !.live = lv, !.running = rn, !.next = m]
    BY <1>20, <2>1, <2>2
  <2>4. u \in Views /\ u.rows = p /\ u.next = m /\ u.blocks = bs /\ u.live = lv /\ u.text = text /\ u.thought = th /\ u.busy = w.busy
    BY <1>1, <1>2, <1>8, <1>18, <2>3 DEF Views
  <2>5. QED
    BY <2>1, <2>4
<1>22. Texts(p) = Texts(q)
  <2>1. Texts(p) = Texts(q) \o Texts(new) /\ Texts(new) = <<>>
    BY <1>5, <1>6, <1>7, TextsJoin, TextsMute
  <2>2. Texts(q) \in Seq(Nat)
    BY TextsNat
  <2>3. QED
    BY <2>1, <2>2, ConcatEmptySeq
<1>23. QED
  BY <1>0, <1>1, <1>4, <1>8, <1>9, <1>19, <1>21, <1>22 DEF ViewFits, Keeps

LEMMA UnfinishedFits ==
  ASSUME NEW w, ViewFits(w) PROVE Keeps(collapse_unfinished(w), w)
<1> DEFINE L == Cardinality(DOMAIN w.live)
           lowest(calls) == CHOOSE c \in DOMAIN calls : \A d \in DOMAIN calls : calls[d].start <= calls[c].start
           S == {u \in Views : Keeps(u, w)}
           Next1(u) == collapse_tool_call(u, lowest(u.live), FALSE)
           F == [p \in (1..L) \X S |-> Next1(p[2])]
           Rec(h) == h = [n \in 0..L |-> IF n = 0 THEN w ELSE Next1(h[n - 1])]
<1>1. L \in Nat
  <2>1. w.live \in Lives
    BY DEF ViewFits, Views
  <2>2. IsFiniteSet(DOMAIN w.live)
    BY <2>1, LiveTyped
  <2>3. QED
    BY <2>2, FS_CardinalityType
<1>2. w \in S
  BY DEF Keeps, ViewFits
<1>3. ASSUME NEW u \in S PROVE Next1(u) \in S
  <2>1. ViewFits(u) /\ Keeps(u, w)
    BY DEF Keeps
  <2>2. PICK z : z = Next1(u)
    OBVIOUS
  <2>3. Keeps(z, u)
    BY <2>1, <2>2, CollapseFits
  <2>4. Keeps(z, w) /\ z \in Views
    BY <2>1, <2>3 DEF Keeps, ViewFits
  <2>5. QED
    BY <2>2, <2>4
<1> HIDE DEF Next1, L
<1>4. F \in [(1..L) \X S -> S] /\ \A n \in 1..L, u \in S : F[<<n, u>>] = Next1(u)
  <2> HIDE DEF S
  <2>1. QED
    BY <1>3
<1> HIDE DEF F, S
<1>5. PICK g : Iterates(g, L, S, w, F)
  BY <1>1, <1>2, <1>4, Recursion, Zenon
<1>6. g \in [0..L -> S] /\ g[0] = w /\ \A n \in 1..L : g[n] = F[<<n, g[n - 1]>>]
  BY <1>5 DEF Iterates
<1>7. ASSUME NEW n \in 1..L PROVE g[n] = Next1(g[n - 1]) /\ n - 1 \in 0..L /\ n \in 0..L /\ n # 0
  <2>1. n - 1 \in 0..L /\ n \in 0..L /\ n # 0
    BY <1>1
  <2>2. g[n - 1] \in S
    BY <1>6, <2>1
  <2>3. F[<<n, g[n - 1]>>] = Next1(g[n - 1])
    BY <1>4, <2>2
  <2>4. QED
    BY <1>6, <2>1, <2>3
<1>8. Rec(g)
  <2>1. ASSUME NEW n \in 0..L PROVE g[n] = IF n = 0 THEN w ELSE Next1(g[n - 1])
    <3>1. n # 0 => n \in 1..L
      BY <1>1
    <3>2. QED
      BY <1>6, <1>7, <3>1
  <2>2. QED
    BY <1>6, <2>1
<1> DEFINE h == CHOOSE f : Rec(f)
<1>9. Rec(h)
  <2> HIDE DEF Rec
  <2>1. QED
    BY <1>8, Zenon
<1>10. collapse_unfinished(w) = h[L]
  BY DEF collapse_unfinished, Next1, L
<1> HIDE DEF h
<1>11. ASSUME NEW n \in 0..L PROVE h[n] = IF n = 0 THEN w ELSE Next1(h[n - 1])
  BY <1>9
<1> HIDE DEF Rec
<1> DEFINE Good == {n \in 0..L : h[n] \in S}
<1>12. 0 \in Good
  <2>1. 0 \in 0..L
    BY <1>1
  <2>2. QED
    BY <1>2, <1>11, <2>1
<1>13. ASSUME NEW n \in 1..L, n - 1 \in Good PROVE n \in Good
  <2>1. n - 1 \in 0..L /\ n \in 0..L /\ n # 0 /\ h[n - 1] \in S
    BY <1>1, <1>13
  <2>2. h[n] = Next1(h[n - 1])
    BY <1>11, <2>1
  <2>3. QED
    BY <1>3, <2>1, <2>2
<1>14. 0..L \subseteq Good
  <2> HIDE DEF Good
  <2>1. QED
    BY <1>1, <1>12, <1>13, Segment
<1>15. h[L] \in S
  BY <1>1, <1>14
<1>16. QED
  BY <1>10, <1>15 DEF S

LEMMA FinishFits ==
  ASSUME NEW w, ViewFits(w), w.text = 0
  PROVE  /\ ViewFits(finish_turn(w)) /\ Texts(finish_turn(w).rows) = Texts(w.rows)
         /\ finish_turn(w).text = 0 /\ finish_turn(w).thought = 0 /\ finish_turn(w).busy = FALSE
<1>1. PICK u : u = reset_turn(w)
  OBVIOUS
<1>2. w \in Views /\ 0 < w.next /\ w.next \in Nat
  BY DEF ViewFits, OwnersFit, Views
<1>3. PICK x : x = [w EXCEPT !.text = 0, !.thought = 0, !.next = w.next]
  OBVIOUS
<1>4. ViewFits(x)
  <2>1. w.next <= w.next /\ 0 \in {0, w.text} /\ 0 \in {0, w.thought} /\ (0 # 0 => 0 # 0) /\ 0 \in Nat
    BY <1>2
  <2>2. QED
    BY <1>2, <1>3, <2>1, StreamFits
<1>5. /\ u \in Views /\ u.rows = w.rows /\ u.next = w.next /\ u.text = 0 /\ u.thought = 0 /\ u.busy = FALSE
      /\ u.blocks = w.blocks /\ u.live = w.live
  BY <1>1, <1>2 DEF reset_turn, Views
<1>6. x \in Views /\ x.rows = w.rows /\ x.next = w.next /\ x.text = 0 /\ x.thought = 0 /\ x.blocks = w.blocks /\ x.live = w.live
  BY <1>2, <1>3 DEF Views
<1>7. ViewFits(u)
  BY <1>4, <1>5, <1>6, SameFit
<1>8. CASE ~w.started
  BY <1>1, <1>5, <1>7, <1>8 DEF finish_turn
<1>9. CASE w.started
  <2>1. PICK g, d : g = Row(0, "blank") /\ d = Row(0, "divider")
    OBVIOUS
  <2>2. /\ g \in ScreenRows /\ d \in ScreenRows /\ g.own = 0 /\ d.own = 0 /\ Plain(g) /\ Plain(d)
        /\ g.part # "text" /\ d.part # "text"
    BY <2>1 DEF Row, ScreenRows, RowParts, Plain
  <2>3. PICK new \in {<<d>>, <<g, d>>} : finish_turn(w) = PushBlock(u, new)
    <3>1. <<g>> \o <<d>> = <<g, d>>
      BY <2>2, TwoRows
    <3>2. <<>> \o <<d>> = <<d>>
      OBVIOUS
    <3>3. finish_turn(w) = PushBlock(u, (IF w.rows # <<>> /\ Last(w.rows).part # "blank" THEN <<g>> ELSE <<>>) \o <<d>>)
      BY <1>1, <1>9, <2>1 DEF finish_turn
    <3>4. QED
      BY <3>1, <3>2, <3>3
  <2>4. /\ new \in Seq(ScreenRows) /\ (\A i \in 1..Len(new) : Plain(new[i])) /\ Later(new, u.next, u.next) /\ NoText(new)
    <3>1. CASE new = <<d>>
      BY <1>2, <1>5, <2>2, <3>1 DEF Later, NoText
    <3>2. CASE new = <<g, d>>
      BY <1>2, <1>5, <2>2, <3>2 DEF Later, NoText
    <3>3. QED
      BY <2>3, <3>1, <3>2
  <2>5. PICK n \in Nat : n = u.next /\ u.next <= n /\ Later(new, u.next, n)
    BY <1>2, <1>5, <2>4
  <2>6. PICK y : y = [u EXCEPT !.rows = @ \o new, !.next = n]
    OBVIOUS
  <2>7. ViewFits(y)
    BY <1>7, <2>4, <2>5, <2>6, PlainFits
  <2>8. finish_turn(w) = y
    BY <1>5, <2>3, <2>5, <2>6 DEF PushBlock, Views
  <2>9. y.rows = w.rows \o new /\ y.text = 0 /\ y.thought = 0 /\ y.busy = FALSE
    BY <1>5, <2>6 DEF Views
  <2>10. Texts(w.rows \o new) = Texts(w.rows)
    <3>1. PICK q \in Seq(ScreenRows) : q = w.rows
      BY <1>2 DEF Views
    <3>2. Texts(q \o new) = Texts(q) \o Texts(new) /\ Texts(new) = <<>>
      BY <2>4, TextsJoin, TextsMute
    <3>3. Texts(q) \in Seq(Nat)
      BY TextsNat
    <3>4. QED
      BY <3>1, <3>2, <3>3, ConcatEmptySeq
  <2>11. QED
    BY <2>7, <2>8, <2>9, <2>10
<1>10. QED
  BY <1>8, <1>9

\* A view between two turns.
Resting(w) == ViewFits(w) /\ w.text = 0 /\ w.thought = 0 /\ w.busy = FALSE

LEMMA NextRow ==
  ASSUME NEW w, ViewFits(w), NEW p \in {"text", "note"}
  PROVE  /\ ViewFits([w EXCEPT !.rows = @ \o <<Row(w.next, p)>>, !.next = w.next + 1])
         /\ <<Row(w.next, p)>> \in Seq(ScreenRows)
         /\ Texts(w.rows \o <<Row(w.next, p)>>) = IF p = "text" THEN Append(Texts(w.rows), w.next) ELSE Texts(w.rows)
<1>1. PICK n \in Nat : n = w.next /\ 0 < n
  BY DEF ViewFits, OwnersFit, Views
<1>2. PICK q \in Seq(ScreenRows) : q = w.rows
  BY DEF ViewFits, Views
<1>3. PICK r \in ScreenRows : r = Row(n, p) /\ r.own = n /\ r.part = p
  <2>1. Row(n, p) \in ScreenRows /\ Row(n, p).own = n /\ Row(n, p).part = p
    BY DEF Row, ScreenRows, RowParts
  <2>2. QED
    BY <2>1
<1> DEFINE new == <<r>>
<1>4. new \in Seq(ScreenRows) /\ Len(new) = 1 /\ new[1] = r
  OBVIOUS
<1>5. new = <<Row(w.next, p)>>
  BY <1>1, <1>3
<1>6. p = "text" => Texts(new) = <<n>>
  BY <1>3, TextsOne
<1> HIDE DEF new
<1>7. PICK m \in Nat : m = n + 1 /\ w.next <= m
  BY <1>1
<1>8. (\A i \in 1..Len(new) : Plain(new[i])) /\ Later(new, w.next, m) /\ (p # "text" => NoText(new))
  BY <1>1, <1>3, <1>4, <1>7 DEF Plain, Later, NoText
<1>9. ViewFits([w EXCEPT !.rows = @ \o new, !.next = m])
  BY <1>4, <1>7, <1>8, PlainFits
<1>10. Texts(q) \in Seq(Nat)
  BY TextsNat
<1>11. Texts(q \o new) = Texts(q) \o Texts(new)
  BY <1>4, TextsJoin
<1>12. CASE p = "text"
  <2>1. Texts(q \o new) = Append(Texts(q), n)
    BY <1>6, <1>10, <1>11, <1>12, AppendIsConcat
  <2>2. QED
    BY <1>1, <1>2, <1>4, <1>5, <1>7, <1>9, <1>12, <2>1
<1>13. CASE p # "text"
  <2>1. Texts(q \o new) = Texts(q)
    BY <1>4, <1>8, <1>10, <1>11, <1>13, TextsMute, ConcatEmptySeq
  <2>2. QED
    BY <1>1, <1>2, <1>4, <1>5, <1>7, <1>9, <1>13, <2>1
<1>14. QED
  BY <1>12, <1>13

LEMMA RestoreTurn ==
  ASSUME NEW w, Resting(w), NEW k PROVE Resting(restore_turn(w, k))
<1>1. ViewFits(w) /\ w \in Views /\ w.text = 0 /\ w.thought = 0 /\ w.busy = FALSE /\ w.next \in Nat /\ 0 < w.next
  BY DEF Resting, ViewFits, OwnersFit, Views
<1>2. CASE k = "user"
  <2>1. PICK u : u = [w EXCEPT !.rows = @ \o <<Row(w.next, "text")>>, !.next = w.next + 1]
    OBVIOUS
  <2>2. ViewFits(u)
    BY <1>1, <2>1, NextRow
  <2>3. restore_turn(w, k) = u
    BY <1>1, <1>2, <2>1 DEF restore_turn, PushBlock, Views
  <2>4. u.text = 0 /\ u.thought = 0 /\ u.busy = FALSE
    BY <1>1, <2>1 DEF Views
  <2>5. QED
    BY <2>2, <2>3, <2>4 DEF Resting
<1>3. CASE k = "answer"
  <2>1. PICK t \in Nat, m \in Nat : t = w.next /\ m = w.next + 1
    BY <1>1
  <2>2. PICK u : u = [w EXCEPT !.text = t, !.thought = 0, !.next = m]
    OBVIOUS
  <2>3. ViewFits(u)
    <3>1. w.next <= m /\ t < m /\ 0 < m /\ (t # 0 => t # 0) /\ t >= w.next /\ 0 \in {0, w.thought} /\ 0 \in Nat
      BY <1>1, <2>1
    <3>2. QED
      BY <1>1, <2>2, <3>1, StreamFits
  <2>4. restore_turn(w, k) = flush_text(u)
    <3>1. u = [w EXCEPT !.text = w.next, !.next = @ + 1]
      BY <1>1, <2>1, <2>2 DEF Views
    <3>2. QED
      BY <1>3, <3>1 DEF restore_turn
  <2>5. u.busy = FALSE
    BY <1>1, <2>2 DEF Views
  <2>6. QED
    BY <2>3, <2>4, <2>5, FlushFits DEF Resting
<1>4. CASE k = "thought"
  <2>1. PICK h \in Nat, t \in Nat, m \in Nat : h = w.next /\ t = w.next + 1 /\ m = w.next + 2
    BY <1>1
  <2>2. PICK u : u = [w EXCEPT !.text = t, !.thought = h, !.next = m]
    OBVIOUS
  <2>3. ViewFits(u)
    <3>1. w.next <= m /\ t < m /\ h < m /\ (t # 0 => t # h) /\ t >= w.next /\ h >= w.next
      BY <1>1, <2>1
    <3>2. QED
      BY <1>1, <2>2, <3>1, StreamFits
  <2>4. restore_turn(w, k) = flush_text(u)
    <3>1. u = [w EXCEPT !.thought = w.next, !.text = w.next + 1, !.next = @ + 2]
      BY <1>1, <2>1, <2>2 DEF Views
    <3>2. QED
      BY <1>4, <3>1 DEF restore_turn
  <2>5. u.busy = FALSE
    BY <1>1, <2>2 DEF Views
  <2>6. QED
    BY <2>3, <2>4, <2>5, FlushFits DEF Resting
<1>5. CASE k = "failed"
  <2>1. restore_turn(w, k) = push_tool_block(w)
    BY <1>5 DEF restore_turn
  <2>2. QED
    BY <1>1, <2>1, ToolBlockFits DEF Resting
<1>6. CASE k \notin {"user", "answer", "thought", "failed"}
  BY <1>6 DEF restore_turn
<1>7. QED
  BY <1>2, <1>3, <1>4, <1>5, <1>6

LEMMA NewViewRests == Resting(NewView)
<1>1. NoLive \in Lives /\ DOMAIN NoLive = {}
  <2>1. DOMAIN NoLive = {} /\ NoLive \in [{} -> LiveRecs] /\ IsFiniteSet({})
    BY FS_EmptySet DEF NoLive
  <2>2. QED
    BY <2>1, LiveMade
<1>2. PICK e : e = NoLive /\ e \in Lives /\ DOMAIN e = {}
  BY <1>1
<1>3. NewView = [rows |-> <<>>, blocks |-> {}, live |-> e, text |-> 0, thought |-> 0,
                 running |-> 0, busy |-> FALSE, started |-> FALSE, next |-> 1]
  BY <1>2 DEF NewView
<1>4. <<>> \in Seq(ScreenRows) /\ Len(<<>>) = 0
  OBVIOUS
<1>5. NewView \in Views
  BY <1>2, <1>3, <1>4 DEF Views
<1>6. /\ NewView.rows = <<>> /\ NewView.blocks = {} /\ NewView.live = e /\ NewView.text = 0 /\ NewView.thought = 0
      /\ NewView.busy = FALSE /\ NewView.next = 1
  BY <1>3
<1>7. BlocksFit(<<>>, {}, 1) /\ LivesFit(<<>>, e, 1) /\ OwnersFit(<<>>, 0, 0, 1)
  BY <1>2, <1>4 DEF BlocksFit, LivesFit, OwnersFit
<1>8. QED
  BY <1>5, <1>6, <1>7 DEF Resting, ViewFits

LEMMA RestoreRests ==
  ASSUME NEW q, q \in Seq({"user", "answer", "thought", "failed", "ok"}) PROVE Resting(restore_history(q))
<1> DEFINE L == Len(q)
           S == {u \in Views : Resting(u)}
           F == [p \in (1..L) \X S |-> restore_turn(p[2], q[p[1]])]
           Rec(h) == h = [n \in 0..L |-> IF n = 0 THEN NewView ELSE restore_turn(h[n - 1], q[n])]
<1>1. L \in Nat
  OBVIOUS
<1>2. NewView \in S
  BY NewViewRests DEF Resting, ViewFits
<1>3. ASSUME NEW u \in S, NEW k PROVE restore_turn(u, k) \in S
  <2>1. Resting(restore_turn(u, k))
    BY RestoreTurn
  <2>2. QED
    BY <2>1 DEF Resting, ViewFits
<1> HIDE DEF L, S
<1>4. F \in [(1..L) \X S -> S] /\ \A n \in 1..L, u \in S : F[<<n, u>>] = restore_turn(u, q[n])
  BY <1>3
<1> HIDE DEF F
<1>5. PICK g : Iterates(g, L, S, NewView, F)
  BY <1>1, <1>2, <1>4, Recursion, Zenon
<1>6. g \in [0..L -> S] /\ g[0] = NewView /\ \A n \in 1..L : g[n] = F[<<n, g[n - 1]>>]
  BY <1>5 DEF Iterates
<1>7. ASSUME NEW n \in 1..L PROVE g[n] = restore_turn(g[n - 1], q[n]) /\ n - 1 \in 0..L /\ n \in 0..L /\ n # 0
  <2>1. n - 1 \in 0..L /\ n \in 0..L /\ n # 0
    BY <1>1
  <2>2. g[n - 1] \in S
    BY <1>6, <2>1
  <2>3. F[<<n, g[n - 1]>>] = restore_turn(g[n - 1], q[n])
    BY <1>4, <2>2
  <2>4. QED
    BY <1>6, <2>1, <2>3
<1>8. Rec(g)
  <2>1. ASSUME NEW n \in 0..L PROVE g[n] = IF n = 0 THEN NewView ELSE restore_turn(g[n - 1], q[n])
    <3>1. n # 0 => n \in 1..L
      BY <1>1
    <3>2. QED
      BY <1>6, <1>7, <3>1
  <2>2. QED
    BY <1>6, <2>1
<1> DEFINE h == CHOOSE f : Rec(f)
<1>9. Rec(h)
  <2> HIDE DEF Rec
  <2>1. QED
    BY <1>8, Zenon
<1>10. restore_history(q) = h[L]
  BY DEF restore_history, L
<1> HIDE DEF h
<1>11. ASSUME NEW n \in 0..L PROVE h[n] = IF n = 0 THEN NewView ELSE restore_turn(h[n - 1], q[n])
  BY <1>9
<1> HIDE DEF Rec
<1> DEFINE Good == {n \in 0..L : h[n] \in S}
<1>12. 0 \in Good
  <2>1. 0 \in 0..L
    BY <1>1
  <2>2. QED
    BY <1>2, <1>11, <2>1
<1>13. ASSUME NEW n \in 1..L, n - 1 \in Good PROVE n \in Good
  <2>1. n - 1 \in 0..L /\ n \in 0..L /\ n # 0 /\ h[n - 1] \in S
    BY <1>1, <1>13
  <2>2. h[n] = restore_turn(h[n - 1], q[n])
    BY <1>11, <2>1
  <2>3. QED
    BY <1>3, <2>1, <2>2
<1>14. 0..L \subseteq Good
  <2> HIDE DEF Good
  <2>1. QED
    BY <1>1, <1>12, <1>13, Segment
<1>15. h[L] \in S
  BY <1>1, <1>14
<1>16. QED
  BY <1>10, <1>15 DEF S

-----------------------------------------------------------------------------
(* The rows on the screen.                                                 *)

TailOf(w) ==
  IF w.text # 0 \/ w.thought # 0 THEN parse_live(w) ELSE IF w.busy THEN <<Row(0, "spinner")>> ELSE <<>>
LinesOf(w) == w.rows \o TailOf(w)

LEMMA LinesAre == Lines = LinesOf(v)
BY DEF Lines, LinesOf, TailOf

LEMMA LinesTyped ==
  ASSUME NEW w \in Views PROVE TailOf(w) \in Seq(ScreenRows) /\ w.rows \in Seq(ScreenRows) /\ LinesOf(w) \in Seq(ScreenRows)
<1>1. w.rows \in Seq(ScreenRows) /\ parse_live(w) \in Seq(ScreenRows)
  BY LiveParts DEF Views
<1>2. Row(0, "spinner") \in ScreenRows
  BY DEF Row, ScreenRows, RowParts
<1>3. <<Row(0, "spinner")>> \in Seq(ScreenRows) /\ <<>> \in Seq(ScreenRows)
  BY <1>2, OneRow
<1>4. TailOf(w) \in Seq(ScreenRows)
  BY <1>1, <1>3 DEF TailOf
<1>5. QED
  BY <1>1, <1>4, RowsJoin DEF LinesOf

LEMMA PartIs ==
  ASSUME NEW T, NEW q \in Seq(T), NEW lo \in Nat \ {0}, NEW hi \in Nat
  PROVE  /\ Part(q, lo, hi) \in Seq(T)
         /\ \A k \in Nat \ {0} : k \in 1..Len(Part(q, lo, hi)) <=> (lo + k) - 1 <= Len(q) /\ (lo + k) - 1 <= hi
         /\ \A k \in 1..Len(Part(q, lo, hi)) : Part(q, lo, hi)[k] = q[(lo + k) - 1]
<1>1. PICK L \in Nat : L = Len(q)
  OBVIOUS
<1>2. PICK p : p = Part(q, lo, hi)
  OBVIOUS
<1>3. CASE lo > L
  <2>1. p = <<>>
    BY <1>1, <1>2, <1>3 DEF Part
  <2>2. p \in Seq(T) /\ Len(p) = 0
    BY <2>1
  <2>3. \A k \in Nat \ {0} : ~((lo + k) - 1 <= L)
    BY <1>3
  <2>4. \A k : k \notin 1..Len(p)
    BY <2>2
  <2>5. /\ \A k \in Nat \ {0} : k \in 1..Len(p) <=> (lo + k) - 1 <= L /\ (lo + k) - 1 <= hi
        /\ \A k \in 1..Len(p) : p[k] = q[(lo + k) - 1]
    BY <2>3, <2>4, Zenon
  <2>6. QED
    BY <1>1, <1>2, <2>2, <2>5
<1>4. CASE lo <= L
  <2>1. PICK h \in Nat : h = IF hi < L THEN hi ELSE L
    OBVIOUS
  <2>2. p = SubSeq(q, lo, h)
    <3>1. ~(lo > L)
      BY <1>4
    <3>2. QED
      BY <1>1, <1>2, <2>1, <3>1 DEF Part
  <2>3. \A i \in lo..h : q[i] \in T
    <3>1. \A i \in lo..h : i \in 1..Len(q)
      BY <1>1, <2>1
    <3>2. QED
      BY <3>1, ElementOfSeq
  <2>4. lo \in Int /\ h \in Int
    OBVIOUS
  <2>5. /\ SubSeq(q, lo, h) \in Seq(T) /\ Len(SubSeq(q, lo, h)) = (IF lo <= h THEN h - lo + 1 ELSE 0)
        /\ \A i \in 1..(h - lo + 1) : SubSeq(q, lo, h)[i] = q[lo + i - 1]
    BY <2>3, <2>4, SubSeqProperties
  <2>6. p \in Seq(T) /\ Len(p) = IF lo <= h THEN h - lo + 1 ELSE 0
    BY <2>2, <2>5
  <2>7. ASSUME NEW k \in Nat \ {0} PROVE k \in 1..Len(p) <=> (lo + k) - 1 <= L /\ (lo + k) - 1 <= hi
    <3>1. k \in 1..(IF lo <= h THEN h - lo + 1 ELSE 0) <=> (lo + k) - 1 <= h
      OBVIOUS
    <3>2. (lo + k) - 1 <= h <=> (lo + k) - 1 <= L /\ (lo + k) - 1 <= hi
      BY <2>1
    <3>3. QED
      BY <2>6, <3>1, <3>2
  <2>8. ASSUME NEW k \in 1..Len(p) PROVE p[k] = q[(lo + k) - 1]
    <3>1. k \in 1..(h - lo + 1) /\ lo + k - 1 = (lo + k) - 1
      BY <2>6
    <3>2. QED
      BY <2>2, <2>5, <3>1
  <2>9. QED
    BY <1>1, <1>2, <2>6, <2>7, <2>8
<1>5. QED
  BY <1>1, <1>3, <1>4

Spots == (Nat \ {0}) \X Nat
Scrolls == [follow : BOOLEAN, top : Nat]
Sels == [on : BOOLEAN, anchor : Nat \X Nat, head : Nat \X Nat, copy : BOOLEAN, picked : Seq(ScreenRows), calm : BOOLEAN]

LEMMA TopTyped ==
  ASSUME Lines \in Seq(ScreenRows), scroll \in Scrolls PROVE total \in Nat /\ max_top \in Nat /\ current_top \in Nat
<1>1. total \in Nat
  BY DEF total
<1>2. max_top \in Nat
  BY <1>1, ScreenAssumption DEF max_top
<1>3. QED
  BY <1>1, <1>2 DEF current_top, Scrolls

LEMMA DrawTyped ==
  ASSUME Lines \in Seq(ScreenRows), scroll \in Scrolls
  PROVE  draw_transcript \in Seq(Spots) /\ (draw_transcript # <<>> => total > 0)
<1>1. PICK t \in Nat : t = current_top
  BY TopTyped
<1>2. PICK H \in Nat : H = Height
  BY ScreenAssumption
<1>3. PICK ls \in Seq(ScreenRows) : ls = Lines /\ total = Len(ls)
  BY DEF total
<1>4. PICK shown : shown = Part(ls, t + 1, t + H)
  OBVIOUS
<1>5. shown \in Seq(ScreenRows) /\ (ls = <<>> => shown = <<>>)
  <2>1. shown \in Seq(ScreenRows)
    BY <1>4, PartIs
  <2>2. ls = <<>> => shown = <<>>
    <3>1. ls = <<>> => t + 1 > Len(ls)
      OBVIOUS
    <3>2. QED
      BY <1>4, <3>1 DEF Part
  <2>3. QED
    BY <2>1, <2>2
<1>6. PICK runs : runs = [i \in DOMAIN shown |-> [k \in 1..(IF shown[i].part = "note" THEN 2 ELSE 1) |-> <<t + i, k>>]]
  OBVIOUS
<1>7. runs \in Seq(Seq(Spots)) /\ Len(runs) = Len(shown)
  <2>1. DOMAIN shown = 1..Len(shown) /\ Len(shown) \in Nat
    BY <1>5
  <2>2. ASSUME NEW i \in 1..Len(shown) PROVE [k \in 1..(IF shown[i].part = "note" THEN 2 ELSE 1) |-> <<t + i, k>>] \in Seq(Spots)
    <3>1. PICK m \in Nat : m = IF shown[i].part = "note" THEN 2 ELSE 1
      OBVIOUS
    <3>2. \A k \in 1..m : <<t + i, k>> \in Spots
      BY DEF Spots
    <3>3. [k \in 1..m |-> <<t + i, k>>] \in Seq(Spots)
      BY <3>2
    <3>4. QED
      BY <3>1, <3>3
  <2>3. runs \in [1..Len(shown) -> Seq(Spots)]
    BY <1>6, <2>1, <2>2
  <2>4. QED
    BY <2>1, <2>3
<1>8. PICK phys \in Seq(Spots) : phys = FlattenSeq(runs) /\ (Len(runs) = 0 => phys = <<>>)
  <2>1. PICK h \in [0..Len(runs) -> Seq(Spots)] : h[0] = <<>> /\ FlattenSeq(runs) = h[Len(runs)]
    BY <1>7, FlattenRuns
  <2>2. Len(runs) \in 0..Len(runs)
    BY <1>7
  <2>3. QED
    BY <2>1, <2>2
<1>9. PICK s \in Nat : s = IF scroll.follow /\ Len(phys) > H THEN Len(phys) - H ELSE 0
  <2>1. PICK P \in Nat : P = Len(phys)
    OBVIOUS
  <2>2. P > H => P - H \in Nat
    OBVIOUS
  <2>3. (IF scroll.follow /\ P > H THEN P - H ELSE 0) \in Nat
    BY <2>2
  <2>4. QED
    BY <2>1, <2>3
<1>10. draw_transcript = Part(phys, s + 1, s + H)
  BY <1>1, <1>2, <1>3, <1>4, <1>6, <1>8, <1>9 DEF draw_transcript
<1>11. draw_transcript \in Seq(Spots)
  <2>1. s + 1 \in Nat \ {0} /\ s + H \in Nat
    OBVIOUS
  <2>2. Part(phys, s + 1, s + H) \in Seq(Spots)
    BY <2>1, PartIs
  <2>3. QED
    BY <1>10, <2>2
<1>12. phys = <<>> => draw_transcript = <<>>
  <2>1. phys = <<>> => s + 1 > Len(phys)
    OBVIOUS
  <2>2. QED
    BY <1>10, <2>1 DEF Part
<1>13. total = 0 => draw_transcript = <<>>
  <2>1. total = 0 => ls = <<>>
    BY <1>3, EmptySeq
  <2>2. ls = <<>> => Len(runs) = 0
    BY <1>5, <1>7
  <2>3. QED
    BY <1>8, <1>12, <2>1, <2>2
<1>14. QED
  BY <1>3, <1>11, <1>13

-----------------------------------------------------------------------------
(* What a selection copies.                                                *)

BetweenIn(q, a, b) ==
  Part(q, IF a[1] <= b[1] THEN a[1] ELSE b[1], IF a[1] <= b[1] THEN b[1] ELSE a[1])
Copied(q, s) ==
  \A k \in DOMAIN s.picked :
    s.picked[k].part = "spinner" \/ (k \in DOMAIN BetweenIn(q, s.anchor, s.head) /\ BetweenIn(q, s.anchor, s.head)[k] = s.picked[k])
SelFits(q, s) ==
  /\ s \in Sels /\ (s.on => s.anchor \in Spots /\ s.head \in Spots)
  /\ s.on /\ s.calm => Copied(q, s)

\* Nothing but the spinner is lost or moves.
Extends(p, q) == \A k \in 1..Len(p) : p[k].part = "spinner" \/ (k \in 1..Len(q) /\ q[k] = p[k])

LEMMA Bounds ==
  ASSUME NEW a \in Spots, NEW b \in Spots
  PROVE  \E lo \in Nat \ {0}, hi \in Nat : \A p : BetweenIn(p, a, b) = Part(p, lo, hi)
<1>1. PICK x \in Nat \ {0}, y \in Nat \ {0} : x = a[1] /\ y = b[1]
  BY DEF Spots
<1>2. PICK lo \in Nat \ {0}, hi \in Nat : lo = (IF x <= y THEN x ELSE y) /\ hi = IF x <= y THEN y ELSE x
  OBVIOUS
<1>3. \A p : BetweenIn(p, a, b) = Part(p, lo, hi)
  BY <1>1, <1>2 DEF BetweenIn
<1>4. QED
  BY <1>3

LEMMA BetweenTyped ==
  ASSUME NEW q \in Seq(ScreenRows), NEW a \in Spots, NEW b \in Spots
  PROVE  BetweenIn(q, a, b) \in Seq(ScreenRows)
<1>1. PICK lo \in Nat \ {0}, hi \in Nat : \A p : BetweenIn(p, a, b) = Part(p, lo, hi)
  BY Bounds
<1>2. Part(q, lo, hi) \in Seq(ScreenRows)
  BY PartIs
<1>3. QED
  BY <1>1, <1>2

LEMMA CopiedKept ==
  ASSUME NEW s \in Sels, s.anchor \in Spots, s.head \in Spots, NEW p \in Seq(ScreenRows), NEW q \in Seq(ScreenRows),
         Extends(p, q), Copied(p, s)
  PROVE  Copied(q, s)
<1>1. PICK lo \in Nat \ {0}, hi \in Nat : \A z : BetweenIn(z, s.anchor, s.head) = Part(z, lo, hi)
  BY Bounds
<1>2. PICK x \in Seq(ScreenRows), y \in Seq(ScreenRows) : x = Part(p, lo, hi) /\ y = Part(q, lo, hi)
  BY PartIs
<1>3. /\ \A k \in Nat \ {0} : k \in 1..Len(x) <=> (lo + k) - 1 <= Len(p) /\ (lo + k) - 1 <= hi
      /\ \A k \in 1..Len(x) : x[k] = p[(lo + k) - 1]
  BY <1>2, PartIs
<1>4. /\ \A k \in Nat \ {0} : k \in 1..Len(y) <=> (lo + k) - 1 <= Len(q) /\ (lo + k) - 1 <= hi
      /\ \A k \in 1..Len(y) : y[k] = q[(lo + k) - 1]
  BY <1>2, PartIs
<1>5. ASSUME NEW k \in DOMAIN s.picked, s.picked[k].part # "spinner" PROVE k \in DOMAIN y /\ y[k] = s.picked[k]
  <2>1. k \in DOMAIN x /\ x[k] = s.picked[k]
    BY <1>1, <1>2, <1>5 DEF Copied
  <2>2. k \in 1..Len(x) /\ k \in Nat \ {0}
    BY <2>1
  <2>3. PICK i \in Nat : i = (lo + k) - 1 /\ i \in 1..Len(p) /\ i <= hi /\ x[k] = p[i]
    <3>1. (lo + k) - 1 <= Len(p) /\ (lo + k) - 1 <= hi /\ x[k] = p[(lo + k) - 1]
      BY <1>3, <2>2
    <3>2. (lo + k) - 1 \in Nat /\ (lo + k) - 1 >= 1
      BY <2>2
    <3>3. QED
      BY <3>1, <3>2
  <2>4. i \in 1..Len(q) /\ q[i] = p[i]
    BY <1>5, <2>1, <2>3 DEF Extends
  <2>5. k \in 1..Len(y)
    BY <1>4, <2>2, <2>3, <2>4
  <2>6. y[k] = q[i]
    BY <1>4, <2>3, <2>5
  <2>7. QED
    BY <2>1, <2>3, <2>4, <2>5, <2>6
<1>6. QED
  BY <1>1, <1>2, <1>5 DEF Copied

LEMMA ExtendsOn ==
  ASSUME NEW q \in Seq(ScreenRows), NEW t \in Seq(ScreenRows), NEW r \in Seq(ScreenRows), Extends(t, r)
  PROVE  Extends(q \o t, q \o r)
<1>1. PICK A \in Nat, B \in Nat, C \in Nat : A = Len(q) /\ B = Len(t) /\ C = Len(r)
  OBVIOUS
<1>2. PICK x, y : x = q \o t /\ y = q \o r
  OBVIOUS
<1>3. Len(x) = A + B /\ (\A i \in 1..A : x[i] = q[i]) /\ \A i \in 1..B : x[A + i] = t[i]
  BY <1>1, <1>2, RowsJoin
<1>4. Len(y) = A + C /\ (\A i \in 1..A : y[i] = q[i]) /\ \A i \in 1..C : y[A + i] = r[i]
  BY <1>1, <1>2, RowsJoin
<1>5. ASSUME NEW k \in 1..(A + B) PROVE x[k].part = "spinner" \/ (k \in 1..(A + C) /\ y[k] = x[k])
  <2>1. CASE k <= A
    <3>1. k \in 1..A /\ k \in 1..(A + C)
      BY <2>1
    <3>2. QED
      BY <1>3, <1>4, <3>1
  <2>2. CASE k > A
    <3>1. PICK i \in 1..B : k = A + i
      <4>1. k - A \in 1..B /\ k = A + (k - A)
        BY <2>2
      <4>2. QED
        BY <4>1
    <3>2. t[i].part = "spinner" \/ (i \in 1..C /\ r[i] = t[i])
      BY <1>1 DEF Extends
    <3>3. x[k] = t[i] /\ (i \in 1..C => y[k] = r[i] /\ k \in 1..(A + C))
      BY <1>3, <1>4, <3>1
    <3>4. QED
      BY <3>2, <3>3
  <2>3. QED
    BY <2>1, <2>2
<1>6. QED
  BY <1>2, <1>3, <1>4, <1>5 DEF Extends

LEMMA ExtendsSelf == ASSUME NEW q PROVE Extends(q, q)
BY DEF Extends

LEMMA ExtendsMore ==
  ASSUME NEW q \in Seq(ScreenRows), NEW r \in Seq(ScreenRows) PROVE Extends(q, q \o r)
<1>1. PICK A \in Nat, B \in Nat : A = Len(q) /\ B = Len(r)
  OBVIOUS
<1>2. Len(q \o r) = A + B /\ \A i \in 1..A : (q \o r)[i] = q[i]
  BY <1>1, RowsJoin
<1>3. \A k \in 1..A : k \in 1..(A + B)
  OBVIOUS
<1>4. QED
  BY <1>1, <1>2, <1>3 DEF Extends

-----------------------------------------------------------------------------
(* The invariant of the screen.                                            *)

Idle(w) == w.busy \/ (w.text = 0 /\ w.thought = 0)
ScreenInv ==
  /\ ViewFits(v) /\ said = ShownTexts(v) /\ Idle(v)
  /\ scroll \in Scrolls /\ frame \in Seq(Spots) /\ (frame # <<>> => total > 0) /\ SelFits(Lines, sel)

LEMMA LinesNext == Lines' = LinesOf(v')
BY DEF Lines, LinesOf, TailOf, parse_live

LEMMA NoSelFits == ASSUME NEW q PROVE SelFits(q, NoSel)
BY DEF SelFits, NoSel, Sels

LEMMA SelKept ==
  ASSUME NEW w, NEW u, ViewFits(w), ViewFits(u), Extends(LinesOf(w), LinesOf(u)), NEW s, SelFits(LinesOf(w), s)
  PROVE  SelFits(LinesOf(u), s)
<1>1. LinesOf(w) \in Seq(ScreenRows) /\ LinesOf(u) \in Seq(ScreenRows)
  BY LinesTyped DEF ViewFits
<1>2. QED
  BY <1>1, CopiedKept DEF SelFits

\* What is shown grows, and the selection stays.
LEMMA ShowsMore ==
  ASSUME ScreenInv, ViewFits(v'), said' = ShownTexts(v'), Idle(v'), Extends(LinesOf(v), LinesOf(v')), Undrawn, UNCHANGED <<scroll, sel>>
  PROVE  ScreenInv'
<1>1. SelFits(LinesOf(v'), sel)
  BY LinesAre, SelKept DEF ScreenInv
<1>2. SelFits(Lines', sel')
  BY <1>1, LinesNext
<1>3. frame' = <<>> /\ scroll' \in Scrolls
  BY DEF Undrawn, ScreenInv
<1>4. QED
  BY <1>2, <1>3 DEF ScreenInv

\* Rows move, and a selection is no longer trusted.
LEMMA MovesKeep ==
  ASSUME ScreenInv, NEW w, Moves(w), ViewFits(w), ShownTexts(w) = ShownTexts(v), Idle(w)
  PROVE  ScreenInv'
<1>1. v' = w /\ frame' = <<>> /\ scroll' = scroll /\ said' = said /\ sel' = [sel EXCEPT !.calm = @ /\ ~sel.on]
  BY DEF Moves, Undrawn
<1>2. sel \in Sels /\ (sel.on => sel.anchor \in Spots /\ sel.head \in Spots)
  BY DEF ScreenInv, SelFits
<1>3. sel' \in Sels /\ sel'.on = sel.on /\ sel'.anchor = sel.anchor /\ sel'.head = sel.head /\ sel'.calm = (sel.calm /\ ~sel.on)
  BY <1>1, <1>2 DEF Sels
<1>4. SelFits(Lines', sel')
  BY <1>2, <1>3 DEF SelFits
<1>5. said' = ShownTexts(v') /\ ViewFits(v') /\ Idle(v')
  BY <1>1 DEF ScreenInv
<1>6. QED
  BY <1>1, <1>4, <1>5 DEF ScreenInv

\* The view stays as it is.
LEMMA SameScreen ==
  ASSUME ScreenInv, UNCHANGED <<v, said>>, Undrawn, scroll' \in Scrolls, SelFits(Lines, sel')
  PROVE  ScreenInv'
<1>1. Lines' = Lines
  BY LinesAre, LinesNext
<1>2. frame' = <<>>
  BY DEF Undrawn
<1>3. QED
  BY <1>1, <1>2 DEF ScreenInv

LEMMA ScreenStarts == ASSUME ScreenInit PROVE ScreenInv
<1>1. PICK h \in Histories : v = restore_history(h)
  BY DEF ScreenInit
<1>2. h \in Seq({"user", "answer", "thought", "failed", "ok"})
  BY ScreenAssumption
<1>3. Resting(v)
  BY <1>1, <1>2, RestoreRests
<1>4. said = ShownTexts(v)
  <2>1. said = Texts(v.rows) /\ v.text = 0 /\ v.rows \in Seq(ScreenRows)
    BY <1>3 DEF ScreenInit, Resting, ViewFits, Views
  <2>2. Texts(v.rows) \in Seq(Nat)
    BY <2>1, TextsNat
  <2>3. QED
    BY <2>1, <2>2, ConcatEmptySeq DEF ShownTexts
<1>5. scroll \in Scrolls /\ frame = <<>> /\ sel = NoSel
  BY DEF ScreenInit, Scrolls
<1>6. frame \in Seq(Spots)
  BY <1>5
<1>7. QED
  BY <1>3, <1>4, <1>5, <1>6, NoSelFits DEF ScreenInv, Resting, Idle

LEMMA TextFits == ASSUME ScreenInv, Text PROVE ScreenInv'
<1>1. v.busy /\ Undrawn /\ UNCHANGED <<scroll, sel>> /\ ViewFits(v) /\ v \in Views
  BY DEF Text, ScreenInv, ViewFits
<1>2. CASE v.text # 0
  <2>1. v' = v /\ said' = said
    BY <1>2 DEF Text
  <2>2. QED
    BY <1>1, <2>1, ExtendsSelf, ShowsMore DEF ScreenInv
<1>3. CASE v.text = 0
  <2>1. PICK n \in Nat, th \in Nat, m \in Nat : n = v.next /\ th = v.thought /\ m = n + 1 /\ th < n
    BY <1>1 DEF Views, ViewFits, OwnersFit
  <2>2. v' = [v EXCEPT !.text = n, !.thought = th, !.next = m] /\ said' = Append(said, n)
    BY <1>1, <1>3, <2>1 DEF Text, Views
  <2>3. ViewFits(v')
    <3>1. v.next <= m /\ n < m /\ th < m /\ (n # 0 => n # th) /\ n >= v.next /\ th \in {0, v.thought}
      BY <2>1
    <3>2. ViewFits([v EXCEPT !.text = n, !.thought = th, !.next = m])
      BY <1>1, <3>1, StreamFits
    <3>3. QED
      BY <2>2, <3>2
  <2>4. v'.rows = v.rows /\ v'.text = n /\ v'.thought = th /\ v'.busy = v.busy /\ n # 0
    <3>1. n # 0
      BY <2>1
    <3>2. v'.rows = v.rows /\ v'.text = n /\ v'.thought = th /\ v'.busy = v.busy
      BY <1>1, <2>2 DEF Views
    <3>3. QED
      BY <3>1, <3>2
  <2>5. said' = ShownTexts(v')
    <3>1. PICK t \in Seq(Nat) : t = Texts(v.rows)
      BY <1>1, TextsNat DEF Views
    <3>2. said = t
      BY <1>3, <3>1, ConcatEmptySeq DEF ScreenInv, ShownTexts
    <3>3. Append(t, n) = t \o <<n>>
      BY AppendIsConcat
    <3>4. QED
      BY <2>2, <2>4, <3>1, <3>2, <3>3 DEF ShownTexts
  <2>6. Extends(TailOf(v), TailOf(v'))
    <3>1. TailOf(v') = parse_live(v')
      BY <2>4 DEF TailOf
    <3>2. CASE th = 0
      <4>1. TailOf(v) = <<Row(0, "spinner")>>
        BY <1>1, <1>3, <2>1, <3>2 DEF TailOf
      <4>2. QED
        BY <4>1 DEF Extends, Row
    <3>3. CASE th # 0
      <4>1. TailOf(v) = <<Row(th, "sum")>>
        BY <1>1, <1>3, <2>1, <3>3, LiveParts DEF TailOf, Views
      <4>2. TailOf(v') = <<Row(th, "sum"), Row(0, "blank"), Row(n, "text")>>
        BY <2>4, <3>1, <3>3, LiveParts
      <4>3. QED
        BY <4>1, <4>2 DEF Extends
    <3>4. QED
      BY <3>2, <3>3
  <2>7. Extends(LinesOf(v), LinesOf(v'))
    <3>1. TailOf(v) \in Seq(ScreenRows) /\ TailOf(v') \in Seq(ScreenRows) /\ v.rows \in Seq(ScreenRows)
      BY <1>1, <2>3, LinesTyped DEF ViewFits
    <3>2. QED
      BY <2>4, <2>6, <3>1, ExtendsOn DEF LinesOf
  <2>8. Idle(v')
    BY <1>1, <2>4 DEF Idle
  <2>9. QED
    BY <1>1, <2>3, <2>5, <2>7, <2>8, ShowsMore
<1>4. QED
  BY <1>2, <1>3

LEMMA ReasoningFits == ASSUME ScreenInv, Reasoning PROVE ScreenInv'
<1>1. v.busy /\ ViewFits(v) /\ v \in Views
  BY DEF Reasoning, ScreenInv, ViewFits
<1>2. CASE v.thought # 0
  <2>1. v' = v /\ said' = said /\ Undrawn /\ UNCHANGED <<scroll, sel>>
    BY <1>2 DEF Reasoning, Show
  <2>2. QED
    BY <1>1, <2>1, ExtendsSelf, ShowsMore DEF ScreenInv
<1>3. CASE v.thought = 0
  <2>1. PICK n \in Nat, t \in Nat, m \in Nat : n = v.next /\ t = v.text /\ m = n + 1 /\ t < n
    BY <1>1 DEF Views, ViewFits, OwnersFit
  <2>2. PICK w : w = [v EXCEPT !.text = t, !.thought = n, !.next = m] /\ w = [v EXCEPT !.thought = v.next, !.next = @ + 1]
    BY <1>1, <2>1 DEF Views
  <2>3. ViewFits(w)
    <3>1. v.next <= m /\ t < m /\ n < m /\ (t # 0 => t # n) /\ t \in {0, v.text} /\ n >= v.next
      BY <2>1
    <3>2. ViewFits([v EXCEPT !.text = t, !.thought = n, !.next = m])
      BY <1>1, <3>1, StreamFits
    <3>3. QED
      BY <2>2, <3>2
  <2>4. w.rows = v.rows /\ w.text = v.text /\ w.thought = n /\ w.busy = v.busy /\ n # 0
    <3>1. n # 0
      BY <2>1
    <3>2. w.rows = v.rows /\ w.text = t /\ w.thought = n /\ w.busy = v.busy
      BY <1>1, <2>2 DEF Views
    <3>3. QED
      BY <2>1, <3>1, <3>2
  <2>5. ShownTexts(w) = ShownTexts(v) /\ Idle(w)
    BY <1>1, <2>4 DEF ShownTexts, Idle
  <2>6. CASE v.text # 0
    <3>1. Moves(w)
      BY <1>3, <2>2, <2>6 DEF Reasoning
    <3>2. QED
      BY <2>3, <2>5, <3>1, MovesKeep
  <2>7. CASE v.text = 0
    <3>1. v' = w /\ said' = said /\ Undrawn /\ UNCHANGED <<scroll, sel>>
      BY <1>3, <2>2, <2>7 DEF Reasoning, Show
    <3>2. Extends(TailOf(v), TailOf(w))
      <4>1. TailOf(v) = <<Row(0, "spinner")>>
        BY <1>1, <1>3, <2>7 DEF TailOf
      <4>2. QED
        BY <4>1 DEF Extends, Row
    <3>3. Extends(LinesOf(v), LinesOf(w))
      <4>1. TailOf(v) \in Seq(ScreenRows) /\ TailOf(w) \in Seq(ScreenRows) /\ v.rows \in Seq(ScreenRows)
        BY <1>1, <2>3, LinesTyped DEF ViewFits
      <4>2. QED
        BY <2>4, <3>2, <4>1, ExtendsOn DEF LinesOf
    <3>4. said' = ShownTexts(v')
      BY <2>5, <3>1 DEF ScreenInv
    <3>5. QED
      BY <2>3, <2>5, <3>1, <3>3, <3>4, ShowsMore
  <2>8. QED
    BY <2>6, <2>7
<1>4. QED
  BY <1>2, <1>3

\* What the stream held is in the rows.
Flushed(w) == ViewFits(w) /\ w.text = 0 /\ w.thought = 0 /\ Texts(w.rows) = ShownTexts(v)

LEMMA FlushIsFlushed == ASSUME ScreenInv PROVE Flushed(flush_text(v))
BY FlushFits DEF Flushed, ScreenInv

LEMMA FlushedShows == ASSUME NEW w, Flushed(w) PROVE ShownTexts(w) = ShownTexts(v) /\ Idle(w) /\ ViewFits(w)
<1>1. w.rows \in Seq(ScreenRows)
  BY DEF Flushed, ViewFits, Views
<1>2. Texts(w.rows) \in Seq(Nat)
  BY <1>1, TextsNat
<1>3. Texts(w.rows) \o <<>> = Texts(w.rows)
  BY <1>2, ConcatEmptySeq
<1>4. QED
  BY <1>3 DEF Flushed, ShownTexts, Idle

LEMMA KeepsFlushed == ASSUME NEW w, NEW u, Flushed(w), Keeps(u, w) PROVE Flushed(u)
BY DEF Keeps, Flushed

LEMMA RunningKept ==
  ASSUME NEW w, ViewFits(w)
  PROVE  Keeps([w EXCEPT !.running = IF @ > 0 THEN @ - 1 ELSE 0], w)
<1>1. w \in Views
  BY DEF ViewFits
<1>2. PICK r \in Nat : r = IF w.running > 0 THEN w.running - 1 ELSE 0
  BY <1>1 DEF Views
<1>3. PICK u : u = [w EXCEPT !.running = r] /\ u = [w EXCEPT !.running = IF @ > 0 THEN @ - 1 ELSE 0]
  BY <1>1, <1>2 DEF Views
<1>4. u \in Views /\ u.rows = w.rows /\ u.blocks = w.blocks /\ u.live = w.live /\ u.text = w.text
      /\ u.thought = w.thought /\ u.next = w.next /\ u.busy = w.busy
  BY <1>1, <1>3 DEF Views
<1>5. ViewFits(u)
  BY <1>4, SameFit
<1>6. QED
  BY <1>3, <1>4, <1>5 DEF Keeps

LEMMA MovesFlushed == ASSUME ScreenInv, NEW w, Moves(w), Flushed(w) PROVE ScreenInv'
BY FlushedShows, MovesKeep

LEMMA ToolEndFits == ASSUME ScreenInv, NEW id, NEW ok \in BOOLEAN, ToolEnd(id, ok) PROVE ScreenInv'
<1>1. PICK f, c, w : /\ f = flush_text(v) /\ c = collapse_tool_call(f, id, ok)
                     /\ w = [c EXCEPT !.running = IF @ > 0 THEN @ - 1 ELSE 0]
  OBVIOUS
<1>2. Flushed(f)
  BY <1>1, FlushIsFlushed
<1>3. Flushed(c)
  BY <1>1, <1>2, CollapseFits, KeepsFlushed DEF Flushed
<1>4. Flushed(w)
  BY <1>1, <1>3, RunningKept, KeepsFlushed DEF Flushed
<1>5. w = [c EXCEPT !.running = IF c.running > 0 THEN c.running - 1 ELSE 0]
  BY <1>1, <1>3 DEF Flushed, ViewFits, Views
<1>6. Moves(w)
  BY <1>1, <1>5 DEF ToolEnd
<1>7. QED
  BY <1>4, <1>6, MovesFlushed

LEMMA ToolStartFits == ASSUME ScreenInv, NEW id \in Calls, ToolStart(id) PROVE ScreenInv'
<1>1. PICK f, c, w : /\ f = flush_text(v) /\ c = collapse_tool_call(f, id, FALSE)
                     /\ w = IF id \in DOMAIN f.live THEN [c EXCEPT !.running = IF @ > 0 THEN @ - 1 ELSE 0] ELSE f
  OBVIOUS
<1>2. Flushed(f)
  BY <1>1, FlushIsFlushed
<1>3. Flushed(c)
  BY <1>1, <1>2, CollapseFits, KeepsFlushed DEF Flushed
<1>4. Flushed(w)
  <2>1. PICK d : d = [c EXCEPT !.running = IF @ > 0 THEN @ - 1 ELSE 0]
    OBVIOUS
  <2>2. Keeps(d, c)
    BY <1>3, <2>1, RunningKept DEF Flushed
  <2>3. Flushed(d)
    BY <1>3, <2>2, KeepsFlushed
  <2>4. QED
    BY <1>1, <1>2, <2>1, <2>3
<1>5. PICK k \in Nat : k = (IF id \in Edits THEN 3 ELSE 1) /\ k >= 1
  OBVIOUS
<1>6. PICK u : u = Begun(w, id, Rows(w.next, "call", k))
  OBVIOUS
<1>7. Flushed(u)
  BY <1>4, <1>5, <1>6, CallFits, KeepsFlushed DEF Flushed
<1>8. Moves(u)
  BY <1>1, <1>5, <1>6 DEF ToolStart, Begun
<1>9. QED
  BY <1>7, <1>8, MovesFlushed

LEMMA TurnOverFits == ASSUME ScreenInv, TurnOver PROVE ScreenInv'
<1>1. PICK f, c, w : f = flush_text(v) /\ c = collapse_unfinished(f) /\ w = finish_turn(c)
  OBVIOUS
<1>2. Flushed(f)
  BY <1>1, FlushIsFlushed
<1>3. Flushed(c)
  BY <1>1, <1>2, UnfinishedFits, KeepsFlushed DEF Flushed
<1>4. Flushed(w)
  BY <1>1, <1>3, FinishFits DEF Flushed
<1>5. Moves(w)
  BY <1>1 DEF TurnOver
<1>6. QED
  BY <1>4, <1>5, MovesFlushed

Groups(a, b, c) == (a \o b) \o c = a \o (b \o c)
LEMMA RowsAssoc ==
  ASSUME NEW a \in Seq(ScreenRows), NEW b \in Seq(ScreenRows), NEW c \in Seq(ScreenRows)
  PROVE  Groups(a, b, c)
BY ConcatAssociative DEF Groups

Nested(a, b, c, d) == ((a \o b) \o c) \o d = a \o (b \o (c \o d))
LEMMA RowsAssocs ==
  ASSUME NEW a \in Seq(ScreenRows), NEW b \in Seq(ScreenRows), NEW c \in Seq(ScreenRows), NEW d \in Seq(ScreenRows)
  PROVE  Nested(a, b, c, d)
<1>1. PICK x \in Seq(ScreenRows), y \in Seq(ScreenRows) : x = a \o b /\ y = c \o d
  BY RowsJoin
<1>2. Groups(x, c, d) /\ Groups(a, b, y)
  BY RowsAssoc
<1>3. QED
  BY <1>1, <1>2 DEF Groups, Nested

LEMMA NoticeFits == ASSUME ScreenInv, Notice PROVE ScreenInv'
<1>1. ViewFits(v) /\ v \in Views /\ said = ShownTexts(v)
  BY DEF ScreenInv, ViewFits
<1>2. PICK f : f = flush_text(v)
  OBVIOUS
<1>3. /\ ViewFits(f) /\ f.text = 0 /\ f.thought = 0 /\ f.next = v.next /\ f \in Views
      /\ f.rows = v.rows \o parse_live(v) /\ Texts(f.rows) = ShownTexts(v)
  BY <1>1, <1>2, FlushFits DEF ViewFits
<1>4. PICK n \in Nat : n = v.next
  BY <1>1 DEF Views
<1>5. PICK note, w : note = <<Row(n, "note")>> /\ w = [f EXCEPT !.rows = @ \o note, !.next = n + 1]
  OBVIOUS
<1>6. v' = w /\ Undrawn /\ UNCHANGED <<scroll, sel, said>>
  <2>1. w = PushBlock([f EXCEPT !.next = @ + 1], note)
    BY <1>3, <1>4, <1>5 DEF PushBlock, Views
  <2>2. QED
    BY <1>2, <1>4, <1>5, <2>1 DEF Notice, Show
<1>7. ViewFits(w) /\ note \in Seq(ScreenRows) /\ Texts(f.rows \o note) = Texts(f.rows)
  BY <1>3, <1>4, <1>5, NextRow
<1>8. w.rows = f.rows \o note /\ w.text = 0 /\ w.thought = 0
  BY <1>3, <1>5 DEF Views
<1>9. Flushed(w)
  BY <1>3, <1>7, <1>8 DEF Flushed
<1>10. Extends(LinesOf(v), LinesOf(w))
  <2>1. /\ v.rows \in Seq(ScreenRows) /\ TailOf(v) \in Seq(ScreenRows) /\ TailOf(w) \in Seq(ScreenRows)
        /\ parse_live(v) \in Seq(ScreenRows)
    BY <1>1, <1>7, LinesTyped, LiveParts DEF ViewFits, Views
  <2>2. PICK q \in Seq(ScreenRows), t \in Seq(ScreenRows), z \in Seq(ScreenRows), pl \in Seq(ScreenRows) :
          q = v.rows /\ t = TailOf(v) /\ z = TailOf(w) /\ pl = parse_live(v)
    BY <2>1
  <2>3. note \o z \in Seq(ScreenRows) /\ pl \o (note \o z) \in Seq(ScreenRows) /\ q \o pl \in Seq(ScreenRows)
    BY <1>7, RowsJoin
  <2>4. ((q \o pl) \o note) \o z = q \o (pl \o (note \o z))
    <3>1. Nested(q, pl, note, z)
      BY <1>7, RowsAssocs
    <3>2. QED
      BY <3>1 DEF Nested
  <2>5. Extends(t, pl \o (note \o z))
    <3>1. CASE v.text # 0 \/ v.thought # 0
      <4>1. t = pl
        BY <2>2, <3>1 DEF TailOf
      <4>2. QED
        BY <2>3, <4>1, ExtendsMore
    <3>2. CASE ~(v.text # 0 \/ v.thought # 0)
      <4>1. t = <<Row(0, "spinner")>> \/ t = <<>>
        BY <2>2, <3>2 DEF TailOf
      <4>2. QED
        BY <4>1 DEF Extends, Row
    <3>3. QED
      BY <3>1, <3>2
  <2>6. LinesOf(v) = q \o t /\ LinesOf(w) = q \o (pl \o (note \o z))
    BY <1>3, <1>8, <2>2, <2>4 DEF LinesOf
  <2>7. QED
    BY <2>3, <2>5, <2>6, ExtendsOn
<1>11. ShownTexts(w) = ShownTexts(v) /\ Idle(w)
  BY <1>9, FlushedShows
<1>12. QED
  BY <1>1, <1>6, <1>7, <1>10, <1>11, ShowsMore

LEMMA TurnBeginsFits == ASSUME ScreenInv, TurnBegins PROVE ScreenInv'
<1>1. ViewFits(v) /\ v \in Views /\ said = ShownTexts(v) /\ v.text = 0 /\ v.thought = 0 /\ ~v.busy
  BY DEF ScreenInv, ViewFits, Idle, TurnBegins
<1>2. PICK q \in Seq(ScreenRows), n \in Nat : q = v.rows /\ n = v.next
  BY <1>1 DEF Views
<1>3. PICK new, w : new = <<Row(n, "text")>> /\ w = [v EXCEPT !.rows = @ \o new, !.next = n + 1]
  OBVIOUS
<1>4. ViewFits(w) /\ new \in Seq(ScreenRows) /\ Texts(q \o new) = Append(Texts(q), n)
  BY <1>1, <1>2, <1>3, NextRow
<1>5. PICK u : u = [w EXCEPT !.busy = TRUE, !.started = TRUE, !.running = 0]
  OBVIOUS
<1>6. v' = u /\ said' = Append(said, n) /\ Undrawn /\ UNCHANGED <<scroll, sel>>
  <2>1. u = [PushBlock(v, new) EXCEPT !.next = @ + 1, !.busy = TRUE, !.started = TRUE, !.running = 0]
    BY <1>1, <1>2, <1>3, <1>5 DEF PushBlock, Views
  <2>2. QED
    BY <1>2, <1>3, <2>1 DEF TurnBegins
<1>7. w \in Views /\ w.rows = q \o new /\ w.text = 0 /\ w.thought = 0
  <2>1. w \in Views
    BY <1>4 DEF ViewFits
  <2>2. QED
    BY <1>1, <1>2, <1>3, <2>1 DEF Views
<1>8. /\ u \in Views /\ u.rows = q \o new /\ u.text = 0 /\ u.thought = 0 /\ u.busy = TRUE
      /\ u.blocks = w.blocks /\ u.live = w.live /\ u.next = w.next
  BY <1>5, <1>7 DEF Views
<1>9. ViewFits(u)
  BY <1>4, <1>7, <1>8, SameFit
<1>10. said' = ShownTexts(u)
  <2>1. PICK t \in Seq(Nat) : t = Texts(q)
    BY TextsNat
  <2>2. said = t
    BY <1>1, <1>2, <2>1, ConcatEmptySeq DEF ShownTexts
  <2>3. Append(t, n) \in Seq(Nat)
    OBVIOUS
  <2>4. Append(t, n) \o <<>> = Append(t, n)
    BY <2>3, ConcatEmptySeq
  <2>5. QED
    BY <1>4, <1>6, <1>8, <2>1, <2>2, <2>4 DEF ShownTexts
<1>11. Extends(LinesOf(v), LinesOf(u))
  <2>1. LinesOf(v) = q
    BY <1>1, <1>2, ConcatEmptySeq DEF LinesOf, TailOf
  <2>2. PICK z \in Seq(ScreenRows) : z = TailOf(u)
    BY <1>8, LinesTyped
  <2>3. new \o z \in Seq(ScreenRows) /\ LinesOf(u) = q \o (new \o z)
    <3>1. Groups(q, new, z)
      BY <1>4, <2>2, RowsAssoc
    <3>2. QED
      BY <1>4, <1>8, <2>2, <3>1, RowsJoin DEF Groups, LinesOf
  <2>4. QED
    BY <2>1, <2>3, ExtendsMore
<1>12. Idle(u)
  BY <1>8 DEF Idle
<1>13. QED
  BY <1>6, <1>9, <1>10, <1>11, <1>12, ShowsMore

LEMMA ClearFits == ASSUME ScreenInv, Clear PROVE ScreenInv'
<1>1. v \in Views /\ 0 < v.next /\ scroll \in Scrolls
  BY DEF ScreenInv, ViewFits, OwnersFit, Views
<1>2. NoLive \in Lives /\ DOMAIN NoLive = {}
  <2>1. NewView \in Views
    BY NewViewRests DEF Resting, ViewFits
  <2>2. QED
    BY <2>1 DEF Views, NewView, NoLive
<1>3. PICK w : w = [reset_turn(clear_transcript(v)) EXCEPT !.text = 0, !.live = NoLive]
  OBVIOUS
<1>4. /\ w \in Views /\ w.rows = <<>> /\ w.blocks = {} /\ w.live = NoLive /\ w.text = 0 /\ w.thought = 0
      /\ w.next = v.next
  <2>1. PICK c, r : c = clear_transcript(v) /\ r = reset_turn(c)
    OBVIOUS
  <2>2. c \in Views /\ c.rows = <<>> /\ c.blocks = {} /\ c.next = v.next
    <3>1. PICK e \in Seq(ScreenRows) : e = <<>>
      <4>1. <<>> \in Seq(ScreenRows)
        OBVIOUS
      <4>2. QED
        BY <4>1
    <3>2. PICK none \in SUBSET ScreenBlocks : none = {}
      OBVIOUS
    <3>3. c = [v EXCEPT !.rows = e, !.blocks = none]
      BY <2>1, <3>1, <3>2 DEF clear_transcript
    <3>4. c \in Views /\ c.rows = e /\ c.blocks = none /\ c.next = v.next
      BY <1>1, <3>3 DEF Views
    <3>5. QED
      BY <3>1, <3>4, <3>2
  <2>3. r \in Views /\ r.rows = <<>> /\ r.blocks = {} /\ r.next = v.next /\ r.thought = 0
    BY <2>1, <2>2 DEF Views, reset_turn
  <2>4. w = [r EXCEPT !.text = 0, !.live = NoLive]
    BY <1>3, <2>1
  <2>5. QED
    BY <1>2, <2>3, <2>4 DEF Views
<1>5. ViewFits(w)
  <2>1. BlocksFit(<<>>, {}, v.next)
    BY DEF BlocksFit
  <2>2. LivesFit(<<>>, NoLive, v.next)
    BY <1>2 DEF LivesFit
  <2>3. OwnersFit(<<>>, 0, 0, v.next)
    BY <1>1 DEF OwnersFit
  <2>4. QED
    BY <1>4, <2>1, <2>2, <2>3 DEF ViewFits
<1>6. ShownTexts(w) = <<>>
  <2>1. <<>> \in Seq(ScreenRows) /\ NoText(<<>>)
    BY DEF NoText
  <2>2. Texts(<<>>) = <<>>
    BY <2>1, TextsMute
  <2>3. QED
    BY <1>4, <2>2 DEF ShownTexts
<1>7. v' = w /\ said' = <<>> /\ sel' = NoSel /\ frame' = <<>> /\ scroll' = scroll
  BY <1>3 DEF Clear, Undrawn
<1>8. SelFits(Lines', sel')
  BY <1>7, NoSelFits
<1>9. QED
  BY <1>1, <1>4, <1>5, <1>6, <1>7, <1>8 DEF ScreenInv, Idle

LEMMA DrawFits == ASSUME ScreenInv, Draw PROVE ScreenInv'
<1>1. ViewFits(v) /\ scroll \in Scrolls /\ SelFits(Lines, sel)
  BY DEF ScreenInv
<1>2. Lines \in Seq(ScreenRows)
  BY <1>1, LinesAre, LinesTyped DEF ViewFits
<1>3. draw_transcript \in Seq(Spots) /\ (draw_transcript # <<>> => total > 0)
  BY <1>1, <1>2, DrawTyped
<1>4. v' = v /\ scroll' = scroll /\ said' = said /\ frame' = draw_transcript /\ (sel' = sel \/ sel' = NoSel)
  BY DEF Draw
<1>5. Lines' = Lines
  BY <1>4, LinesAre, LinesNext
<1>6. total' = total
  BY <1>5 DEF total
<1>7. SelFits(Lines', sel')
  BY <1>1, <1>4, <1>5, NoSelFits
<1>8. QED
  BY <1>3, <1>4, <1>6, <1>7 DEF ScreenInv

\* The rows under a drag, read where it ends.
LEMMA HeadFits ==
  ASSUME NEW q \in Seq(ScreenRows), NEW s \in Sels, s.anchor \in Spots, NEW p \in Spots
  PROVE  SelFits(q, [s EXCEPT !.head = p, !.picked = BetweenIn(q, s.anchor, p)])
<1>1. PICK x \in Seq(ScreenRows) : x = BetweenIn(q, s.anchor, p)
  BY BetweenTyped
<1>2. PICK z : z = [s EXCEPT !.head = p, !.picked = x]
  OBVIOUS
<1>3. p \in Nat \X Nat
  BY DEF Spots
<1>4. z \in Sels /\ z.anchor = s.anchor /\ z.head = p /\ z.picked = x /\ z.on = s.on /\ z.calm = s.calm
  BY <1>2, <1>3 DEF Sels
<1>5. Copied(q, z)
  BY <1>1, <1>4 DEF Copied
<1>6. QED
  BY <1>1, <1>2, <1>4, <1>5 DEF SelFits

LEMMA BetweenIs == ASSUME NEW a, NEW b PROVE Between(a, b) = BetweenIn(Lines, a, b)
BY DEF Between, BetweenIn

\* A drag is under way: its head moves, and it may end in a copy.
LEMMA HeadKept ==
  ASSUME ScreenInv, sel.on, NEW p \in Spots, UNCHANGED <<v, said>>, Undrawn, scroll' \in Scrolls,
         sel' = HeadAt(p) \/ sel' = [HeadAt(p) EXCEPT !.copy = TRUE]
  PROVE  ScreenInv'
<1>1. ViewFits(v) /\ sel \in Sels /\ sel.anchor \in Spots
  BY DEF ScreenInv, SelFits
<1>2. PICK ls \in Seq(ScreenRows) : ls = Lines
  BY <1>1, LinesAre, LinesTyped DEF ViewFits
<1>3. PICK h : h = HeadAt(p)
  OBVIOUS
<1>4. h = [sel EXCEPT !.head = p, !.picked = BetweenIn(ls, sel.anchor, p)]
  BY <1>2, <1>3, BetweenIs DEF HeadAt
<1>5. SelFits(ls, h)
  BY <1>1, <1>4, HeadFits
<1>6. SelFits(ls, [h EXCEPT !.copy = TRUE])
  <2>1. PICK z : z = [h EXCEPT !.copy = TRUE]
    OBVIOUS
  <2>2. h \in Sels
    BY <1>5 DEF SelFits
  <2>3. z \in Sels /\ z.on = h.on /\ z.calm = h.calm /\ z.anchor = h.anchor /\ z.head = h.head /\ z.picked = h.picked
    BY <2>1, <2>2 DEF Sels
  <2>4. Copied(ls, h) => Copied(ls, z)
    BY <2>3 DEF Copied
  <2>5. QED
    BY <1>5, <2>1, <2>3, <2>4 DEF SelFits
<1>7. SelFits(Lines, sel')
  BY <1>2, <1>3, <1>5, <1>6
<1>8. QED
  BY <1>7, SameScreen

LEMMA FrameSpot == ASSUME ScreenInv, NEW i \in DOMAIN frame PROVE frame[i] \in Spots
BY DEF ScreenInv

LEMMA DownFits == ASSUME ScreenInv, NEW i \in DOMAIN frame, Down(i) PROVE ScreenInv'
<1>1. ViewFits(v) /\ scroll \in Scrolls
  BY DEF ScreenInv
<1>2. PICK ls \in Seq(ScreenRows) : ls = Lines
  BY <1>1, LinesAre, LinesTyped DEF ViewFits
<1>3. PICK p \in Spots : p = frame[i]
  BY FrameSpot
<1>4. PICK s : s = [NoSel EXCEPT !.on = TRUE, !.anchor = p]
  OBVIOUS
<1>5. s \in Sels /\ s.anchor = p
  <2>1. p \in Nat \X Nat
    BY DEF Spots
  <2>2. NoSel \in Sels
    BY NoSelFits DEF SelFits
  <2>3. QED
    BY <1>4, <2>1, <2>2 DEF Sels
<1>6. sel' = [s EXCEPT !.head = p, !.picked = BetweenIn(ls, s.anchor, p)]
  BY <1>2, <1>3, <1>4, <1>5, BetweenIs DEF Down, NoSel
<1>7. SelFits(Lines, sel')
  BY <1>2, <1>5, <1>6, HeadFits
<1>8. UNCHANGED <<v, said>> /\ Undrawn /\ scroll' \in Scrolls
  BY <1>1 DEF Down
<1>9. QED
  BY <1>7, <1>8, SameScreen

LEMMA DragFits == ASSUME ScreenInv, NEW i \in DOMAIN frame, Drag(i) PROVE ScreenInv'
<1>1. frame[i] \in Spots
  BY FrameSpot
<1>2. sel.on /\ UNCHANGED <<v, said>> /\ Undrawn /\ scroll' \in Scrolls /\ sel' = HeadAt(frame[i])
  BY DEF Drag, ScreenInv
<1>3. QED
  BY <1>1, <1>2, HeadKept

LEMMA KeyFits == ASSUME ScreenInv, Key PROVE ScreenInv'
<1>1. UNCHANGED <<v, said>> /\ Undrawn /\ scroll' \in Scrolls /\ sel' = NoSel
  BY DEF Key, ScreenInv
<1>2. QED
  BY <1>1, NoSelFits, SameScreen

LEMMA UpFits == ASSUME ScreenInv, NEW i \in DOMAIN frame, NEW moved, Up(i, moved) PROVE ScreenInv'
<1>1. ViewFits(v) /\ scroll \in Scrolls /\ said = ShownTexts(v) /\ Idle(v)
  BY DEF ScreenInv
<1>2. sel.on /\ said' = said /\ Undrawn
  BY DEF Up
<1>3. PICK hit : hit = {b \in v.blocks : b.row = frame[i][1]}
  OBVIOUS
<1>4. CASE ~(frame[i] = sel.anchor /\ ~moved)
  <2>1. UNCHANGED <<v, scroll>> /\ sel' = [HeadAt(frame[i]) EXCEPT !.copy = TRUE]
    BY <1>4 DEF Up
  <2>2. QED
    BY <1>1, <1>2, <2>1, FrameSpot, HeadKept
<1>5. CASE (frame[i] = sel.anchor /\ ~moved) /\ ~(v.live = NoLive /\ hit # {})
  <2>1. UNCHANGED <<v, scroll>> /\ sel' = NoSel
    BY <1>3, <1>5 DEF Up
  <2>2. QED
    BY <1>1, <1>2, <2>1, NoSelFits, SameScreen
<1>6. CASE (frame[i] = sel.anchor /\ ~moved) /\ v.live = NoLive /\ hit # {}
  <2>1. PICK b \in v.blocks : Click(b) /\ sel' = NoSel
    <3>1. sel' = NoSel /\ Click(CHOOSE b \in hit : TRUE)
      BY <1>3, <1>6 DEF Up
    <3>2. (CHOOSE b \in hit : TRUE) \in hit
      BY <1>6
    <3>3. QED
      BY <1>3, <3>1, <3>2
  <2>2. PICK w : w = toggle(v, b) /\ v' = w
    BY <2>1 DEF Click
  <2>3. Keeps(w, v)
    BY <1>1, <1>6, <2>2, ToggleFits
  <2>4. ViewFits(w) /\ ShownTexts(w) = ShownTexts(v) /\ Idle(w)
    BY <1>1, <2>3 DEF Keeps, ShownTexts, Idle
  <2>5. scroll' \in Scrolls
    <3>1. b.row \in Nat /\ b.row >= 1
      <4>1. b \in ScreenBlocks /\ BlockFit(v.rows, b, v.next)
        BY <1>1 DEF ViewFits, Views, BlocksFit
      <4>2. b.row \in PosOf(v.rows, Row(b.own, "sum"))
        BY <4>1 DEF BlockFit
      <4>3. b.row \in 1..Len(v.rows)
        BY <4>2 DEF PosOf
      <4>4. QED
        BY <4>3
    <3>2. current_top \in Nat
      BY <1>1, LinesAre, LinesTyped, TopTyped DEF ViewFits
    <3>3. PICK t \in Nat : t = IF b.kind = "thought" THEN current_top ELSE b.row - 1
      BY <3>1, <3>2
    <3>4. scroll' = [follow |-> FALSE, top |-> t]
      BY <2>1, <3>3 DEF Click
    <3>5. QED
      BY <3>4 DEF Scrolls
  <2>6. SelFits(Lines', sel')
    BY <2>1, NoSelFits
  <2>7. frame' = <<>>
    BY <1>2 DEF Undrawn
  <2>8. QED
    BY <1>1, <1>2, <2>2, <2>4, <2>5, <2>6, <2>7 DEF ScreenInv
<1>7. QED
  BY <1>4, <1>5, <1>6

LEMMA ScrollFits == ASSUME ScreenInv, frame # <<>>, NEW d \in {-1, 1}, scroll_by(d) PROVE ScreenInv'
<1>1. ViewFits(v) /\ scroll \in Scrolls /\ SelFits(Lines, sel)
  BY DEF ScreenInv
<1>2. PICK n \in Nat, mt \in Nat, ct \in Nat, H \in Nat : n = total /\ mt = max_top /\ ct = current_top /\ H = Height
  BY <1>1, LinesAre, LinesTyped, TopTyped, ScreenAssumption DEF ViewFits
<1>3. n > 0 /\ H > 0
  BY <1>2, ScreenAssumption DEF ScreenInv
<1>4. PICK to \in Nat : to = IF ct + d < 0 THEN 0 ELSE ct + d
  OBVIOUS
<1>5. PICK top \in Nat : top = IF to >= mt THEN mt ELSE to
  OBVIOUS
<1>6. PICK edge \in Nat \ {0} : edge = IF d < 0 THEN top + 1 ELSE IF top + H < n THEN top + H ELSE n
  BY <1>3
<1>7. /\ scroll' = IF to >= mt THEN [follow |-> TRUE, top |-> 0] ELSE [follow |-> FALSE, top |-> to]
      /\ sel' = IF sel.on /\ ~sel.copy THEN HeadAt(<<edge, IF d < 0 THEN 1 ELSE 2>>) ELSE sel
      /\ UNCHANGED <<v, said>> /\ Undrawn
  BY <1>2, <1>4, <1>5, <1>6 DEF scroll_by
<1>8. scroll' \in Scrolls
  BY <1>7 DEF Scrolls
<1>9. PICK k \in Nat : k = IF d < 0 THEN 1 ELSE 2
  OBVIOUS
<1>10. PICK p \in Spots : p = <<edge, k>>
  BY DEF Spots
<1>11. CASE sel.on /\ ~sel.copy
  <2>1. sel' = HeadAt(p)
    BY <1>7, <1>9, <1>10, <1>11
  <2>2. QED
    BY <1>7, <1>8, <1>11, <2>1, HeadKept
<1>12. CASE ~(sel.on /\ ~sel.copy)
  <2>1. sel' = sel
    BY <1>7, <1>12
  <2>2. QED
    BY <1>1, <1>7, <1>8, <2>1, SameScreen
<1>13. QED
  BY <1>11, <1>12

LEMMA ScreenSteps == ASSUME ScreenInv, [ScreenNext]_screenVars PROVE ScreenInv'
<1>1. CASE UNCHANGED screenVars
  <2>1. v' = v /\ scroll' = scroll /\ frame' = frame /\ sel' = sel /\ said' = said
    BY <1>1 DEF screenVars
  <2>2. Lines' = Lines
    BY <2>1, LinesAre, LinesNext
  <2>3. total' = total
    BY <2>2 DEF total
  <2>4. QED
    BY <2>1, <2>2, <2>3 DEF ScreenInv
<1>2. CASE Text
  BY <1>2, TextFits
<1>3. CASE Reasoning
  BY <1>3, ReasoningFits
<1>4. CASE Notice
  BY <1>4, NoticeFits
<1>5. CASE TurnOver
  BY <1>5, TurnOverFits
<1>6. CASE TurnBegins
  BY <1>6, TurnBeginsFits
<1>7. CASE Clear
  BY <1>7, ClearFits
<1>8. ASSUME NEW id \in Calls, ToolStart(id) PROVE ScreenInv'
  BY <1>8, ToolStartFits
<1>9. ASSUME NEW id \in Calls, NEW ok \in BOOLEAN, ToolEnd(id, ok) PROVE ScreenInv'
  BY <1>9, ToolEndFits
<1>10. CASE Draw
  BY <1>10, DrawFits
<1>11. ASSUME NEW i \in DOMAIN frame, Down(i) PROVE ScreenInv'
  BY <1>11, DownFits
<1>12. ASSUME NEW i \in DOMAIN frame, Drag(i) PROVE ScreenInv'
  BY <1>12, DragFits
<1>13. ASSUME NEW i \in DOMAIN frame, NEW b \in BOOLEAN, Up(i, b) PROVE ScreenInv'
  BY <1>13, UpFits
<1>14. CASE Key
  BY <1>14, KeyFits
<1>15. ASSUME frame # <<>>, NEW d \in {-1, 1}, scroll_by(d) PROVE ScreenInv'
  BY <1>15, ScrollFits
<1>16. QED
  BY <1>1, <1>2, <1>3, <1>4, <1>5, <1>6, <1>7, <1>8, <1>9, <1>10, <1>11, <1>12, <1>13, <1>14, <1>15 DEF ScreenNext

\* What the invariant says of a block that is open.
LEMMA OpenBody ==
  ASSUME NEW q \in Seq(ScreenRows), NEW o \in Nat, NEW y \in Nat, NEW k \in Nat,
         PosOf(q, Row(o, "body")) = (y + 1)..(y + k)
  PROVE  SubSeq(q, y + 1, y + k) = Rows(o, "body", k)
<1>1. PICK r \in ScreenRows : r = Row(o, "body")
  <2>1. Row(o, "body") \in ScreenRows
    BY RowTyped DEF RowParts
  <2>2. QED
    BY <2>1
<1>2. ASSUME NEW j \in (y + 1)..(y + k) PROVE q[j] = r
  BY <1>1 DEF PosOf
<1>3. y + 1 \in Int /\ y + k \in Int
  OBVIOUS
<1>4. \A j \in (y + 1)..(y + k) : q[j] \in ScreenRows
  BY <1>2
<1>5. PICK s : s = SubSeq(q, y + 1, y + k)
  OBVIOUS
<1>6. /\ s \in Seq(ScreenRows) /\ Len(s) = (IF y + 1 <= y + k THEN (y + k) - (y + 1) + 1 ELSE 0)
      /\ \A j \in 1..((y + k) - (y + 1) + 1) : s[j] = q[(y + 1) + j - 1]
  BY <1>3, <1>4, <1>5, SubSeqProperties
<1>7. Len(s) = k
  BY <1>6
<1>8. ASSUME NEW j \in 1..k PROVE s[j] = r
  <2>1. j \in 1..((y + k) - (y + 1) + 1) /\ (y + 1) + j - 1 \in (y + 1)..(y + k)
    OBVIOUS
  <2>2. QED
    BY <1>2, <1>6, <2>1
<1>9. Rows(o, "body", k) \in Seq(ScreenRows) /\ Len(Rows(o, "body", k)) = k /\ \A j \in 1..k : Rows(o, "body", k)[j] = r
  BY <1>1, RowsTyped DEF RowParts
<1>10. \A j \in 1..Len(s) : s[j] = Rows(o, "body", k)[j]
  BY <1>7, <1>8, <1>9
<1>11. QED
  BY <1>5, <1>6, <1>7, <1>9, <1>10, SeqEqual

LEMMA ScreenHolds == ASSUME ScreenInv PROVE ScreenSound
<1>1. PICK q \in Seq(ScreenRows) : q = v.rows /\ BlocksFit(q, v.blocks, v.next) /\ LivesFit(q, v.live, v.next)
  BY DEF ScreenInv, ViewFits, Views
<1>2. ASSUME NEW b \in v.blocks
      PROVE  /\ b.row \in DOMAIN q /\ q[b.row] = Row(b.own, "sum")
             /\ Cardinality({i \in DOMAIN q : q[i] = Row(b.own, "body")}) = IF b.open THEN b.len ELSE 0
             /\ b.open => SubSeq(q, b.row + 1, b.row + b.len) = Rows(b.own, "body", b.len)
  <2>1. PICK o \in Nat, y \in Nat, k \in Nat : o = b.own /\ y = b.row /\ k = b.len
    BY DEF ScreenInv, ViewFits, Views, ScreenBlocks
  <2>2. /\ PosOf(q, Row(o, "sum")) = {y}
        /\ PosOf(q, Row(o, "body")) = IF b.open THEN (y + 1)..(y + k) ELSE {}
    BY <1>1, <2>1 DEF BlocksFit, BlockFit
  <2>3. y \in DOMAIN q /\ q[y] = Row(o, "sum")
    <3>1. y \in PosOf(q, Row(o, "sum"))
      BY <2>2
    <3>2. QED
      BY <3>1 DEF PosOf
  <2>4. {i \in DOMAIN q : q[i] = Row(o, "body")} = PosOf(q, Row(o, "body"))
    BY DEF PosOf
  <2>5. Cardinality(PosOf(q, Row(o, "body"))) = IF b.open THEN k ELSE 0
    <3>1. CASE b.open
      <4>1. y + 1 \in Int /\ y + k \in Int
        OBVIOUS
      <4>2. Cardinality((y + 1)..(y + k)) = IF y + 1 > y + k THEN 0 ELSE (y + k) - (y + 1) + 1
        BY <4>1, FS_Interval
      <4>3. (IF y + 1 > y + k THEN 0 ELSE (y + k) - (y + 1) + 1) = k
        OBVIOUS
      <4>4. QED
        BY <2>2, <3>1, <4>2, <4>3
    <3>2. CASE ~b.open
      BY <2>2, <3>2, FS_EmptySet
    <3>3. QED
      BY <3>1, <3>2
  <2>6. b.open => SubSeq(q, y + 1, y + k) = Rows(o, "body", k)
    BY <2>2, OpenBody
  <2>7. QED
    BY <2>1, <2>3, <2>4, <2>5, <2>6
<1>3. ASSUME NEW id \in DOMAIN v.live
      PROVE  {i \in DOMAIN q : q[i] = Row(v.live[id].own, "call")} = v.live[id].start .. v.live[id].start + v.live[id].len - 1
  <2>1. PosOf(q, Row(v.live[id].own, "call")) = v.live[id].start..(v.live[id].start + v.live[id].len - 1)
    BY <1>1 DEF LivesFit, LiveFit
  <2>2. QED
    BY <2>1 DEF PosOf
<1>4. said = Texts(q) \o (IF v.text = 0 THEN <<>> ELSE <<v.text>>)
  BY <1>1 DEF ScreenInv, ShownTexts
<1>5. BlocksOnTheirRows
  BY <1>1, <1>2, <1>3, <1>4 DEF BlocksOnTheirRows
<1>6. CopiesWhatWasPicked
  <2>1. sel.on /\ sel.calm => Copied(Lines, sel)
    BY DEF ScreenInv, SelFits
  <2>2. Harvested = BetweenIn(Lines, sel.anchor, sel.head)
    BY BetweenIs DEF Harvested
  <2>3. QED
    BY <2>1, <2>2 DEF CopiesWhatWasPicked, HarvestsPicked, Copied
<1>7. QED
  BY <1>5, <1>6 DEF ScreenSound

\* However events, draws, clicks, drags and scrolls interleave, in a session begun or
\* resumed with any history, and whichever calls end in whichever order: every folded
\* thought and failed call is at its own row, an open one is followed by exactly its own
\* body, every live call owns exactly its rows, prompts and answers stay whole and in
\* order, and a selection under which no row moved copies what the user saw (the row
\* indices that app.rs and view.rs shift by hand).
THEOREM ScreenSoundAlways == ScreenSpec => []ScreenSound
<1>1. ScreenInit => ScreenInv
  BY ScreenStarts
<1>2. ScreenInv /\ [ScreenNext]_screenVars => ScreenInv'
  BY ScreenSteps
<1>3. ScreenInv => ScreenSound
  BY ScreenHolds
<1>4. QED
  BY <1>1, <1>2, <1>3, PTL DEF ScreenSpec

=============================================================================
