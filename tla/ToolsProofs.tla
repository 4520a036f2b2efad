----------------------------- MODULE ToolsProofs ----------------------------
(***************************************************************************)
(* Safety of the tools: the foreground shell, the background shells and    *)
(* their supervisor, the MCP servers, and the file tools with the journal  *)
(* that /rewind works from.                                                *)
(***************************************************************************)
EXTENDS Shell, BgShells, Mcp, Workspace, SequenceTheorems, FiniteSetTheorems, WellFoundedInduction, TLAPS

-----------------------------------------------------------------------------
(* Induction over an initial segment of the naturals, by least             *)
(* counterexample, and the functions it defines.                           *)

LEMMA Least ==
  ASSUME NEW S, S \subseteq Nat, S # {}
  PROVE  \E x \in S : \A y \in S : x <= y
<1> DEFINE Less == {ss \in Nat \X Nat : ss[1] < ss[2]}
<1>1. IsWellFoundedOn(Less, Nat)
  BY NatLessThanWellFounded, Zenon DEF OpToRel
<1> HIDE DEF Less
<1>2. PICK x \in S : \A y \in S : ~(<<y, x>> \in Less)
  BY <1>1, WFMin
<1>3. ASSUME NEW y \in S PROVE x <= y
  <2>1. <<y, x>> \in Nat \X Nat
    OBVIOUS
  <2>2. <<y, x>> \notin Less
    BY <1>2
  <2>3. QED
    BY <2>1, <2>2 DEF Less
<1>4. QED
  BY <1>3

LEMMA Climb ==
  ASSUME NEW L \in Nat, NEW S, 0 \in S, \A n \in 1..L : n - 1 \in S => n \in S
  PROVE  0..L \subseteq S
<1> DEFINE Bad == (0..L) \ S
<1>1. SUFFICES ASSUME Bad # {} PROVE FALSE
  OBVIOUS
<1>2. Bad \subseteq Nat
  OBVIOUS
<1>3. PICK m \in Bad : \A y \in Bad : m <= y
  BY <1>1, <1>2, Least, Zenon
<1>4. m \in 1..L /\ m - 1 \in 0..L /\ ~(m <= m - 1)
  OBVIOUS
<1>5. m - 1 \notin Bad
  BY <1>3, <1>4
<1>6. QED
  BY <1>4, <1>5

\* The function on 0..L that starts at e and goes on by F.
Iterates(h, L, S, e, F) ==
  h \in [0..L -> S] /\ h[0] = e /\ \A n \in 1..L : h[n] = F[<<n, h[n - 1]>>]

\* A step function on a set defines a function on the segment.
LEMMA Recursion ==
  ASSUME NEW S, NEW L, L \in Nat, NEW e, e \in S, NEW F, F \in [(1..L) \X S -> S]
  PROVE  \E h : Iterates(h, L, S, e, F)
<1> DEFINE Upto(m, h) == h \in [0..m -> S] /\ h[0] = e /\ \A n \in 1..m : h[n] = F[<<n, h[n - 1]>>]
           Good == {m \in 0..L : \E h : Upto(m, h)}
<1>1. 0 \in Good
  <2>1. Upto(0, [n \in 0..0 |-> e])
    OBVIOUS
  <2> HIDE DEF Upto
  <2>2. QED
    BY <2>1
<1>2. ASSUME NEW m \in 1..L, m - 1 \in Good PROVE m \in Good
  <2>1. PICK h : Upto(m - 1, h)
    BY <1>2
  <2>2. m - 1 \in 0..(m - 1) /\ h[m - 1] \in S /\ <<m, h[m - 1]>> \in (1..L) \X S
    BY <2>1
  <2>3. F[<<m, h[m - 1]>>] \in S
    BY <2>2
  <2> DEFINE v == F[<<m, h[m - 1]>>]
             g == [n \in 0..m |-> IF n = m THEN v ELSE h[n]]
  <2> HIDE DEF v
  <2>4. g \in [0..m -> S]
    <3>1. ASSUME NEW n \in 0..m PROVE (IF n = m THEN v ELSE h[n]) \in S
      <4>1. n # m => n \in 0..(m - 1)
        OBVIOUS
      <4>2. QED
        BY <2>1, <2>3, <4>1 DEF v
    <3>2. QED
      BY <3>1
  <2>5. g[0] = e
    BY <2>1
  <2>6. g[m] = v /\ g[m - 1] = h[m - 1]
    BY <2>2
  <2>7. ASSUME NEW n \in 1..m, n # m PROVE g[n] = F[<<n, g[n - 1]>>]
    <3>1. n \in 1..(m - 1) /\ n \in 0..m /\ n - 1 \in 0..m /\ n - 1 # m
      BY <2>7
    <3>2. g[n] = h[n] /\ g[n - 1] = h[n - 1]
      BY <2>7, <3>1
    <3>3. QED
      BY <2>1, <3>1, <3>2
  <2> HIDE DEF g
  <2>8. Upto(m, g)
    BY <2>4, <2>5, <2>6, <2>7 DEF v
  <2> HIDE DEF Upto
  <2>9. QED
    BY <2>8
<1>3. 0..L \subseteq Good
  <2> HIDE DEF Good
  <2>1. QED
    BY <1>1, <1>2, Climb
<1>4. L \in Good
  BY <1>3
<1>5. QED
  BY <1>4 DEF Iterates

-----------------------------------------------------------------------------
(* Where a command ends: the directory inferred from its text is the one   *)
(* the shell is in, for a list joined by && that popped nothing and        *)
(* succeeded.                                                              *)

Names4 == {"w", "a", "b", "home"}
Place == [dir : Seq(Names4), old : Seq(Names4), stack : Seq(Seq(Names4)), ok : BOOLEAN]
AndPart == [op : {"and"}, do : {"a", "b", "home", "dash", "push", "make"}, ok : BOOLEAN]
AndList == Seq(AndPart)

LEMMA StepTyped ==
  ASSUME NEW at \in Place, NEW s \in AndPart
  PROVE  ShellStep(at, s) \in Place
<1>1. /\ at.dir \in Seq(Names4) /\ at.old \in Seq(Names4) /\ at.stack \in Seq(Seq(Names4))
      /\ s.ok \in BOOLEAN /\ s.do \in {"a", "b", "home", "dash", "push", "make"}
  BY DEF Place, AndPart
<1>2. ASSUME s.do \in {"a", "b", "home", "push"} PROVE resolve_target(Target(s), at.dir) \in Seq(Names4)
  <2>1. <<"home">> \in Seq(Names4) /\ Append(at.dir, "a") \in Seq(Names4) /\ Append(at.dir, "b") \in Seq(Names4)
    BY <1>1 DEF Names4
  <2>2. Target(s) \in {"a", "b", "home"}
    BY <1>2 DEF Target
  <2>3. QED
    BY <2>1, <2>2 DEF resolve_target
<1> DEFINE to == IF s.do = "dash" THEN at.old ELSE resolve_target(Target(s), at.dir)
           stack == IF s.do = "push" THEN <<at.dir>> \o at.stack ELSE at.stack
<1>3. s.do # "make" => to \in Seq(Names4)
  BY <1>1, <1>2
<1>a. stack \in Seq(Seq(Names4))
  <2>1. <<at.dir>> \in Seq(Seq(Names4))
    BY <1>1
  <2>2. <<at.dir>> \o at.stack \in Seq(Seq(Names4))
    BY <1>1, <2>1
  <2>3. QED
    BY <1>1, <2>2
<1>6. ShellStep(at, s) \in {at, [at EXCEPT !.ok = FALSE], [at EXCEPT !.ok = TRUE]}
      \/ (s.do = "make" /\ ShellStep(at, s) = [at EXCEPT !.ok = s.ok])
      \/ (s.do # "make" /\ ShellStep(at, s) = [dir |-> to, old |-> at.dir, stack |-> stack, ok |-> TRUE])
  BY <1>1 DEF ShellStep, to
<1> HIDE DEF to, stack
<1>4. s.do # "make" => [dir |-> to, old |-> at.dir, stack |-> stack, ok |-> TRUE] \in Place
  BY <1>1, <1>3, <1>a DEF Place
<1>5. [at EXCEPT !.ok = s.ok] \in Place /\ [at EXCEPT !.ok = FALSE] \in Place /\ [at EXCEPT !.ok = TRUE] \in Place
  BY <1>1 DEF Place
<1>7. QED
  BY <1>4, <1>5, <1>6

\* A step that succeeds follows one that did, and went where it was told.
LEMMA StepFollows ==
  ASSUME NEW at \in Place, NEW s \in AndPart, s.do # "dash",
         ShellStep(at, s).ok
  PROVE  /\ at.ok
         /\ ShellStep(at, s).dir = IF s.do = "make" THEN at.dir ELSE resolve_target(Target(s), at.dir)
<1>1. at.ok /\ s.op = "and"
  BY DEF ShellStep, AndPart
<1>2. CASE s.do = "make"
  BY <1>1, <1>2 DEF ShellStep, Place
<1>3. CASE s.do # "make"
  <2>1. s.do \notin {"make", "popd", "dash"} /\ at \in Place
    BY <1>3 DEF AndPart
  <2> DEFINE to == resolve_target(Target(s), at.dir)
             stack == IF s.do = "push" THEN <<at.dir>> \o at.stack ELSE at.stack
  <2>2. ShellStep(at, s) \in {[at EXCEPT !.ok = FALSE],
                              [dir |-> to, old |-> at.dir, stack |-> stack, ok |-> TRUE]}
    BY <1>1, <2>1 DEF ShellStep
  <2> HIDE DEF to, stack
  <2>3. ShellStep(at, s).dir = to
    BY <2>1, <2>2 DEF Place
  <2>4. QED
    BY <1>1, <1>3, <2>3 DEF to
<1>4. QED
  BY <1>1, <1>2, <1>3

LEMMA ShellRunIs ==
  ASSUME NEW c \in AndList, NEW d \in Seq(Names4)
  PROVE  \E h \in [0..Len(c) -> Place] :
           /\ h[0] = [dir |-> d, old |-> d, stack |-> <<>>, ok |-> TRUE]
           /\ \A n \in 1..Len(c) : h[n] = ShellStep(h[n - 1], c[n])
           /\ ShellRun(c, d) = h[Len(c)]
<1> DEFINE e == [dir |-> d, old |-> d, stack |-> <<>>, ok |-> TRUE]
           F == [p \in (1..Len(c)) \X Place |-> ShellStep(p[2], c[p[1]])]
           Rec(h) == h = [n \in 0..Len(c) |-> IF n = 0 THEN e ELSE ShellStep(h[n - 1], c[n])]
<1>1. Len(c) \in Nat
  BY DEF AndList
<1>a. e \in Place
  <2>1. <<>> \in Seq(Seq(Names4))
    OBVIOUS
  <2>2. QED
    BY <2>1 DEF Place
<1>2. \A n \in 1..Len(c) : c[n] \in AndPart
  BY ElementOfSeq DEF AndList
<1>3. \A n \in 1..Len(c), at \in Place : ShellStep(at, c[n]) \in Place
  BY <1>2, StepTyped
<1>4. F \in [(1..Len(c)) \X Place -> Place]
  BY <1>3
<1>5. \A n \in 1..Len(c), at \in Place : F[<<n, at>>] = ShellStep(at, c[n])
  OBVIOUS
<1> HIDE DEF F, e
<1>6. PICK g \in [0..Len(c) -> Place] : g[0] = e /\ \A n \in 1..Len(c) : g[n] = F[<<n, g[n - 1]>>]
  <2>1. \E h : Iterates(h, Len(c), Place, e, F)
    BY <1>1, <1>a, <1>4, Recursion, Zenon
  <2>2. QED
    BY <2>1, Zenon DEF Iterates
<1>7. \A n \in 1..Len(c) : n - 1 \in 0..Len(c) /\ n \in 0..Len(c) /\ n # 0
  BY <1>1
<1>8. Rec(g)
  <2>1. ASSUME NEW n \in 0..Len(c) PROVE g[n] = IF n = 0 THEN e ELSE ShellStep(g[n - 1], c[n])
    <3>1. CASE n = 0
      BY <1>6, <3>1
    <3>2. CASE n # 0
      <4>1. n \in 1..Len(c) /\ g[n - 1] \in Place
        BY <1>1, <3>2
      <4>2. QED
        BY <1>5, <1>6, <3>2, <4>1
    <3>3. QED
      BY <3>1, <3>2
  <2>2. QED
    BY <2>1
<1> DEFINE h == CHOOSE f : Rec(f)
<1>9. Rec(h)
  BY <1>8
<1>10. ShellRun(c, d) = h[Len(c)]
  BY DEF ShellRun, e
<1> HIDE DEF h
<1>11. DOMAIN h = 0..Len(c) /\ h[0] = e /\ \A n \in 1..Len(c) : h[n] = ShellStep(h[n - 1], c[n])
  BY <1>1, <1>7, <1>9
<1>12. \A n \in 0..Len(c) : h[n] \in Place
  <2> DEFINE Typed == {n \in 0..Len(c) : h[n] \in Place}
  <2>1. 0 \in Typed
    BY <1>1, <1>11, <1>a
  <2>a. ASSUME NEW n \in 1..Len(c), n - 1 \in Typed PROVE n \in Typed
    <3>1. h[n - 1] \in Place /\ n \in 0..Len(c)
      BY <1>7, <2>a
    <3>2. ShellStep(h[n - 1], c[n]) \in Place
      BY <1>3, <3>1
    <3>3. QED
      BY <1>11, <3>1, <3>2
  <2>2. 0..Len(c) \subseteq Typed
    <3> HIDE DEF Typed
    <3>1. QED
      BY <1>1, <2>1, <2>a, Climb
  <2>3. QED
    BY <2>2
<1>13. h \in [0..Len(c) -> Place]
  BY <1>9, <1>12
<1>14. QED
  BY <1>10, <1>11, <1>13 DEF e

LEMMA InferIs ==
  ASSUME NEW c \in AndList, NEW d \in Seq(Names4), infer_cwd(c, d).some
  PROVE  /\ \A n \in 1..Len(c) : c[n].do # "dash"
         /\ \E h : /\ h[0] = d
                   /\ \A n \in 1..Len(c) :
                        h[n] = IF c[n].do = "make" THEN h[n - 1] ELSE resolve_target(Target(c[n]), h[n - 1])
                   /\ infer_cwd(c, d).dir = h[Len(c)]
<1> DEFINE Go(x, n) == IF c[n].do = "make" THEN x ELSE resolve_target(Target(c[n]), x)
           F == [p \in (1..Len(c)) \X Seq(Names4) |-> Go(p[2], p[1])]
           Rec(h) == h = [n \in 0..Len(c) |->
                            IF n = 0 THEN d
                            ELSE IF c[n].do = "make" THEN h[n - 1] ELSE resolve_target(Target(c[n]), h[n - 1])]
           h == CHOOSE f : Rec(f)
<1>1. Len(c) \in Nat /\ DOMAIN c = 1..Len(c)
  BY DEF AndList
<1>2. \A n \in 1..Len(c) : c[n] \in AndPart
  BY ElementOfSeq DEF AndList
<1>d. \A n \in 1..Len(c) : c[n].do # "popd"
  BY <1>2 DEF AndPart
<1>3. (\A n \in 1..Len(c) : c[n].do # "dash") /\ infer_cwd(c, d).dir = h[Len(c)]
  <2> DEFINE Made(f) == f = [n \in 0..Len(c) |->
                            IF n = 0 THEN d
                            ELSE IF c[n].do \in {"make", "popd"} THEN f[n - 1]
                            ELSE resolve_target(Target(c[n]), f[n - 1])]
  <2>1. (\A n \in 1..Len(c) : c[n].do # "dash") /\ infer_cwd(c, d).dir = (CHOOSE f : Made(f))[Len(c)]
    BY <1>1 DEF infer_cwd
  <2>2. ASSUME NEW f PROVE Made(f) <=> Rec(f)
    <3>1. \A n \in 0..Len(c) : n # 0 => n \in 1..Len(c)
      BY <1>1
    <3>2. \A n \in 0..Len(c) : n # 0 => (c[n].do \in {"make", "popd"} <=> c[n].do = "make")
      BY <1>d, <3>1
    <3>3. [n \in 0..Len(c) |-> IF n = 0 THEN d
                            ELSE IF c[n].do \in {"make", "popd"} THEN f[n - 1]
                            ELSE resolve_target(Target(c[n]), f[n - 1])]
          = [n \in 0..Len(c) |-> IF n = 0 THEN d
                            ELSE IF c[n].do = "make" THEN f[n - 1]
                            ELSE resolve_target(Target(c[n]), f[n - 1])]
      BY <3>2
    <3>4. QED
      BY <3>3
  <2> HIDE DEF Made, Rec
  <2>3. (CHOOSE f : Made(f)) = (CHOOSE f : Rec(f))
    BY <2>2
  <2>4. QED
    BY <2>1, <2>3
<1>4. \A n \in 1..Len(c), x \in Seq(Names4) : Go(x, n) \in Seq(Names4)
  <2>1. ASSUME NEW n \in 1..Len(c), NEW x \in Seq(Names4) PROVE Go(x, n) \in Seq(Names4)
    <3>1. c[n].do \in {"a", "b", "home", "push", "make"}
      BY <1>2, <1>3 DEF AndPart
    <3>2. <<"home">> \in Seq(Names4) /\ Append(x, "a") \in Seq(Names4) /\ Append(x, "b") \in Seq(Names4)
      BY DEF Names4
    <3>3. QED
      BY <3>1, <3>2 DEF resolve_target, Target
  <2>2. QED
    BY <2>1
<1> HIDE DEF Go
<1>5. F \in [(1..Len(c)) \X Seq(Names4) -> Seq(Names4)]
  BY <1>4
<1>6. \A n \in 1..Len(c), x \in Seq(Names4) : F[<<n, x>>] = Go(x, n)
  OBVIOUS
<1> HIDE DEF F
<1>a. Len(c) \in Nat
  BY <1>1
<1>7. PICK g \in [0..Len(c) -> Seq(Names4)] : g[0] = d /\ \A n \in 1..Len(c) : g[n] = F[<<n, g[n - 1]>>]
  <2>1. \E f : Iterates(f, Len(c), Seq(Names4), d, F)
    BY <1>a, <1>5, Recursion, Zenon
  <2>2. QED
    BY <2>1, Zenon DEF Iterates
<1>8. Rec(g)
  <2>1. ASSUME NEW n \in 0..Len(c)
        PROVE  g[n] = IF n = 0 THEN d
                      ELSE IF c[n].do = "make" THEN g[n - 1] ELSE resolve_target(Target(c[n]), g[n - 1])
    <3>1. CASE n = 0
      BY <1>7, <3>1
    <3>2. CASE n # 0
      <4>1. n \in 1..Len(c) /\ g[n - 1] \in Seq(Names4)
        BY <1>1, <3>2
      <4>2. g[n] = Go(g[n - 1], n)
        BY <1>6, <1>7, <4>1
      <4>3. QED
        BY <3>2, <4>2 DEF Go
    <3>3. QED
      BY <3>1, <3>2
  <2>2. QED
    BY <2>1
<1>9. Rec(h)
  BY <1>8
<1> HIDE DEF h
<1>10. \A n \in 1..Len(c) : n \in 0..Len(c) /\ n # 0
  BY <1>1
<1>b. 0 \in 0..Len(c)
  BY <1>1
<1>c. \A n \in 0..Len(c) :
         h[n] = IF n = 0 THEN d
                ELSE IF c[n].do = "make" THEN h[n - 1] ELSE resolve_target(Target(c[n]), h[n - 1])
  BY <1>9
<1>11. h[0] = d /\ \A n \in 1..Len(c) :
                     h[n] = IF c[n].do = "make" THEN h[n - 1] ELSE resolve_target(Target(c[n]), h[n - 1])
  BY <1>10, <1>b, <1>c
<1>12. QED
  BY <1>3, <1>11

LEMMA FollowsShell ==
  ASSUME NEW c \in AndList, NEW d \in Seq(Names4), infer_cwd(c, d).some, ShellRun(c, d).ok
  PROVE  infer_cwd(c, d).dir = ShellRun(c, d).dir
<1>1. PICK h \in [0..Len(c) -> Place] :
           /\ h[0] = [dir |-> d, old |-> d, stack |-> <<>>, ok |-> TRUE]
           /\ \A n \in 1..Len(c) : h[n] = ShellStep(h[n - 1], c[n])
           /\ ShellRun(c, d) = h[Len(c)]
  BY ShellRunIs
<1>2. \A n \in 1..Len(c) : c[n].do # "dash"
  BY InferIs
<1>3. PICK t : /\ t[0] = d
               /\ \A n \in 1..Len(c) :
                    t[n] = IF c[n].do = "make" THEN t[n - 1] ELSE resolve_target(Target(c[n]), t[n - 1])
               /\ infer_cwd(c, d).dir = t[Len(c)]
  BY InferIs
<1>4. Len(c) \in Nat /\ \A n \in 1..Len(c) : c[n] \in AndPart
  BY ElementOfSeq DEF AndList
<1> DEFINE Same == {n \in 0..Len(c) : h[n].ok => h[n].dir = t[n]}
<1>5. 0 \in Same
  BY <1>1, <1>3, <1>4
<1>6. ASSUME NEW n \in 1..Len(c), n - 1 \in Same PROVE n \in Same
  <2>1. n \in 0..Len(c) /\ n - 1 \in 0..Len(c) /\ h[n - 1] \in Place /\ c[n] \in AndPart
    BY <1>4
  <2>2. SUFFICES ASSUME h[n].ok PROVE h[n].dir = t[n]
    BY <2>1
  <2>3. ShellStep(h[n - 1], c[n]).ok /\ h[n] = ShellStep(h[n - 1], c[n])
    BY <1>1, <2>2
  <2>4. /\ h[n - 1].ok
        /\ h[n].dir = IF c[n].do = "make" THEN h[n - 1].dir ELSE resolve_target(Target(c[n]), h[n - 1].dir)
    BY <1>2, <2>1, <2>3, StepFollows
  <2>5. h[n - 1].dir = t[n - 1]
    BY <1>6, <2>4
  <2>6. QED
    BY <1>3, <2>4, <2>5
<1>7. 0..Len(c) \subseteq Same
  <2> HIDE DEF Same
  <2>1. QED
    BY <1>4, <1>5, <1>6, Climb
<1>8. Len(c) \in Same
  BY <1>4, <1>7
<1>9. QED
  BY <1>1, <1>3, <1>8

-----------------------------------------------------------------------------
(* The capture after g bytes: the first HeadCap of them, and the last of   *)
(* the others, as many as there is room for.                               *)

Least2(a, b) == IF a < b THEN a ELSE b

CaptureOf(c, g) ==
  /\ c.total = g
  /\ c.head \in Seq(Nat) /\ c.tail \in Seq(Nat)
  /\ Len(c.head) = Least2(g, HeadCap)
  /\ \A i \in 1..Len(c.head) : c.head[i] = i
  /\ Len(c.tail) = Least2(g - Len(c.head), Cap - HeadCap)
  /\ \A i \in 1..Len(c.tail) : c.tail[i] = g - Len(c.tail) + i

LEMMA HeadFits == HeadCap \in Nat /\ HeadCap <= Cap /\ Cap \in Nat
  BY ShellAssumption DEF HeadCap

LEMMA Joined ==
  ASSUME NEW S, NEW a \in Seq(S), NEW b \in Seq(S)
  PROVE  /\ a \o b \in Seq(S) /\ Len(a \o b) = Len(a) + Len(b) /\ Len(a) \in Nat /\ Len(b) \in Nat
         /\ \A i \in 1..Len(a) : (a \o b)[i] = a[i]
         /\ \A i \in 1..Len(b) : (a \o b)[Len(a) + i] = b[i]
  BY ConcatProperties

LEMMA Dropped ==
  ASSUME NEW S, NEW s \in Seq(S), NEW x \in Nat, x <= Len(s)
  PROVE  /\ SubSeq(s, x + 1, Len(s)) \in Seq(S)
         /\ Len(SubSeq(s, x + 1, Len(s))) = Len(s) - x
         /\ \A i \in 1..(Len(s) - x) : SubSeq(s, x + 1, Len(s))[i] = s[x + i]
<1>1. Len(s) \in Nat /\ \A i \in 1..Len(s) : s[i] \in S
  BY ElementOfSeq
<1>2. \A i \in (x + 1)..Len(s) : s[i] \in S
  BY <1>1
<1>3. x + 1 \in Int /\ Len(s) \in Int
  BY <1>1
<1>4. /\ SubSeq(s, x + 1, Len(s)) \in Seq(S)
      /\ Len(SubSeq(s, x + 1, Len(s))) = IF x + 1 <= Len(s) THEN Len(s) - (x + 1) + 1 ELSE 0
      /\ \A i \in 1..(Len(s) - (x + 1) + 1) : SubSeq(s, x + 1, Len(s))[i] = s[x + 1 + i - 1]
  BY <1>2, <1>3, SubSeqProperties
<1>5. Len(s) - (x + 1) + 1 = Len(s) - x /\ \A i \in Nat : x + 1 + i - 1 = x + i
  BY <1>1
<1>a. ~(x + 1 <= Len(s)) => Len(s) - x = 0
  BY <1>1
<1>6. Len(SubSeq(s, x + 1, Len(s))) = Len(s) - x
  BY <1>4, <1>5, <1>a
<1>7. ASSUME NEW i \in 1..(Len(s) - x) PROVE SubSeq(s, x + 1, Len(s))[i] = s[x + i]
  <2>1. i \in 1..(Len(s) - (x + 1) + 1) /\ x + 1 + i - 1 = x + i
    BY <1>1
  <2>2. QED
    BY <1>4, <2>1
<1>8. QED
  BY <1>4, <1>6, <1>7

\* However the output is cut into reads, a read leaves what one read of it all would.
LEMMA PushExact ==
  ASSUME NEW c, NEW g \in Nat, NEW n \in Nat, CaptureOf(c, g)
  PROVE  CaptureOf(push(c, [i \in 1..n |-> g + i]), g + n)
<1> DEFINE b == [i \in 1..n |-> g + i]
<1>1. b \in Seq(Nat) /\ Len(b) = n /\ \A i \in 1..n : b[i] = g + i
  OBVIOUS
<1> HIDE DEF b
<1>2. PICK h \in Seq(Nat), t \in Seq(Nat) : h = c.head /\ t = c.tail
  BY DEF CaptureOf
<1>3. /\ c.total = g /\ Len(h) = Least2(g, HeadCap) /\ \A i \in 1..Len(h) : h[i] = i
      /\ Len(t) = Least2(g - Len(h), Cap - HeadCap) /\ \A i \in 1..Len(t) : t[i] = g - Len(t) + i
  BY <1>2 DEF CaptureOf
<1>4. HeadCap \in Nat /\ HeadCap <= Cap /\ Cap \in Nat /\ Len(h) \in Nat /\ Len(t) \in Nat
  BY HeadFits
<1> DEFINE take == IF HeadCap - Len(h) < n THEN HeadCap - Len(h) ELSE n
<1>5. take \in 0..n /\ Len(h) + take = Least2(g + n, HeadCap) /\ (take > 0 => Len(h) = g) /\ (take < n => Len(h) + take = HeadCap)
  BY <1>3, <1>4 DEF Least2
<1>6. PICK k \in 0..n : k = take
  BY <1>5
<1>a. /\ HeadCap - Len(h) < n => k = HeadCap - Len(h)
      /\ ~(HeadCap - Len(h) < n) => k = n
  BY <1>6
<1> HIDE DEF take
<1>b. PICK u \in Seq(Nat) : u = SubSeq(b, 1, k) /\ Len(u) = k /\ \A i \in 1..k : u[i] = g + i
  <2>1. SubSeq(b, 1, k) \in Seq(Nat) /\ Len(SubSeq(b, 1, k)) = k
    BY <1>1
  <2>2. ASSUME NEW i \in 1..k PROVE SubSeq(b, 1, k)[i] = g + i
    BY <1>1
  <2>3. QED
    BY <2>1, <2>2
<1>c. PICK w \in Seq(Nat) : w = SubSeq(b, k + 1, n) /\ Len(w) = n - k /\ \A i \in 1..(n - k) : w[i] = g + k + i
  <2>1. SubSeq(b, k + 1, n) \in Seq(Nat) /\ Len(SubSeq(b, k + 1, n)) = n - k
    BY <1>1
  <2>2. ASSUME NEW i \in 1..(n - k) PROVE SubSeq(b, k + 1, n)[i] = g + k + i
    <3>1. k + i \in 1..n /\ k + 1 + i - 1 = k + i
      OBVIOUS
    <3>2. SubSeq(b, k + 1, n)[i] = b[k + i]
      BY <1>1, <3>1
    <3>3. QED
      BY <1>1, <3>1, <3>2
  <2>3. QED
    BY <2>1, <2>2
<1>t. /\ Len(h) + k = Least2(g + n, HeadCap)
      /\ Least2((Len(t) + n) - k, Cap - HeadCap) = Least2((g + n) - (Len(h) + k), Cap - HeadCap)
      /\ k > 0 => Len(h) = g
      /\ Len(t) > 0 => k = 0
  <2>1. PICK hc \in Nat : hc = HeadCap
    BY <1>4
  <2>2. PICK r \in Nat : r = Cap - HeadCap
    BY <1>4
  <2>3. PICK lh \in Nat : lh = Len(h)
    BY <1>4
  <2>4. PICK lt \in Nat : lt = Len(t)
    BY <1>4
  <2>5. lh = Least2(g, hc) /\ lt = Least2(g - lh, r)
    BY <1>3, <2>1, <2>2, <2>3, <2>4, Zenon
  <2>6. (hc - lh < n => k = hc - lh) /\ (~(hc - lh < n) => k = n)
    BY <1>a, <2>1, <2>3, Zenon
  <2>7. /\ lh + k = Least2(g + n, hc)
        /\ Least2((lt + n) - k, r) = Least2((g + n) - (lh + k), r)
        /\ k > 0 => lh = g
        /\ lt > 0 => k = 0
    <3>1. hc - lh < n => k = hc - lh
      BY <2>6
    <3>2. ~(hc - lh < n) => k = n
      BY <2>6
    <3>3. lh = Least2(g, hc)
      BY <2>5
    <3>4. lt = Least2(g - lh, r)
      BY <2>5
    <3>5. QED
      BY <3>1, <3>2, <3>3, <3>4, SMTT(60) DEF Least2
  <2>8. QED
    BY <2>1, <2>2, <2>3, <2>4, <2>7, Zenon
<1>7. PICK H \in Seq(Nat) : /\ H = h \o u /\ Len(H) = Len(h) + k
                            /\ \A i \in 1..Len(h) : H[i] = h[i]
                            /\ \A i \in 1..k : H[Len(h) + i] = u[i]
  <2>1. /\ h \o u \in Seq(Nat) /\ Len(h \o u) = Len(h) + Len(u)
        /\ \A i \in 1..Len(h) : (h \o u)[i] = h[i]
        /\ \A i \in 1..Len(u) : (h \o u)[Len(h) + i] = u[i]
    BY Joined
  <2>2. Len(u) = k
    BY <1>b
  <2>3. QED
    BY <2>1, <2>2, Zenon
<1>8. ASSUME NEW i \in 1..Len(H) PROVE H[i] = i
  <2>1. i \in 1..Len(h) \/ (i - Len(h) \in 1..k /\ i = Len(h) + (i - Len(h)))
    BY <1>4, <1>7
  <2>2. CASE i \in 1..Len(h)
    BY <1>3, <1>7, <2>2
  <2>3. CASE i - Len(h) \in 1..k /\ i = Len(h) + (i - Len(h))
    <3>a. i - Len(h) \in 1..k /\ i = Len(h) + (i - Len(h)) /\ k > 0
      BY <1>4, <2>3
    <3>1. PICK j \in 1..k : i = Len(h) + j /\ k > 0
      BY <3>a, Zenon
    <3>2. H[i] = g + j
      BY <1>7, <1>b, <3>1
    <3>3. QED
      BY <1>t, <3>1, <3>2
  <2>4. QED
    BY <2>1, <2>2, <2>3
<1>9. PICK M \in Seq(Nat) : /\ M = t \o w /\ Len(M) = Len(t) + (n - k)
                            /\ \A i \in 1..Len(t) : M[i] = t[i]
                            /\ \A i \in 1..(n - k) : M[Len(t) + i] = w[i]
  <2>1. /\ t \o w \in Seq(Nat) /\ Len(t \o w) = Len(t) + Len(w)
        /\ \A i \in 1..Len(t) : (t \o w)[i] = t[i]
        /\ \A i \in 1..Len(w) : (t \o w)[Len(t) + i] = w[i]
    BY Joined
  <2>2. Len(w) = n - k
    BY <1>c
  <2>3. QED
    BY <2>1, <2>2, Zenon
<1>d. PICK lm \in Nat : lm = Len(M)
  <2>1. Len(M) \in Nat
    OBVIOUS
  <2>2. QED
    BY <2>1, Zenon
<1>10. ASSUME NEW i \in 1..lm PROVE M[i] = (g + n) - lm + i
  <2>1. i \in 1..Len(t) \/ (i - Len(t) \in 1..(n - k) /\ i = Len(t) + (i - Len(t)))
    BY <1>4, <1>9, <1>d
  <2>2. CASE i \in 1..Len(t)
    <3>1. k = 0 /\ lm = Len(t) + n
      BY <1>4, <1>9, <1>d, <1>t, <2>2
    <3>2. M[i] = g - Len(t) + i
      BY <1>3, <1>9, <2>2
    <3>3. QED
      BY <1>4, <3>1, <3>2
  <2>3. CASE i - Len(t) \in 1..(n - k) /\ i = Len(t) + (i - Len(t))
    <3>1. PICK j \in 1..(n - k) : i = Len(t) + j
      BY <2>3, Zenon
    <3>2. M[i] = g + k + j /\ lm = Len(t) + (n - k)
      BY <1>9, <1>c, <1>d, <3>1
    <3>3. QED
      BY <1>4, <3>1, <3>2
  <2>4. QED
    BY <2>1, <2>2, <2>3
<1>11. PICK R \in Nat : R = Cap - HeadCap
  BY <1>4
<1>12. PICK T \in Seq(Nat) : /\ T = IF lm - R > 0 THEN SubSeq(M, lm - R + 1, lm) ELSE M
                             /\ Len(T) = Least2(lm, R)
                             /\ \A i \in 1..Len(T) : T[i] = (g + n) - Len(T) + i
  <2>1. CASE lm - R > 0
    <3>1. PICK x \in Nat : x = lm - R /\ x <= lm /\ lm - x = R
      BY <2>1
    <3>2. PICK T \in Seq(Nat) : /\ T = SubSeq(M, x + 1, lm) /\ Len(T) = lm - x
                                /\ \A i \in 1..(lm - x) : T[i] = M[x + i]
      <4>1. x <= Len(M)
        BY <1>d, <3>1
      <4>2. /\ SubSeq(M, x + 1, Len(M)) \in Seq(Nat)
            /\ Len(SubSeq(M, x + 1, Len(M))) = Len(M) - x
            /\ \A i \in 1..(Len(M) - x) : SubSeq(M, x + 1, Len(M))[i] = M[x + i]
        BY <4>1, Dropped, Zenon
      <4>3. QED
        BY <1>d, <4>2, Zenon
    <3>3. Len(T) = R /\ Len(T) = Least2(lm, R)
      BY <2>1, <3>1, <3>2 DEF Least2
    <3>4. ASSUME NEW i \in 1..R PROVE T[i] = (g + n) - R + i
      <4>1. x + i \in 1..lm /\ lm = x + R
        BY <3>1
      <4>2. T[i] = (g + n) - lm + (x + i)
        BY <1>10, <3>1, <3>2, <4>1
      <4>3. QED
        BY <4>1, <4>2
    <3>5. T = IF lm - R > 0 THEN SubSeq(M, lm - R + 1, lm) ELSE M
      BY <2>1, <3>1, <3>2
    <3>6. QED
      BY <3>3, <3>4, <3>5
  <2>2. CASE ~(lm - R > 0)
    <3>1. lm = Least2(lm, R)
      BY <2>2 DEF Least2
    <3>2. QED
      BY <1>10, <1>d, <2>2, <3>1
  <2>3. QED
    BY <2>1, <2>2
<1>13. push(c, b) = [head |-> H, tail |-> T, total |-> g + n]
  <2>1. c.total + Len(b) = g + n /\ Len(b) = n
    BY <1>1, <1>3
  <2>2. k = IF HeadCap - Len(c.head) < Len(b) THEN HeadCap - Len(c.head) ELSE Len(b)
    BY <1>2, <1>a, <2>1
  <2>3. H = c.head \o SubSeq(b, 1, k) /\ M = c.tail \o SubSeq(b, k + 1, Len(b))
    BY <1>2, <1>7, <1>9, <1>b, <1>c, <2>1
  <2>4. T = IF Len(M) - (Cap - HeadCap) > 0 THEN SubSeq(M, Len(M) - (Cap - HeadCap) + 1, Len(M)) ELSE M
    BY <1>11, <1>12, <1>d
  <2>5. QED
    BY <2>1, <2>2, <2>3, <2>4, Zenon DEF push
<1>14. Len(H) = Least2(g + n, HeadCap) /\ Len(T) = Least2((g + n) - Len(H), Cap - HeadCap)
  <2>1. lm = (Len(t) + n) - k
    BY <1>4, <1>9, <1>d
  <2>2. QED
    BY <1>7, <1>11, <1>12, <1>t, <2>1
<1>15. QED
  <2>1. PICK G \in Nat : G = g + n
    OBVIOUS
  <2>2. PICK r : r = [head |-> H, tail |-> T, total |-> G]
    OBVIOUS
  <2>3. r.head = H /\ r.tail = T /\ r.total = G
    BY <2>2
  <2>4. r.head \in Seq(Nat) /\ r.tail \in Seq(Nat)
    BY <2>3
  <2>5. \A i \in 1..Len(r.head) : r.head[i] = i
    BY <1>8, <2>3
  <2>6. \A i \in 1..Len(r.tail) : r.tail[i] = G - Len(r.tail) + i
    <3>1. \A i \in 1..Len(T) : T[i] = G - Len(T) + i
      BY <1>12, <2>1
    <3>2. r.tail = T
      BY <2>3
    <3>3. QED
      BY <3>1, <3>2, Zenon
  <2>7. Len(r.head) = Least2(G, HeadCap) /\ Len(r.tail) = Least2(G - Len(r.head), Cap - HeadCap)
    <3>1. Len(H) = Least2(G, HeadCap) /\ Len(T) = Least2(G - Len(H), Cap - HeadCap)
      BY <1>14, <2>1, Zenon
    <3>2. r.head = H /\ r.tail = T
      BY <2>3
    <3>3. QED
      BY <3>1, <3>2, Zenon
  <2>8. CaptureOf(r, G)
    <3>1. r.total = G
      BY <2>3
    <3>2. QED
      BY <2>4, <2>5, <2>6, <2>7, <3>1, Zenon DEF CaptureOf
  <2>9. QED
    BY <1>13, <2>1, <2>2, <2>8 DEF b

\* What is retained, read back.
LEMMA RendersExact ==
  ASSUME got \in Nat, CaptureOf(capture, got)
  PROVE  CaptureExact
<1>1. PICK h \in Seq(Nat) : h = capture.head
  BY DEF CaptureOf
<1>2. PICK t \in Seq(Nat) : t = capture.tail
  BY DEF CaptureOf
<1>3. /\ capture.total = got /\ Len(h) = Least2(got, HeadCap) /\ \A i \in 1..Len(h) : h[i] = i
      /\ Len(t) = Least2(got - Len(h), Cap - HeadCap) /\ \A i \in 1..Len(t) : t[i] = got - Len(t) + i
  BY <1>1, <1>2 DEF CaptureOf
<1>4. HeadCap \in Nat /\ HeadCap <= Cap /\ Cap \in Nat /\ Len(h) \in Nat /\ Len(t) \in Nat
  BY HeadFits
<1>5. Len(h) + Len(t) <= got /\ Len(h) <= got /\ Len(t) <= got /\ (got <= Cap => Len(h) + Len(t) = got)
  BY <1>3, <1>4 DEF Least2
<1> DEFINE all == [i \in 1..got |-> i]
<1>6. all \in Seq(Nat) /\ Len(all) = got /\ \A i \in 1..got : all[i] = i
  OBVIOUS
<1> HIDE DEF all
<1>7. IsPrefix(h, all)
  <2>1. \A i \in 1..Len(h) : i \in 1..got
    BY <1>4, <1>5
  <2>2. SubSeq(h, 1, Len(h)) = SubSeq(all, 1, Len(h))
    <3>1. \A i \in 1..Len(h) : SubSeq(h, 1, Len(h))[i] = h[i] /\ SubSeq(all, 1, Len(h))[i] = all[i]
      BY <1>4, <1>5, <1>6
    <3>2. ASSUME NEW i \in 1..Len(h) PROVE SubSeq(h, 1, Len(h))[i] = SubSeq(all, 1, Len(h))[i]
      BY <1>3, <1>6, <2>1, <3>1
    <3>3. /\ SubSeq(h, 1, Len(h)) \in Seq(Nat) /\ Len(SubSeq(h, 1, Len(h))) = Len(h)
          /\ SubSeq(all, 1, Len(h)) \in Seq(Nat) /\ Len(SubSeq(all, 1, Len(h))) = Len(h)
      BY <1>4, <1>5, <1>6
    <3>4. QED
      BY <3>2, <3>3, SeqEqual
  <2>3. QED
    BY <1>5, <1>6, <2>2 DEF IsPrefix
<1>8. IsSuffix(t, all)
  <2> DEFINE rt == Reverse(t)
             ra == Reverse(all)
  <2>1. rt \in Seq(Nat) /\ Len(rt) = Len(t) /\ \A i \in 1..Len(t) : rt[i] = t[(Len(t) - i) + 1]
    <3>1. \A i \in 1..Len(t) : (Len(t) - i) + 1 \in 1..Len(t) /\ t[(Len(t) - i) + 1] \in Nat
      BY <1>4, ElementOfSeq
    <3>2. QED
      BY <1>4, <3>1 DEF Reverse
  <2>2. ra \in Seq(Nat) /\ Len(ra) = got /\ \A i \in 1..got : ra[i] = (got - i) + 1
    <3>1. \A i \in 1..got : (got - i) + 1 \in 1..got /\ (got - i) + 1 \in Nat
      OBVIOUS
    <3>2. ra = [i \in 1..got |-> (got - i) + 1]
      BY <1>6, <3>1 DEF Reverse
    <3> HIDE DEF ra
    <3>3. QED
      BY <3>1, <3>2
  <2> HIDE DEF rt, ra
  <2>3. ASSUME NEW i \in 1..Len(t) PROVE rt[i] = ra[i]
    <3>1. (Len(t) - i) + 1 \in 1..Len(t) /\ i \in 1..got
      BY <1>4, <1>5
    <3>2. rt[i] = got - Len(t) + ((Len(t) - i) + 1)
      BY <1>3, <2>1, <3>1
    <3>3. QED
      BY <1>4, <2>2, <3>1, <3>2
  <2>4. SubSeq(rt, 1, Len(t)) = SubSeq(ra, 1, Len(t))
    <3>1. \A i \in 1..Len(t) : SubSeq(rt, 1, Len(t))[i] = rt[i] /\ SubSeq(ra, 1, Len(t))[i] = ra[i]
      BY <1>4, <1>5, <2>1, <2>2
    <3>2. ASSUME NEW i \in 1..Len(t) PROVE SubSeq(rt, 1, Len(t))[i] = SubSeq(ra, 1, Len(t))[i]
      BY <2>3, <3>1
    <3>3. /\ SubSeq(rt, 1, Len(t)) \in Seq(Nat) /\ Len(SubSeq(rt, 1, Len(t))) = Len(t)
          /\ SubSeq(ra, 1, Len(t)) \in Seq(Nat) /\ Len(SubSeq(ra, 1, Len(t))) = Len(t)
      <4>1. SubSeq(rt, 1, Len(t)) \in Seq(Nat) /\ Len(SubSeq(rt, 1, Len(t))) = Len(t)
        BY <1>4, <2>1
      <4>2. SubSeq(ra, 1, Len(t)) \in Seq(Nat) /\ Len(SubSeq(ra, 1, Len(t))) = Len(t)
        <5>1. ra \in Seq(Nat) /\ Len(t) \in 0..Len(ra)
          BY <1>4, <1>5, <2>2
        <5>2. QED
          BY <5>1
      <4>3. QED
        BY <4>1, <4>2
    <3>4. QED
      BY <3>2, <3>3, SeqEqual
  <2>5. QED
    BY <1>5, <2>1, <2>2, <2>4 DEF IsSuffix, IsPrefix, rt, ra
<1>9. /\ h \o t \in Seq(Nat) /\ Len(h \o t) = Len(h) + Len(t)
      /\ \A i \in 1..Len(h) : (h \o t)[i] = h[i]
      /\ \A i \in 1..Len(t) : (h \o t)[Len(h) + i] = t[i]
  BY Joined
<1>10. ASSUME Len(h) + Len(t) = got PROVE h \o t = all
  <2>1. ASSUME NEW i \in 1..got PROVE (h \o t)[i] = all[i]
    <3>1. i \in 1..Len(h) \/ (i - Len(h) \in 1..Len(t) /\ i = Len(h) + (i - Len(h)))
      BY <1>4, <1>10
    <3>2. CASE i \in 1..Len(h)
      BY <1>3, <1>6, <1>9, <3>2
    <3>3. CASE i - Len(h) \in 1..Len(t) /\ i = Len(h) + (i - Len(h))
      <4>1. PICK j \in 1..Len(t) : i = Len(h) + j
        BY <3>3, Zenon
      <4>2. (h \o t)[i] = got - Len(t) + j
        BY <1>3, <1>9, <4>1
      <4>3. QED
        BY <1>4, <1>6, <1>10, <4>1, <4>2
    <3>4. QED
      BY <3>1, <3>2, <3>3
  <2>2. QED
    BY <1>6, <1>9, <1>10, <2>1, SeqEqual
<1>11. Len(h) + Len(t) # got => h \o t # all
  BY <1>6, <1>9
<1>12. render(capture) = [truncated |-> got > Len(h) + Len(t), bytes |-> h \o t]
  BY <1>1, <1>2, <1>3 DEF render
<1>13. render(capture).truncated <=> render(capture).bytes # all
  <2>1. render(capture).truncated = (got > Len(h) + Len(t)) /\ render(capture).bytes = h \o t
    BY <1>12
  <2>2. got > Len(h) + Len(t) <=> Len(h) + Len(t) # got
    BY <1>4, <1>5, SMTT(60)
  <2>3. QED
    BY <1>10, <1>11, <2>1, <2>2, Zenon
<1>14. got <= Cap => render(capture).bytes = all
  BY <1>5, <1>10, <1>12
<1>15. QED
  BY <1>1, <1>2, <1>7, <1>8, <1>13, <1>14 DEF CaptureExact, all

-----------------------------------------------------------------------------
(* The call. Its processes and its capture are right whatever joins the     *)
(* parts of the command; the directory needs a straight list.               *)

Counted == got \in Nat /\ sent \in Nat /\ CaptureOf(capture, got)

Placed ==
  /\ cwd \in Seq(Names4) /\ before \in Seq(Names4)
  /\ resolve_within(cwd)
  /\ call = "run" => cwd = before
  /\ call = "run" /\ leader = "exit0" => ShellRun(cmd, before).ok

\* A straight list leaves later tools where it ended, or where it began.
AndFollows ==
  /\ cmd \in Seq(SubCommands)
  /\ call = "ok" /\ Straight(cmd) => cwd \in {before, ShellRun(cmd, before).dir}

ShellInv == GroupGone /\ Counted /\ Placed /\ AndFollows

LEMMA ExistsTyped == Exists \subseteq Seq(Names4)
<1>1. "w" \in Names4 /\ "a" \in Names4 /\ "b" \in Names4 /\ "home" \in Names4
  BY DEF Names4
<1>2. <<"w">> \in Seq(Names4) /\ <<"w", "a">> \in Seq(Names4) /\ <<"w", "a", "b">> \in Seq(Names4) /\ <<"home">> \in Seq(Names4)
  BY <1>1
<1>3. QED
  BY <1>2 DEF Exists

LEMMA StraightIsAnd ==
  ASSUME NEW c \in Seq(SubCommands), Straight(c)
  PROVE  c \in AndList
<1>1. ASSUME NEW i \in 1..Len(c) PROVE c[i] \in AndPart
  <2>1. c[i] \in SubCommands /\ c[i].op = "and" /\ c[i].do # "popd"
    BY ElementOfSeq DEF Straight
  <2>2. QED
    BY <2>1 DEF SubCommands, AndPart
<1>2. Len(c) \in Nat /\ c \in [1..Len(c) -> AndPart]
  BY <1>1
<1>3. QED
  BY <1>2 DEF AndList

LEMMA ShellStarts == ASSUME ShellInit PROVE ShellInv
<1>1. Counted
  <2>1. capture.head = <<>> /\ capture.tail = <<>> /\ capture.total = 0 /\ got = 0 /\ sent = 0
    BY DEF ShellInit, EmptyCapture
  <2>2. <<>> \in Seq(Nat) /\ Len(<<>>) = 0
    OBVIOUS
  <2>3. Least2(0, HeadCap) = 0 /\ Least2(0 - 0, Cap - HeadCap) = 0
    BY HeadFits DEF Least2
  <2>4. QED
    BY <2>1, <2>2, <2>3 DEF Counted, CaptureOf
<1>2. Placed
  <2>1. <<"w">> \in Exists /\ <<"w">> \in Seq(Names4)
    BY ExistsTyped DEF Exists
  <2>2. IsPrefix(<<"w">>, <<"w">>)
    BY DEF IsPrefix
  <2>3. QED
    BY <2>1, <2>2 DEF ShellInit, Placed, resolve_within
<1>3. cmd \in Seq(SubCommands)
  BY DEF ShellInit
<1>4. QED
  BY <1>1, <1>2, <1>3 DEF ShellInit, ShellInv, GroupGone, AndFollows

LEMMA ShellSteps == ASSUME ShellInv, [ShellNext]_shellVars PROVE ShellInv'
<1> USE DEF ShellInv
<1>1. CASE Refuse
  <2>1. call # "run" /\ call' = "refused" /\ UNCHANGED <<cwd, cmd, before, leader, kids, sent, got, capture>>
    BY <1>1 DEF Refuse
  <2>2. Counted'
    BY <2>1 DEF Counted
  <2>3. QED
    BY <2>1, <2>2 DEF GroupGone, Placed, AndFollows
<1>2. ASSUME NEW n \in 1..MaxCmds, NEW c \in [1..n -> SubCommands], Spawn(c) PROVE ShellInv'
  <2>1. /\ call' = "run" /\ cmd' = c /\ before' = cwd /\ leader' = "run" /\ kids' = {}
        /\ sent' = 0 /\ got' = 0 /\ capture' = EmptyCapture /\ cwd' = cwd
    BY <1>2 DEF Spawn
  <2>2. Counted'
    <3>1. capture'.head = <<>> /\ capture'.tail = <<>> /\ capture'.total = 0
      BY <2>1 DEF EmptyCapture
    <3>2. <<>> \in Seq(Nat) /\ Len(<<>>) = 0
      OBVIOUS
    <3>3. Least2(0, HeadCap) = 0 /\ Least2(0 - 0, Cap - HeadCap) = 0
      BY HeadFits DEF Least2
    <3>4. CaptureOf(capture', 0)
      BY <3>1, <3>2, <3>3 DEF CaptureOf
    <3>5. QED
      BY <2>1, <3>4 DEF Counted
  <2>3. c \in Seq(SubCommands)
    OBVIOUS
  <2>4. QED
    BY <2>1, <2>2, <2>3 DEF GroupGone, Placed, AndFollows
<1>3. ASSUME NEW k \in {"piped", "silent", "escaped"}, Fork(k) PROVE ShellInv'
  <2>1. leader = "run" /\ call = "run" /\ UNCHANGED <<cwd, calls, call, cmd, before, leader, sent, got, capture>>
    BY <1>3 DEF Fork, GroupGone
  <2>2. Counted'
    BY <2>1 DEF Counted
  <2>3. QED
    BY <2>1, <2>2 DEF GroupGone, Placed, AndFollows
<1>4. ASSUME NEW k, KidExit(k) PROVE ShellInv'
  <2>1. kids' \subseteq kids /\ UNCHANGED <<cwd, calls, call, cmd, before, leader, sent, got, capture>>
    BY <1>4 DEF KidExit
  <2>2. Counted'
    BY <2>1 DEF Counted
  <2>3. QED
    BY <2>1, <2>2 DEF GroupGone, Placed, AndFollows
<1>5. CASE Output
  <2>1. sent' = sent + 1 /\ UNCHANGED <<cwd, calls, call, cmd, before, leader, kids, got, capture>>
    BY <1>5 DEF Output
  <2>2. Counted'
    <3>1. sent' \in Nat
      BY <2>1 DEF Counted
    <3>2. QED
      BY <2>1, <3>1 DEF Counted
  <2>3. QED
    BY <2>1, <2>2 DEF GroupGone, Placed, AndFollows
<1>6. CASE LeaderExit
  <2>1. /\ leader = "run" /\ leader' = IF ShellRun(cmd, before).ok THEN "exit0" ELSE "exit1"
        /\ UNCHANGED <<cwd, calls, call, cmd, before, kids, sent, got, capture>>
    BY <1>6 DEF LeaderExit
  <2>2. Counted'
    BY <2>1 DEF Counted
  <2>3. call = "run" /\ (leader' = "exit0" => ShellRun(cmd', before').ok)
    BY <2>1 DEF GroupGone
  <2>4. QED
    BY <2>1, <2>2, <2>3 DEF GroupGone, Placed, AndFollows
<1>7. ASSUME NEW n \in 1..MaxChunk, Drain(n) PROVE ShellInv'
  <2>1. /\ call = "run" /\ got' = got + n /\ capture' = push(capture, [i \in 1..n |-> got + i])
        /\ UNCHANGED <<cwd, calls, call, cmd, before, leader, kids, sent>>
    BY <1>7 DEF Drain
  <2>2. Counted'
    <3>1. n \in Nat /\ got \in Nat /\ sent \in Nat /\ CaptureOf(capture, got)
      BY ShellAssumption DEF Counted
    <3>2. CaptureOf(push(capture, [i \in 1..n |-> got + i]), got + n)
      BY <3>1, PushExact
    <3>3. got' \in Nat
      BY <2>1, <3>1
    <3>4. CaptureOf(capture', got')
      BY <2>1, <3>2
    <3>5. QED
      BY <2>1, <3>1, <3>3, <3>4 DEF Counted
  <2>3. QED
    BY <2>1, <2>2 DEF GroupGone, Placed, AndFollows
<1>8. CASE Finish
  <2> DEFINE to == infer_cwd(cmd, before)
  <2>1. /\ call = "run" /\ call' = "ok" /\ kids' \subseteq {"escaped"} /\ leader # "run"
        /\ cwd' = IF leader = "exit0" /\ to.some /\ resolve_within(to.dir) THEN to.dir ELSE cwd
        /\ UNCHANGED <<calls, cmd, before, leader, sent, got, capture>>
    BY <1>8 DEF Finish, KillGroup, Eof
  <2>2. Counted'
    BY <2>1 DEF Counted
  <2>3. CASE leader = "exit0" /\ to.some /\ resolve_within(to.dir)
    <3>1. cwd' = to.dir /\ resolve_within(to.dir) /\ to.dir \in Seq(Names4)
      BY <2>1, <2>3, ExistsTyped DEF resolve_within
    <3>2. ASSUME Straight(cmd) PROVE to.dir = ShellRun(cmd, before).dir
      <4>1. before \in Seq(Names4) /\ ShellRun(cmd, before).ok
        BY <2>1, <2>3 DEF Placed
      <4>2. infer_cwd(cmd, before).some
        BY <2>3
      <4>3. cmd \in AndList
        BY <3>2, StraightIsAnd DEF AndFollows
      <4>4. QED
        BY <4>1, <4>2, <4>3, FollowsShell
    <3> HIDE DEF to
    <3>3. QED
      BY <2>1, <2>2, <3>1, <3>2 DEF GroupGone, Placed, AndFollows
  <2>4. CASE ~(leader = "exit0" /\ to.some /\ resolve_within(to.dir))
    <3>1. cwd' = cwd
      BY <2>1, <2>4
    <3> HIDE DEF to
    <3>2. QED
      BY <2>1, <2>2, <3>1 DEF GroupGone, Placed, AndFollows
  <2>5. QED
    BY <2>3, <2>4
<1>9. ASSUME Timeout \/ DropCall PROVE ShellInv'
  <2>1. /\ call = "run" /\ call' \in {"timeout", "dropped"} /\ kids' \subseteq {"escaped"} /\ leader' # "run"
        /\ UNCHANGED <<cwd, calls, cmd, before, sent, got, capture>>
    BY <1>9 DEF Timeout, DropCall, KillGroup
  <2>2. Counted'
    BY <2>1 DEF Counted
  <2>3. QED
    BY <2>1, <2>2 DEF GroupGone, Placed, AndFollows
<1>10. CASE UNCHANGED shellVars
  BY <1>10 DEF shellVars, GroupGone, Counted, Placed, AndFollows
<1>11. QED
  BY <1>1, <1>2, <1>3, <1>4, <1>5, <1>6, <1>7, <1>8, <1>9, <1>10 DEF ShellNext

(* However a command is cut, timed out or cancelled, its process group is   *)
(* gone when it is over, its report is exact, the session's directory stays  *)
(* in the workspace, and a list joined by && that popped nothing leaves it    *)
(* where the shell was: for any size of capture, reads and outputs, any       *)
(* length of commands and whatever the other commands are joined by.          *)
THEOREM CommandSettledAlways == ShellSpec => []CommandSettled
<1>1. ShellInv => CommandSettled
  BY RendersExact DEF ShellInv, Counted, Placed, AndFollows, CommandSettled, CwdFollowsShell
<1>2. QED
  BY <1>1, ShellStarts, ShellSteps, PTL DEF ShellSpec

-----------------------------------------------------------------------------
(* Background shells.  A log is a run of the bytes read so far that ends    *)
(* with the last of them; rotation only shortens it at the front.           *)

Logs == [prev : Seq(Int), cur : Seq(Int), buf : Seq(Int)]

RunTo(d, n) == d \in Seq(Int) /\ Len(d) <= n /\ \A i \in 1..Len(d) : d[i] = (n - Len(d)) + i

LogRun(l, n) == l \in Logs /\ RunTo(l.prev \o (l.cur \o l.buf), n)

\* The log of a shell that exited: such a run, then the exit marker.
Closed(l, n) ==
  /\ l \in Logs /\ Len(l.cur) > 0
  /\ \E d : RunTo(d, n) /\ l.prev \o l.cur = d \o <<ExitMark>>

LEMMA RunTail ==
  ASSUME NEW a \in Seq(Int), NEW b \in Seq(Int), NEW n \in Nat, RunTo(a \o b, n)
  PROVE  RunTo(b, n)
<1>1. /\ Len(a \o b) = Len(a) + Len(b) /\ Len(a) \in Nat /\ Len(b) \in Nat
      /\ \A i \in 1..Len(b) : (a \o b)[Len(a) + i] = b[i]
  BY Joined
<1>2. Len(a \o b) <= n /\ \A i \in 1..Len(a \o b) : (a \o b)[i] = (n - Len(a \o b)) + i
  BY DEF RunTo
<1>3. Len(b) <= n
  BY <1>1, <1>2
<1>4. ASSUME NEW i \in 1..Len(b) PROVE b[i] = (n - Len(b)) + i
  <2>1. Len(a) + i \in 1..Len(a \o b)
    BY <1>1
  <2>2. b[i] = (n - (Len(a) + Len(b))) + (Len(a) + i)
    BY <1>1, <1>2, <2>1
  <2>3. QED
    BY <1>1, <2>2
<1>5. QED
  BY <1>3, <1>4 DEF RunTo

LEMMA RunNext ==
  ASSUME NEW d, NEW n \in Nat, RunTo(d, n)
  PROVE  RunTo(d \o <<n + 1>>, n + 1)
<1>1. d \in Seq(Int) /\ <<n + 1>> \in Seq(Int) /\ Len(<<n + 1>>) = 1
  BY DEF RunTo
<1>2. PICK x \in Seq(Int) : x = <<n + 1>> /\ Len(x) = 1 /\ x[1] = n + 1
  BY <1>1
<1>3. /\ d \o x \in Seq(Int) /\ Len(d \o x) = Len(d) + 1 /\ Len(d) \in Nat
      /\ \A i \in 1..Len(d) : (d \o x)[i] = d[i]
      /\ \A i \in 1..1 : (d \o x)[Len(d) + i] = x[i]
  BY <1>1, <1>2, Joined
<1>4. Len(d) <= n /\ \A i \in 1..Len(d) : d[i] = (n - Len(d)) + i
  BY DEF RunTo
<1>5. ASSUME NEW i \in 1..(Len(d) + 1) PROVE (d \o x)[i] = ((n + 1) - (Len(d) + 1)) + i
  <2>1. i \in 1..Len(d) \/ i = Len(d) + 1
    BY <1>3, SMTT(60)
  <2>2. CASE i \in 1..Len(d)
    <3>1. (d \o x)[i] = (n - Len(d)) + i
      BY <1>3, <1>4, <2>2
    <3>2. QED
      BY <1>3, <3>1
  <2>3. CASE i = Len(d) + 1
    <3>1. (d \o x)[i] = n + 1
      BY <1>2, <1>3, <2>3
    <3>2. QED
      BY <1>3, <2>3, <3>1
  <2>4. QED
    BY <2>1, <2>2, <2>3
<1>6. Len(d) + 1 <= n + 1
  BY <1>3, <1>4
<1>7. RunTo(d \o x, n + 1)
  BY <1>3, <1>5, <1>6 DEF RunTo
<1>8. QED
  BY <1>2, <1>7

LEMMA Assoc ==
  ASSUME NEW a \in Seq(Int), NEW b \in Seq(Int), NEW c \in Seq(Int)
  PROVE  (a \o b) \o c = a \o (b \o c)
  BY SMTT(60)

LEMMA BufferedIs ==
  ASSUME NEW l \in Logs, NEW y
  PROVE  [l EXCEPT !.buf = y] = [prev |-> l.prev, cur |-> l.cur, buf |-> y]
  BY DEF Logs

\* What a write does to the bytes kept: they may lose the oldest segment.
LEMMA WriteKeeps ==
  ASSUME NEW l \in Logs, NEW n \in Nat, NEW b \in Int, LogRun(l, n)
  PROVE  /\ LogWrite(l, b) \in Logs
         /\ \E d : RunTo(d, n) /\ LogWrite(l, b).prev \o (LogWrite(l, b).cur \o LogWrite(l, b).buf) = d \o <<b>>
         /\ Len(LogWrite(l, b).cur \o LogWrite(l, b).buf) > 0
<1>1. PICK p \in Seq(Int) : p = l.prev
  BY DEF Logs
<1>2. PICK c \in Seq(Int) : c = l.cur
  BY DEF Logs
<1>3. PICK f \in Seq(Int) : f = l.buf
  BY DEF Logs
<1>4. PICK x \in Seq(Int) : x = <<b>> /\ Len(x) = 1
  <2>1. <<b>> \in Seq(Int) /\ Len(<<b>>) = 1
    OBVIOUS
  <2>2. QED
    BY <2>1, Zenon
<1>5. RunTo(p \o (c \o f), n) /\ c \o f \in Seq(Int) /\ <<>> \in Seq(Int)
  BY <1>1, <1>2, <1>3 DEF LogRun
<1>6. CASE LogWrite(l, b) = [prev |-> c \o f, cur |-> <<>>, buf |-> x]
  <2>1. LogWrite(l, b) \in Logs
    BY <1>5, <1>6 DEF Logs
  <2>2. RunTo(c \o f, n)
    BY <1>5, RunTail
  <2>3. <<>> \o x = x
    BY <1>4
  <2>4. LogWrite(l, b).prev = c \o f /\ LogWrite(l, b).cur = <<>> /\ LogWrite(l, b).buf = x
    BY <1>6
  <2>5. LogWrite(l, b).prev \o (LogWrite(l, b).cur \o LogWrite(l, b).buf) = (c \o f) \o <<b>>
    BY <1>4, <2>3, <2>4, Zenon
  <2>6. Len(LogWrite(l, b).cur \o LogWrite(l, b).buf) > 0
    <3>1. LogWrite(l, b).cur \o LogWrite(l, b).buf = x
      BY <2>3, <2>4, Zenon
    <3>2. QED
      BY <1>4, <3>1
  <2>7. QED
    BY <2>1, <2>2, <2>5, <2>6, Zenon
<1>7. CASE LogWrite(l, b) = [prev |-> p, cur |-> c, buf |-> f \o x]
  <2>1. f \o x \in Seq(Int) /\ Len(f \o x) = Len(f) + 1 /\ Len(f) \in Nat
    BY <1>4
  <2>2. LogWrite(l, b) \in Logs
    BY <1>7, <2>1 DEF Logs
  <2>3. LogWrite(l, b).prev = p /\ LogWrite(l, b).cur = c /\ LogWrite(l, b).buf = f \o x
    BY <1>7
  <2>4. p \o (c \o (f \o x)) = (p \o (c \o f)) \o x
    <3>1. (c \o f) \o x = c \o (f \o x)
      BY Assoc
    <3>2. (p \o (c \o f)) \o x = p \o ((c \o f) \o x)
      <4>1. c \o f \in Seq(Int)
        BY <1>5
      <4>2. PICK q \in Seq(Int) : q = c \o f
        BY <4>1, Zenon
      <4>3. (p \o q) \o x = p \o (q \o x)
        BY Assoc, ZenonT(60)
      <4>4. QED
        BY <4>2, <4>3, Zenon
    <3>3. QED
      BY <3>1, <3>2, Zenon
  <2>5. Len(c \o (f \o x)) > 0
    <3>1. Len(c \o (f \o x)) = Len(c) + Len(f \o x) /\ Len(c) \in Nat
      BY <2>1, Joined
    <3>2. QED
      BY <2>1, <3>1
  <2>6. QED
    BY <1>4, <1>5, <2>2, <2>3, <2>4, <2>5
<1>8. QED
  <2>1. Append(f, b) = f \o x
    BY <1>4
  <2>2. l = [prev |-> p, cur |-> c, buf |-> f]
    BY <1>1, <1>2, <1>3 DEF Logs
  <2>a. PICK y : y = f \o x
    OBVIOUS
  <2>b. Append(l.buf, b) = y
    BY <1>3, <2>1, <2>a
  <2>c. [l EXCEPT !.buf = y] = [prev |-> p, cur |-> c, buf |-> y]
    BY <1>1, <1>2, BufferedIs
  <2>3. [l EXCEPT !.buf = Append(@, b)] = [prev |-> p, cur |-> c, buf |-> f \o x]
    BY <2>a, <2>b, <2>c, Zenon
  <2>4. QED
    BY <1>2, <1>3, <1>4, <1>6, <1>7, <2>3 DEF LogWrite

LEMMA WriteRun ==
  ASSUME NEW l \in Logs, NEW n \in Nat, LogRun(l, n)
  PROVE  LogRun(LogWrite(l, n + 1), n + 1)
<1>1. n + 1 \in Int
  OBVIOUS
<1>2. PICK d : RunTo(d, n) /\ LogWrite(l, n + 1).prev \o (LogWrite(l, n + 1).cur \o LogWrite(l, n + 1).buf) = d \o <<n + 1>>
  BY <1>1, WriteKeeps
<1>3. RunTo(d \o <<n + 1>>, n + 1)
  BY <1>2, RunNext
<1>4. LogWrite(l, n + 1) \in Logs
  BY <1>1, WriteKeeps
<1>5. QED
  BY <1>2, <1>3, <1>4, Zenon DEF LogRun

LEMMA FlushedIs ==
  ASSUME NEW l \in Logs
  PROVE  /\ Flushed(l).prev = l.prev /\ Flushed(l).cur = l.cur \o l.buf /\ Flushed(l).buf = <<>>
         /\ Flushed(l) \in Logs
<1>1. l.prev \in Seq(Int) /\ l.cur \in Seq(Int) /\ l.buf \in Seq(Int)
  BY DEF Logs
<1>2. l.cur \o l.buf \in Seq(Int)
  BY <1>1
<1>3. <<>> \in Seq(Int)
  OBVIOUS
<1>4. QED
  BY <1>1, <1>2, <1>3 DEF Flushed, Logs

LEMMA FlushRun ==
  ASSUME NEW l, NEW n \in Nat, LogRun(l, n)
  PROVE  LogRun(Flushed(l), n)
<1>1. l \in Logs
  BY DEF LogRun
<1>2. l.cur \o l.buf \in Seq(Int)
  BY <1>1 DEF Logs
<1>3. Flushed(l).prev = l.prev /\ Flushed(l).cur = l.cur \o l.buf /\ Flushed(l).buf = <<>> /\ Flushed(l) \in Logs
  BY <1>1, FlushedIs
<1>4. (l.cur \o l.buf) \o <<>> = l.cur \o l.buf
  BY <1>2
<1>5. QED
  BY <1>3, <1>4 DEF LogRun

\* The last write of a shell that exited, flushed.
LEMMA MarkCloses ==
  ASSUME NEW l, NEW n \in Nat, LogRun(l, n)
  PROVE  Closed(Flushed(LogWrite(l, ExitMark)), n)
<1>1. l \in Logs /\ ExitMark \in Int
  BY DEF LogRun, ExitMark
<1> DEFINE w == LogWrite(l, ExitMark)
<1>2. w \in Logs /\ Len(w.cur \o w.buf) > 0
  BY <1>1, WriteKeeps
<1>3. \E d : RunTo(d, n) /\ w.prev \o (w.cur \o w.buf) = d \o <<ExitMark>>
  BY <1>1, WriteKeeps
<1> HIDE DEF w
<1>4. Flushed(w).prev = w.prev /\ Flushed(w).cur = w.cur \o w.buf /\ Flushed(w) \in Logs
  BY <1>2, FlushedIs
<1>5. Closed(Flushed(w), n)
  BY <1>2, <1>3, <1>4, Zenon DEF Closed
<1>6. QED
  BY <1>5 DEF w

\* Everything the pipe holds is copied, in order.
LEMMA DrainRun ==
  ASSUME NEW s \in Shells, taken[s] \in Nat, printed[s] \in Nat, taken[s] <= printed[s],
         LogRun(log[s], taken[s])
  PROVE  LogRun(Drained(s), printed[s])
<1>1. PICK t \in Nat : t = taken[s]
  OBVIOUS
<1>2. PICK L \in Nat : L = printed[s] - taken[s]
  OBVIOUS
<1>3. t + L = printed[s]
  BY <1>1, <1>2
<1> DEFINE Rec(h) == h = [n \in 0..L |-> IF n = 0 THEN log[s] ELSE LogWrite(h[n - 1], t + n)]
           S == {l \in Logs : \E n \in Nat : LogRun(l, n)}
           F == [p \in (1..L) \X Logs |-> IF \E n \in Nat : LogRun(p[2], n) THEN LogWrite(p[2], t + p[1]) ELSE log[s]]
<1>4. log[s] \in Logs
  BY DEF LogRun
<1>5. F \in [(1..L) \X Logs -> Logs]
  <2>1. ASSUME NEW p \in (1..L) \X Logs, NEW n \in Nat, LogRun(p[2], n) PROVE LogWrite(p[2], t + p[1]) \in Logs
    <3>1. p[2] \in Logs /\ t + p[1] \in Int
      OBVIOUS
    <3>2. QED
      BY <2>1, <3>1, WriteKeeps
  <2>2. QED
    BY <1>4, <2>1
<1>6. \A n \in 1..L, l \in Logs : (\E m \in Nat : LogRun(l, m)) => F[<<n, l>>] = LogWrite(l, t + n)
  OBVIOUS
<1> HIDE DEF F
<1>7. PICK g : Iterates(g, L, Logs, log[s], F)
  BY <1>4, <1>5, Recursion, Zenon
<1>8. g \in [0..L -> Logs] /\ g[0] = log[s] /\ \A n \in 1..L : g[n] = F[<<n, g[n - 1]>>]
  BY <1>7 DEF Iterates
<1> DEFINE Good == {n \in 0..L : LogRun(g[n], t + n)}
<1>9. 0 \in Good
  BY <1>1, <1>8
<1>10. ASSUME NEW n \in 1..L, n - 1 \in Good PROVE n \in Good /\ g[n] = LogWrite(g[n - 1], t + n)
  <2>1. n - 1 \in 0..L /\ n \in 0..L /\ t + (n - 1) \in Nat /\ (t + (n - 1)) + 1 = t + n
    OBVIOUS
  <2>2. LogRun(g[n - 1], t + (n - 1)) /\ g[n - 1] \in Logs
    BY <1>8, <1>10, <2>1
  <2>3. g[n] = LogWrite(g[n - 1], t + n)
    BY <1>6, <1>8, <2>1, <2>2
  <2>4. LogRun(LogWrite(g[n - 1], t + n), t + n)
    BY <2>1, <2>2, WriteRun
  <2>5. QED
    BY <2>1, <2>3, <2>4
<1>11. 0..L \subseteq Good
  <2> HIDE DEF Good
  <2>1. QED
    BY <1>9, <1>10, Climb
<1>12. Rec(g)
  <2>1. ASSUME NEW n \in 0..L PROVE g[n] = IF n = 0 THEN log[s] ELSE LogWrite(g[n - 1], t + n)
    <3>1. CASE n = 0
      BY <1>8, <3>1
    <3>2. CASE n # 0
      <4>1. n \in 1..L /\ n - 1 \in 0..L
        BY <3>2
      <4>2. n - 1 \in Good
        BY <1>11, <4>1
      <4>3. QED
        BY <1>10, <3>2, <4>1, <4>2
    <3>3. QED
      BY <3>1, <3>2
  <2>2. QED
    BY <1>8, <2>1
<1> DEFINE h == CHOOSE f : Rec(f)
<1>13. Rec(h)
  BY <1>12
<1>14. Drained(s) = h[L]
  BY <1>1, <1>2 DEF Drained
<1> HIDE DEF h
<1>15. \A n \in 0..L : h[n] = IF n = 0 THEN log[s] ELSE LogWrite(h[n - 1], t + n)
  BY <1>13
<1> DEFINE Fits == {n \in 0..L : LogRun(h[n], t + n)}
<1>16. 0 \in Fits
  BY <1>1, <1>15
<1>17. ASSUME NEW n \in 1..L, n - 1 \in Fits PROVE n \in Fits
  <2>1. n - 1 \in 0..L /\ n \in 0..L /\ n # 0 /\ t + (n - 1) \in Nat /\ (t + (n - 1)) + 1 = t + n
    OBVIOUS
  <2>2. LogRun(h[n - 1], t + (n - 1)) /\ h[n - 1] \in Logs
    BY <1>17 DEF LogRun
  <2>3. LogRun(LogWrite(h[n - 1], t + n), t + n)
    BY <2>1, <2>2, WriteRun
  <2>4. QED
    BY <1>15, <2>1, <2>3
<1>18. 0..L \subseteq Fits
  <2> HIDE DEF Fits
  <2>1. QED
    BY <1>16, <1>17, Climb
<1>19. L \in Fits
  BY <1>18
<1>20. QED
  BY <1>3, <1>14, <1>19

BgTypes ==
  /\ start \in [Shells -> {"new", "spawned", "refused", "failed", "handed"}]
  /\ tree \in [Shells -> SUBSET {"leader", "kid"}]
  /\ printed \in [Shells -> Nat] /\ taken \in [Shells -> Nat] /\ log \in [Shells -> Logs]
  /\ status \in [Shells -> {"Running", "Exited", "Killed"}]
  /\ watched \subseteq Shells /\ exiting \subseteq watched
  /\ sup \in {"up", "stopped", "panicked"} /\ host \in {"serving", "waits", "done"}
  /\ chan \in Seq(Shells \cup {Stop})

Queued(s) == \E i \in 1..Len(chan) : chan[i] = s

\* A shell passes once through the channel, then the supervisor's list, and is over once.
Passage ==
  /\ \A i, j \in 1..Len(chan) : chan[i] = chan[j] => i = j
  /\ \A i \in 1..Len(chan) : chan[i] = Stop => i = Len(chan) /\ host # "serving"
  /\ host # "serving" => \A s \in Shells : start[s] # "spawned"
  /\ exiting # {} => sup = "up"
  /\ \A r, t \in exiting : r = t
  /\ \A s \in Shells :
       /\ start[s] # "handed" => s \notin watched /\ ~Queued(s) /\ status[s] = "Running"
       /\ s \in watched \/ Queued(s) => status[s] = "Running"
       /\ ~(s \in watched /\ Queued(s))

\* Whoever was handed over and is nowhere any more has no process left.
Reaped ==
  \A s \in Shells : start[s] = "handed" =>
    \/ sup = "up" /\ (s \in watched \/ Queued(s))
    \/ sup = "panicked"
    \/ tree[s] = {}

Copied ==
  \A s \in Shells :
    /\ taken[s] <= printed[s]
    /\ status[s] = "Running" /\ s \notin exiting => LogRun(log[s], taken[s])
    /\ status[s] = "Exited" \/ s \in exiting => tree[s] = {} /\ Closed(log[s], printed[s])

BgInv == BgTypes /\ Passage /\ Reaped /\ Copied

LEMMA BgStarts == ASSUME BgInit PROVE BgInv
<1>1. [prev |-> <<>>, cur |-> <<>>, buf |-> <<>>] \in Logs
  <2>1. <<>> \in Seq(Int)
    OBVIOUS
  <2>2. QED
    BY <2>1 DEF Logs
<1>2. LogRun([prev |-> <<>>, cur |-> <<>>, buf |-> <<>>], 0)
  <2>1. <<>> \o (<<>> \o <<>>) = <<>> /\ <<>> \in Seq(Int) /\ Len(<<>>) = 0
    OBVIOUS
  <2>2. RunTo(<<>>, 0)
    BY <2>1 DEF RunTo
  <2>3. QED
    BY <1>1, <2>1, <2>2 DEF LogRun
<1>3. chan = <<>> /\ chan \in Seq(Shells \cup {Stop}) /\ Len(chan) = 0
  BY DEF BgInit
<1>4. BgTypes
  BY <1>1, <1>3 DEF BgInit, BgTypes
<1>5. Passage
  BY <1>3 DEF BgInit, Passage, Queued
<1>6. Reaped
  BY DEF BgInit, Reaped
<1>7. Copied
  BY <1>2 DEF BgInit, Copied
<1>8. QED
  BY <1>4, <1>5, <1>6, <1>7 DEF BgInv

\* The processes and the tool call before it hands a shell over.
LEMMA ProcessSteps ==
  ASSUME BgInv, NEW s \in Shells,
         BgRefuse(s) \/ BgSpawn(s) \/ Daemonize(s) \/ Prints(s) \/ Exit(s, "leader") \/ Exit(s, "kid")
  PROVE  BgInv'
<1> USE DEF BgInv
<1>1. CASE BgRefuse(s) \/ BgSpawn(s)
  <2>1. /\ start[s] = "new" /\ host = "serving"
        /\ \E x \in {"refused", "spawned"} : start' = [start EXCEPT ![s] = x]
        /\ \E x \in SUBSET {"leader", "kid"} : tree' = [tree EXCEPT ![s] = x]
        /\ UNCHANGED <<printed, taken, log, status, watched, exiting, sup, chan, host>>
    <3>1. tree = [tree EXCEPT ![s] = tree[s]] /\ tree[s] \in SUBSET {"leader", "kid"}
      BY DEF BgTypes
    <3>2. QED
      BY <1>1, <3>1 DEF BgRefuse, BgSpawn
  <2>2. BgTypes'
    BY <2>1 DEF BgTypes
  <2>3. Passage'
    <3>1. \A r \in Shells : (Queued(r))' <=> Queued(r)
      BY <2>1 DEF Queued
    <3>2. \A r \in Shells : /\ start'[r] # "handed" => start[r] # "handed"
                            /\ host' # "serving" => start'[r] # "spawned"
      BY <2>1 DEF BgTypes
    <3>3. QED
      BY <2>1, <3>1, <3>2 DEF Passage
  <2>4. Reaped'
    BY <2>1 DEF BgTypes, Reaped, Queued
  <2>5. Copied'
    <3>1. s \notin exiting /\ status[s] = "Running"
      BY <2>1 DEF BgTypes, Passage
    <3>2. QED
      BY <2>1, <3>1 DEF BgTypes, Copied
  <2>6. QED
    BY <2>2, <2>3, <2>4, <2>5
<1>2. CASE Daemonize(s) \/ Exit(s, "leader") \/ Exit(s, "kid")
  <2>1. /\ tree[s] # {}
        /\ \E x \in SUBSET {"leader", "kid"} : tree' = [tree EXCEPT ![s] = x]
        /\ UNCHANGED <<start, printed, taken, log, status, watched, exiting, sup, chan, host>>
    BY <1>2 DEF Daemonize, Exit, BgTypes
  <2>2. BgTypes'
    BY <2>1 DEF BgTypes
  <2>3. Passage'
    BY <2>1 DEF Passage, Queued
  <2>4. Reaped'
    BY <2>1 DEF BgTypes, Reaped, Queued
  <2>5. Copied'
    BY <2>1 DEF BgTypes, Copied
  <2>6. QED
    BY <2>2, <2>3, <2>4, <2>5
<1>3. CASE Prints(s)
  <2>1. /\ tree[s] # {} /\ printed' = [printed EXCEPT ![s] = @ + 1]
        /\ UNCHANGED <<start, tree, taken, log, status, watched, exiting, sup, chan, host>>
    BY <1>3 DEF Prints
  <2>2. BgTypes'
    BY <2>1 DEF BgTypes
  <2>3. Passage'
    BY <2>1 DEF Passage, Queued
  <2>4. Reaped'
    BY <2>1 DEF Reaped, Queued
  <2>5. Copied'
    BY <2>1 DEF BgTypes, Copied
  <2>6. QED
    BY <2>2, <2>3, <2>4, <2>5
<1>4. QED
  BY <1>1, <1>2, <1>3

\* What is appended to the channel, and what is taken from it.
LEMMA Appended ==
  ASSUME NEW S, NEW q \in Seq(S), NEW x \in S
  PROVE  /\ Append(q, x) \in Seq(S) /\ Len(Append(q, x)) = Len(q) + 1 /\ Len(q) \in Nat
         /\ \A i \in 1..Len(q) : Append(q, x)[i] = q[i]
         /\ Append(q, x)[Len(q) + 1] = x
  OBVIOUS

LEMMA Taken ==
  ASSUME NEW S, NEW q \in Seq(S), q # <<>>
  PROVE  /\ Tail(q) \in Seq(S) /\ Len(Tail(q)) = Len(q) - 1 /\ Len(q) \in Nat \ {0}
         /\ \A i \in 1..(Len(q) - 1) : Tail(q)[i] = q[i + 1]
         /\ Head(q) = q[1] /\ q[1] \in S
  OBVIOUS

LEMMA HandSteps ==
  ASSUME BgInv, NEW s \in Shells, supervise_background(s)
  PROVE  BgInv'
<1> USE DEF BgInv
<1>1. start[s] = "spawned" /\ UNCHANGED <<printed, taken, log, status, watched, exiting, sup, host>>
  BY DEF supervise_background
<1>2. s \notin watched /\ ~Queued(s) /\ status[s] = "Running" /\ host = "serving" /\ s # Stop
  BY <1>1, BgAssumption DEF Passage, BgTypes, Stop
<1>3. CASE sup = "up" /\ chan' = Append(chan, s) /\ start' = [start EXCEPT ![s] = "handed"] /\ UNCHANGED tree
  <2>1. /\ chan' \in Seq(Shells \cup {Stop}) /\ Len(chan') = Len(chan) + 1 /\ Len(chan) \in Nat
        /\ \A i \in 1..Len(chan) : chan'[i] = chan[i]
        /\ chan'[Len(chan) + 1] = s
    <3>1. chan \in Seq(Shells \cup {Stop}) /\ s \in Shells \cup {Stop}
      BY DEF BgTypes
    <3>2. QED
      BY <1>3, <3>1, Appended
  <2>2. BgTypes'
    BY <1>1, <1>3, <2>1 DEF BgTypes
  <2>3. \A i \in 1..Len(chan) : chan[i] # s /\ chan[i] # Stop
    BY <1>2 DEF Queued, Passage
  <2>4. \A i \in 1..Len(chan') : i \in 1..Len(chan) \/ i = Len(chan) + 1
    BY <2>1
  <2>5. \A r \in Shells : (Queued(r))' <=> Queued(r) \/ r = s
    <3>1. ASSUME NEW r \in Shells, (Queued(r))' PROVE Queued(r) \/ r = s
      BY <2>1, <2>4, <3>1 DEF Queued
    <3>2. ASSUME NEW r \in Shells, Queued(r) PROVE (Queued(r))'
      <4>1. PICK i \in 1..Len(chan) : chan[i] = r
        BY <3>2 DEF Queued
      <4>2. i \in 1..Len(chan') /\ chan'[i] = r
        BY <2>1, <4>1
      <4>3. QED
        BY <4>2 DEF Queued
    <3>3. (Queued(s))'
      <4>1. Len(chan) + 1 \in 1..Len(chan')
        BY <2>1
      <4>2. QED
        BY <2>1, <4>1 DEF Queued
    <3>4. QED
      BY <3>1, <3>2, <3>3
  <2>6. Passage'
    <3>1. \A i, j \in 1..Len(chan') : chan'[i] = chan'[j] => i = j
      BY <2>1, <2>3, <2>4 DEF Passage
    <3>2. \A i \in 1..Len(chan') : chan'[i] # Stop
      BY <1>2, <2>1, <2>3, <2>4
    <3>3. \A r \in Shells : /\ start'[r] # "handed" => r \notin watched /\ ~(Queued(r))' /\ status[r] = "Running"
                            /\ r \in watched \/ (Queued(r))' => status[r] = "Running"
                            /\ ~(r \in watched /\ (Queued(r))')
      BY <1>2, <1>3, <2>5 DEF Passage, BgTypes
    <3>4. QED
      BY <1>1, <1>2, <3>1, <3>2, <3>3 DEF Passage
  <2>7. Reaped'
    BY <1>1, <1>3, <2>5 DEF Reaped, BgTypes
  <2>8. Copied'
    BY <1>1, <1>3 DEF Copied
  <2>9. QED
    BY <2>2, <2>6, <2>7, <2>8
<1>4. CASE /\ sup # "up" /\ start' = [start EXCEPT ![s] = "failed"] /\ tree' = [tree EXCEPT ![s] = @ \ {"leader"}]
           /\ UNCHANGED chan
  <2>1. BgTypes'
    BY <1>1, <1>4 DEF BgTypes
  <2>2. Passage'
    BY <1>1, <1>2, <1>4 DEF Passage, BgTypes, Queued
  <2>3. Reaped'
    BY <1>1, <1>4 DEF Reaped, BgTypes, Queued
  <2>4. Copied'
    BY <1>1, <1>2, <1>4 DEF Copied, BgTypes
  <2>5. QED
    BY <2>1, <2>2, <2>3, <2>4
<1>5. QED
  BY <1>3, <1>4 DEF supervise_background

\* The head of the channel is taken: what the rest of it still says.
LEMMA ChanTail ==
  ASSUME BgInv, chan # <<>>, chan' = Tail(chan)
  PROVE  /\ chan' \in Seq(Shells \cup {Stop})
         /\ \A i, j \in 1..Len(chan') : chan'[i] = chan'[j] => i = j
         /\ \A i \in 1..Len(chan') : chan'[i] = Stop => i = Len(chan') /\ host # "serving"
         /\ \A r \in Shells : (Queued(r))' <=> Queued(r) /\ r # Head(chan)
<1> USE DEF BgInv
<1>1. chan \in Seq(Shells \cup {Stop})
  BY DEF BgTypes
<1>2. /\ chan' \in Seq(Shells \cup {Stop}) /\ Len(chan') = Len(chan) - 1 /\ Len(chan) \in Nat \ {0}
      /\ \A i \in 1..(Len(chan) - 1) : chan'[i] = chan[i + 1]
      /\ Head(chan) = chan[1]
  BY <1>1, Taken
<1>3. \A i \in 1..Len(chan') : i + 1 \in 1..Len(chan) /\ chan'[i] = chan[i + 1] /\ i + 1 # 1
  BY <1>2
<1>4. 1 \in 1..Len(chan)
  BY <1>2
<1>5. \A i, j \in 1..Len(chan') : chan'[i] = chan'[j] => i = j
  <2>1. ASSUME NEW i \in 1..Len(chan'), NEW j \in 1..Len(chan'), chan'[i] = chan'[j] PROVE i = j
    <3>1. i + 1 = j + 1
      BY <1>3, <2>1 DEF Passage
    <3>2. QED
      BY <3>1
  <2>2. QED
    BY <2>1
<1>6. \A i \in 1..Len(chan') : chan'[i] = Stop => i = Len(chan') /\ host # "serving"
  <2>1. ASSUME NEW i \in 1..Len(chan'), chan'[i] = Stop PROVE i = Len(chan') /\ host # "serving"
    <3>1. i + 1 = Len(chan) /\ host # "serving"
      BY <1>3, <2>1 DEF Passage
    <3>2. Len(chan') = Len(chan) - 1 /\ Len(chan) \in Nat
      BY <1>2
    <3>3. i \in Int
      OBVIOUS
    <3>4. i = Len(chan')
      BY <3>1, <3>2, <3>3
    <3>5. QED
      BY <3>1, <3>4
  <2>2. QED
    BY <2>1
<1>7. ASSUME NEW r \in Shells PROVE (Queued(r))' <=> Queued(r) /\ r # Head(chan)
  <2>1. ASSUME (Queued(r))' PROVE Queued(r) /\ r # Head(chan)
    <3>1. PICK i \in 1..Len(chan') : chan'[i] = r
      BY <2>1 DEF Queued
    <3>2. chan[i + 1] = r /\ i + 1 \in 1..Len(chan) /\ i + 1 # 1
      BY <1>3, <3>1
    <3>3. chan[1] # r
      BY <1>4, <3>2 DEF Passage
    <3>4. QED
      BY <1>2, <3>2, <3>3 DEF Queued
  <2>2. ASSUME Queued(r), r # Head(chan) PROVE (Queued(r))'
    <3>1. PICK i \in 1..Len(chan) : chan[i] = r
      BY <2>2 DEF Queued
    <3>2. i # 1
      BY <1>2, <2>2, <3>1
    <3>3. i - 1 \in 1..Len(chan') /\ i - 1 \in 1..(Len(chan) - 1) /\ (i - 1) + 1 = i
      BY <1>2, <3>2
    <3>4. chan'[i - 1] = r
      BY <1>2, <3>1, <3>3
    <3>5. QED
      BY <3>3, <3>4 DEF Queued
  <2>3. QED
    BY <2>1, <2>2
<1>8. QED
  BY <1>2, <1>5, <1>6, <1>7

LEMMA TakeSteps ==
  ASSUME BgInv, SupAdd \/ SupAddFails
  PROVE  BgInv'
<1> USE DEF BgInv
<1>1. /\ sup = "up" /\ exiting = {} /\ chan # <<>> /\ Head(chan) # Stop /\ chan' = Tail(chan)
      /\ UNCHANGED <<start, printed, taken, log, exiting, sup, host>>
  BY DEF SupAdd, SupAddFails
<1>2. /\ chan' \in Seq(Shells \cup {Stop})
      /\ \A i, j \in 1..Len(chan') : chan'[i] = chan'[j] => i = j
      /\ \A i \in 1..Len(chan') : chan'[i] = Stop => i = Len(chan') /\ host # "serving"
      /\ \A r \in Shells : (Queued(r))' <=> Queued(r) /\ r # Head(chan)
  BY <1>1, ChanTail
<1>3. PICK s \in Shells : s = Head(chan) /\ Queued(s) /\ s \notin watched /\ start[s] = "handed" /\ status[s] = "Running"
  <2>1. chan \in Seq(Shells \cup {Stop})
    BY DEF BgTypes
  <2>2. Len(chan) \in Nat \ {0} /\ Head(chan) = chan[1] /\ chan[1] \in Shells \cup {Stop}
    BY <1>1, <2>1, Taken
  <2>3. Head(chan) \in Shells /\ 1 \in 1..Len(chan)
    BY <1>1, <2>2
  <2>4. Queued(Head(chan))
    BY <2>2, <2>3 DEF Queued
  <2>5. QED
    BY <2>3, <2>4 DEF Passage
<1>4. CASE SupAdd
  <2>1. watched' = watched \cup {s} /\ UNCHANGED <<tree, status>>
    BY <1>3, <1>4 DEF SupAdd
  <2>2. BgTypes'
    BY <1>1, <1>2, <2>1 DEF BgTypes
  <2>3. Passage'
    <3>1. \A r \in Shells : /\ start[r] # "handed" => r \notin watched' /\ ~(Queued(r))' /\ status[r] = "Running"
                            /\ r \in watched' \/ (Queued(r))' => status[r] = "Running"
                            /\ ~(r \in watched' /\ (Queued(r))')
      BY <1>2, <1>3, <2>1 DEF Passage
    <3>2. QED
      BY <1>1, <1>2, <2>1, <3>1 DEF Passage
  <2>4. Reaped'
    BY <1>1, <1>2, <1>3, <2>1 DEF Reaped
  <2>5. Copied'
    BY <1>1, <2>1 DEF Copied
  <2>6. QED
    BY <2>2, <2>3, <2>4, <2>5
<1>5. CASE SupAddFails
  <2>1. tree' = [tree EXCEPT ![s] = {}] /\ status' = [status EXCEPT ![s] = "Killed"] /\ UNCHANGED watched
    BY <1>3, <1>5 DEF SupAddFails
  <2>2. BgTypes'
    BY <1>1, <1>2, <2>1 DEF BgTypes
  <2>3. Passage'
    <3>1. \A r \in Shells : /\ start[r] # "handed" => r \notin watched /\ ~(Queued(r))' /\ status'[r] = "Running"
                            /\ r \in watched \/ (Queued(r))' => status'[r] = "Running"
                            /\ ~(r \in watched /\ (Queued(r))')
      BY <1>2, <1>3, <2>1 DEF Passage, BgTypes
    <3>2. QED
      BY <1>1, <1>2, <2>1, <3>1 DEF Passage
  <2>4. Reaped'
    BY <1>1, <1>2, <1>3, <2>1 DEF Reaped, BgTypes
  <2>5. Copied'
    BY <1>1, <2>1 DEF Copied, BgTypes
  <2>6. QED
    BY <2>2, <2>3, <2>4, <2>5
<1>6. QED
  BY <1>4, <1>5

LEMMA WatchSteps ==
  ASSUME BgInv, NEW s \in Shells, SupDrain(s) \/ SupPanic(s) \/ SupReap(s) \/ SupPublish(s)
  PROVE  BgInv'
<1> USE DEF BgInv
<1>1. CASE SupDrain(s)
  <2>1. /\ sup = "up" /\ exiting = {} /\ s \in watched
        /\ log' = [log EXCEPT ![s] = Flushed(Drained(s))] /\ taken' = [taken EXCEPT ![s] = printed[s]]
        /\ UNCHANGED <<start, tree, printed, status, watched, exiting, sup, chan, host>>
    BY <1>1 DEF SupDrain
  <2>2. taken[s] \in Nat /\ printed[s] \in Nat /\ taken[s] <= printed[s] /\ LogRun(log[s], taken[s]) /\ status[s] = "Running"
    BY <2>1 DEF BgTypes, Passage, Copied
  <2>3. LogRun(Drained(s), printed[s])
    BY <2>2, DrainRun
  <2>4. LogRun(Flushed(Drained(s)), printed[s])
    BY <2>2, <2>3, FlushRun
  <2>5. PICK l \in Logs : l = Flushed(Drained(s)) /\ LogRun(l, printed[s])
    BY <2>4 DEF LogRun
  <2>6. BgTypes'
    BY <2>1, <2>5 DEF BgTypes
  <2>7. Passage'
    BY <2>1 DEF Passage, Queued
  <2>8. Reaped'
    BY <2>1 DEF Reaped, Queued
  <2>9. Copied'
    BY <2>1, <2>2, <2>5 DEF Copied, BgTypes
  <2>10. QED
    BY <2>6, <2>7, <2>8, <2>9
<1>2. CASE SupPanic(s)
  <2>1. /\ sup = "up" /\ exiting = {} /\ sup' = "panicked" /\ watched' = {} /\ chan' = <<>>
        /\ UNCHANGED <<start, tree, printed, taken, log, status, exiting, host>>
    BY <1>2 DEF SupPanic
  <2>2. chan' \in Seq(Shells \cup {Stop}) /\ Len(chan') = 0
    BY <2>1
  <2>3. BgTypes'
    BY <2>1, <2>2 DEF BgTypes
  <2>4. Passage'
    BY <2>1, <2>2 DEF Passage, Queued
  <2>5. Reaped'
    BY <2>1 DEF Reaped
  <2>6. Copied'
    BY <2>1 DEF Copied
  <2>7. QED
    BY <2>3, <2>4, <2>5, <2>6
<1>3. CASE SupReap(s)
  <2>1. /\ sup = "up" /\ exiting = {} /\ s \in watched
        /\ tree' = [tree EXCEPT ![s] = {}]
        /\ log' = [log EXCEPT ![s] = Flushed(LogWrite(Drained(s), ExitMark))]
        /\ taken' = [taken EXCEPT ![s] = printed[s]] /\ exiting' = {s}
        /\ UNCHANGED <<start, printed, status, watched, sup, chan, host>>
    BY <1>3 DEF SupReap
  <2>2. taken[s] \in Nat /\ printed[s] \in Nat /\ taken[s] <= printed[s] /\ LogRun(log[s], taken[s]) /\ status[s] = "Running"
    BY <2>1 DEF BgTypes, Passage, Copied
  <2>3. LogRun(Drained(s), printed[s])
    BY <2>2, DrainRun
  <2>4. Closed(Flushed(LogWrite(Drained(s), ExitMark)), printed[s])
    BY <2>2, <2>3, MarkCloses
  <2>5. PICK l \in Logs : l = Flushed(LogWrite(Drained(s), ExitMark)) /\ Closed(l, printed[s])
    BY <2>4 DEF Closed
  <2>6. BgTypes'
    BY <2>1, <2>5 DEF BgTypes
  <2>7. Passage'
    BY <2>1 DEF Passage, Queued
  <2>8. Reaped'
    BY <2>1 DEF Reaped, Queued, BgTypes
  <2>9. Copied'
    BY <2>1, <2>2, <2>5 DEF Copied, BgTypes
  <2>10. QED
    BY <2>6, <2>7, <2>8, <2>9
<1>4. CASE SupPublish(s)
  <2>1. /\ s \in exiting /\ status' = [status EXCEPT ![s] = "Exited"] /\ exiting' = {} /\ watched' = watched \ {s}
        /\ UNCHANGED <<start, tree, printed, taken, log, sup, chan, host>>
    BY <1>4 DEF SupPublish, Forget
  <2>2. s \in watched /\ ~Queued(s) /\ start[s] = "handed" /\ tree[s] = {} /\ Closed(log[s], printed[s])
    BY <2>1 DEF BgTypes, Passage, Copied
  <2>a. exiting = {s}
    BY <2>1 DEF Passage
  <2>3. BgTypes'
    BY <2>1 DEF BgTypes
  <2>4. Passage'
    BY <2>1, <2>2 DEF Passage, Queued, BgTypes
  <2>5. Reaped'
    BY <2>1, <2>2 DEF Reaped, Queued
  <2>6. Copied'
    BY <2>1, <2>2, <2>a DEF Copied, BgTypes
  <2>7. QED
    BY <2>3, <2>4, <2>5, <2>6
<1>5. QED
  BY <1>1, <1>2, <1>3, <1>4

LEMMA ShutdownSteps ==
  ASSUME BgInv, SupStop \/ ShutdownSend \/ ShutdownDone
  PROVE  BgInv'
<1> USE DEF BgInv
<1>1. CASE SupStop
  <2> DEFINE w(s) == Flushed(LogWrite(Drained(s), KillMark))
  <2>1. /\ sup = "up" /\ exiting = {} /\ chan # <<>> /\ Head(chan) = Stop
        /\ tree' = [s \in Shells |-> IF s \in watched THEN {} ELSE tree[s]]
        /\ log' = [s \in Shells |-> IF s \in watched THEN w(s) ELSE log[s]]
        /\ taken' = [s \in Shells |-> IF s \in watched THEN printed[s] ELSE taken[s]]
        /\ status' = [s \in Shells |-> IF s \in watched THEN "Killed" ELSE status[s]]
        /\ watched' = {} /\ sup' = "stopped" /\ chan' = <<>>
        /\ UNCHANGED <<start, printed, exiting, host>>
    BY <1>1 DEF SupStop
  <2>2. ASSUME NEW s \in watched PROVE w(s) \in Logs
    <3>1. /\ s \in Shells /\ taken[s] \in Nat /\ printed[s] \in Nat /\ taken[s] <= printed[s]
          /\ LogRun(log[s], taken[s])
      BY <2>1 DEF BgTypes, Passage, Copied
    <3>2. LogRun(Drained(s), printed[s])
      BY <3>1, DrainRun
    <3>3. Drained(s) \in Logs /\ KillMark \in Int
      BY <3>2 DEF LogRun, KillMark
    <3>4. LogWrite(Drained(s), KillMark) \in Logs
      BY <3>1, <3>2, <3>3, WriteKeeps
    <3>5. QED
      BY <3>4, FlushedIs
  <2> HIDE DEF w
  <2>3. chan' \in Seq(Shells \cup {Stop}) /\ Len(chan') = 0
    BY <2>1
  <2>4. \A s \in Shells : ~Queued(s)
    <3>1. chan \in Seq(Shells \cup {Stop})
      BY DEF BgTypes
    <3>2. Len(chan) \in Nat \ {0} /\ Head(chan) = chan[1]
      BY <2>1, <3>1, Taken
    <3>3. 1 \in 1..Len(chan) /\ chan[1] = Stop
      BY <2>1, <3>2
    <3>4. Len(chan) = 1
      BY <3>2, <3>3 DEF Passage
    <3>5. \A i \in 1..Len(chan) : chan[i] = Stop
      BY <3>3, <3>4
    <3>6. QED
      BY <3>5, BgAssumption DEF Queued, Stop
  <2>5. BgTypes'
    BY <2>1, <2>2, <2>3 DEF BgTypes
  <2>6. Passage'
    BY <2>1, <2>3 DEF Passage, Queued, BgTypes
  <2>7. Reaped'
    BY <2>1, <2>4 DEF Reaped, BgTypes
  <2>8. Copied'
    BY <2>1 DEF Copied, BgTypes
  <2>9. QED
    BY <2>5, <2>6, <2>7, <2>8
<1>2. CASE ShutdownSend
  <2>1. /\ host = "serving" /\ (\A s \in Shells : start[s] # "spawned") /\ host' = "waits"
        /\ chan' = IF sup = "up" THEN Append(chan, Stop) ELSE chan
        /\ UNCHANGED <<start, tree, printed, taken, log, status, watched, exiting, sup>>
    BY <1>2 DEF ShutdownSend
  <2>2. CASE sup = "up"
    <3>1. /\ chan' \in Seq(Shells \cup {Stop}) /\ Len(chan') = Len(chan) + 1 /\ Len(chan) \in Nat
          /\ \A i \in 1..Len(chan) : chan'[i] = chan[i]
          /\ chan'[Len(chan) + 1] = Stop
      <4>1. chan \in Seq(Shells \cup {Stop}) /\ Stop \in Shells \cup {Stop}
        BY DEF BgTypes
      <4>2. chan' = Append(chan, Stop)
        BY <2>1, <2>2
      <4>3. QED
        BY <4>1, <4>2, Appended
    <3>2. \A i \in 1..Len(chan) : chan[i] # Stop
      BY <2>1 DEF Passage
    <3>3. \A i \in 1..Len(chan') : i \in 1..Len(chan) \/ i = Len(chan) + 1
      BY <3>1
    <3>4. \A r \in Shells : (Queued(r))' <=> Queued(r)
      <4>1. ASSUME NEW r \in Shells, (Queued(r))' PROVE Queued(r)
        <5>1. PICK i \in 1..Len(chan') : chan'[i] = r
          BY <4>1 DEF Queued
        <5>2. r # Stop
          BY BgAssumption DEF Stop
        <5>3. i \in 1..Len(chan) /\ chan[i] = r
          BY <3>1, <3>3, <5>1, <5>2
        <5>4. QED
          BY <5>3 DEF Queued
      <4>2. ASSUME NEW r \in Shells, Queued(r) PROVE (Queued(r))'
        <5>1. PICK i \in 1..Len(chan) : chan[i] = r
          BY <4>2 DEF Queued
        <5>2. i \in 1..Len(chan') /\ chan'[i] = r
          BY <3>1, <5>1
        <5>3. QED
          BY <5>2 DEF Queued
      <4>3. QED
        BY <4>1, <4>2
    <3>5. BgTypes'
      BY <2>1, <3>1 DEF BgTypes
    <3>6. Passage'
      <4>1. \A i, j \in 1..Len(chan') : chan'[i] = chan'[j] => i = j
        BY <3>1, <3>2, <3>3 DEF Passage
      <4>2. \A i \in 1..Len(chan') : chan'[i] = Stop => i = Len(chan')
        BY <3>1, <3>2, <3>3
      <4>3. QED
        BY <2>1, <3>4, <4>1, <4>2 DEF Passage
    <3>7. Reaped'
      BY <2>1, <3>4 DEF Reaped
    <3>8. Copied'
      BY <2>1 DEF Copied
    <3>9. QED
      BY <3>5, <3>6, <3>7, <3>8
  <2>3. CASE sup # "up"
    <3>1. chan' = chan
      BY <2>1, <2>3
    <3>2. QED
      BY <2>1, <3>1 DEF BgTypes, Passage, Reaped, Copied, Queued
  <2>4. QED
    BY <2>2, <2>3
<1>3. CASE ShutdownDone
  <2>1. /\ host = "waits" /\ host' = "done"
        /\ UNCHANGED <<start, tree, printed, taken, log, status, watched, exiting, sup, chan>>
    BY <1>3 DEF ShutdownDone
  <2>2. BgTypes'
    BY <2>1 DEF BgTypes
  <2>3. Passage'
    BY <2>1 DEF Passage, Queued
  <2>4. Reaped' /\ Copied'
    BY <2>1 DEF Reaped, Copied, Queued
  <2>5. QED
    BY <2>2, <2>3, <2>4
<1>4. QED
  BY <1>1, <1>2, <1>3

LEMMA BgSteps == ASSUME BgInv, [BgNext]_bgVars PROVE BgInv'
<1>1. CASE UNCHANGED bgVars
  <2>1. UNCHANGED <<start, tree, printed, taken, log, status, watched, exiting, sup, chan, host>>
    BY <1>1 DEF bgVars
  <2>2. BgTypes'
    BY <2>1 DEF BgInv, BgTypes
  <2>3. Passage'
    BY <2>1 DEF BgInv, Passage, Queued
  <2>4. Reaped' /\ Copied'
    BY <2>1 DEF BgInv, Reaped, Copied, Queued
  <2>5. QED
    BY <2>2, <2>3, <2>4 DEF BgInv
<1>2. CASE BgNext
  BY <1>2, ProcessSteps, HandSteps, TakeSteps, WatchSteps, ShutdownSteps DEF BgNext
<1>3. QED
  BY <1>1, <1>2

\* The run on disk, read from its end.
LEMMA ClosedSuffix ==
  ASSUME NEW l, NEW n \in Nat, Closed(l, n)
  PROVE  /\ IsSuffix(l.prev \o l.cur, [i \in 1..n |-> i] \o <<ExitMark>>)
         /\ Len(l.prev \o l.cur) > Len(l.prev)
<1>1. PICK d : RunTo(d, n) /\ l.prev \o l.cur = d \o <<ExitMark>>
  BY DEF Closed
<1>2. l.prev \in Seq(Int) /\ l.cur \in Seq(Int) /\ Len(l.cur) > 0
  BY DEF Closed, Logs
<1>3. Len(l.prev \o l.cur) > Len(l.prev)
  <2>1. Len(l.prev \o l.cur) = Len(l.prev) + Len(l.cur) /\ Len(l.prev) \in Nat /\ Len(l.cur) \in Nat
    BY <1>2, Joined
  <2>2. PICK p \in Nat : p = Len(l.prev)
    BY <2>1
  <2>3. PICK c \in Nat : c = Len(l.cur) /\ c > 0
    BY <1>2, <2>1
  <2>4. p + c > p
    BY <2>3
  <2>5. QED
    BY <2>1, <2>2, <2>3, <2>4
<1>4. PICK m \in Nat : m = Len(d) /\ m <= n /\ d \in Seq(Int) /\ \A i \in 1..m : d[i] = (n - m) + i
  BY <1>1 DEF RunTo
<1>5. PICK x \in Seq(Int) : x = <<ExitMark>> /\ Len(x) = 1 /\ x[1] = ExitMark
  <2>1. <<ExitMark>> \in Seq(Int) /\ Len(<<ExitMark>>) = 1 /\ <<ExitMark>>[1] = ExitMark
    BY DEF ExitMark
  <2>2. QED
    BY <2>1, Zenon
<1>6. PICK a \in Seq(Int) : a = [i \in 1..n |-> i] /\ Len(a) = n /\ \A i \in 1..n : a[i] = i
  <2> DEFINE b == [i \in 1..n |-> i]
  <2>1. b \in Seq(Int) /\ Len(b) = n /\ \A i \in 1..n : b[i] = i
    OBVIOUS
  <2> HIDE DEF b
  <2>2. QED
    BY <2>1, Zenon DEF b
<1>7. PICK e \in Seq(Int) : /\ e = d \o x /\ Len(e) = m + 1 /\ (\A i \in 1..m : e[i] = (n - m) + i)
                            /\ e[m + 1] = ExitMark
  <2>1. /\ d \o x \in Seq(Int) /\ Len(d \o x) = Len(d) + Len(x)
        /\ \A i \in 1..Len(d) : (d \o x)[i] = d[i]
        /\ \A i \in 1..Len(x) : (d \o x)[Len(d) + i] = x[i]
    BY <1>4, Joined
  <2>2. (d \o x)[m + 1] = ExitMark
    BY <1>4, <1>5, <2>1
  <2>3. \A i \in 1..m : (d \o x)[i] = (n - m) + i
    BY <1>4, <2>1
  <2>4. Len(d \o x) = m + 1
    BY <1>4, <1>5, <2>1
  <2>5. QED
    BY <2>1, <2>2, <2>3, <2>4, Zenon
<1>8. PICK f \in Seq(Int) : /\ f = a \o x /\ Len(f) = n + 1 /\ (\A i \in 1..n : f[i] = i)
                            /\ f[n + 1] = ExitMark
  <2>1. /\ a \o x \in Seq(Int) /\ Len(a \o x) = Len(a) + Len(x)
        /\ \A i \in 1..Len(a) : (a \o x)[i] = a[i]
        /\ \A i \in 1..Len(x) : (a \o x)[Len(a) + i] = x[i]
    BY Joined
  <2>2. (a \o x)[n + 1] = ExitMark
    BY <1>5, <1>6, <2>1
  <2>3. \A i \in 1..n : (a \o x)[i] = i
    BY <1>6, <2>1
  <2>4. Len(a \o x) = n + 1
    BY <1>5, <1>6, <2>1
  <2>5. QED
    BY <2>1, <2>2, <2>3, <2>4, Zenon
<1>9. \A i \in 1..(m + 1) : e[((m + 1) - i) + 1] = f[((n + 1) - i) + 1]
  <2>1. ASSUME NEW i \in 1..(m + 1) PROVE e[((m + 1) - i) + 1] = f[((n + 1) - i) + 1]
    <3>1. CASE i = 1
      <4>1. ((m + 1) - i) + 1 = m + 1 /\ ((n + 1) - i) + 1 = n + 1
        BY <3>1
      <4>2. QED
        BY <1>7, <1>8, <4>1
    <3>2. CASE i # 1
      <4>1. ((m + 1) - i) + 1 \in 1..m /\ ((n + 1) - i) + 1 \in 1..n
        BY <1>4, <3>2
      <4>2. (n - m) + (((m + 1) - i) + 1) = ((n + 1) - i) + 1
        OBVIOUS
      <4>3. QED
        BY <1>7, <1>8, <4>1, <4>2
    <3>3. QED
      BY <3>1, <3>2
  <2>2. QED
    BY <2>1
<1>10. IsSuffix(e, f)
  <2>1. PICK re : re = Reverse(e) /\ re = [i \in 1..(m + 1) |-> e[((m + 1) - i) + 1]]
    BY <1>7 DEF Reverse
  <2>2. PICK rf : rf = Reverse(f) /\ rf = [i \in 1..(n + 1) |-> f[((n + 1) - i) + 1]]
    BY <1>8 DEF Reverse
  <2>3. re \in Seq(Int) /\ Len(re) = m + 1
    <3>1. \A i \in 1..(m + 1) : ((m + 1) - i) + 1 \in 1..(m + 1)
      OBVIOUS
    <3>2. \A i \in 1..(m + 1) : e[((m + 1) - i) + 1] \in Int
      BY <1>7, <3>1, ElementOfSeq
    <3>3. QED
      BY <2>1, <3>2
  <2>4. rf \in Seq(Int) /\ Len(rf) = n + 1
    <3>1. \A i \in 1..(n + 1) : ((n + 1) - i) + 1 \in 1..(n + 1)
      OBVIOUS
    <3>2. \A i \in 1..(n + 1) : f[((n + 1) - i) + 1] \in Int
      BY <1>8, <3>1, ElementOfSeq
    <3>3. QED
      BY <2>2, <3>2
  <2>5. \A i \in 1..(m + 1) : i \in 1..(n + 1) /\ re[i] = rf[i]
    BY <1>4, <1>9, <2>1, <2>2
  <2>6. SubSeq(re, 1, m + 1) = SubSeq(rf, 1, m + 1)
    <3>1. /\ SubSeq(re, 1, m + 1) \in Seq(Int) /\ Len(SubSeq(re, 1, m + 1)) = m + 1
          /\ \A i \in 1..(m + 1) : SubSeq(re, 1, m + 1)[i] = re[i]
      BY <2>3
    <3>2. m + 1 \in 0..Len(rf)
      BY <1>4, <2>4
    <3>3. /\ SubSeq(rf, 1, m + 1) \in Seq(Int) /\ Len(SubSeq(rf, 1, m + 1)) = m + 1
          /\ \A i \in 1..(m + 1) : SubSeq(rf, 1, m + 1)[i] = rf[i]
      BY <2>4, <3>2
    <3>4. \A i \in 1..(m + 1) : SubSeq(re, 1, m + 1)[i] = SubSeq(rf, 1, m + 1)[i]
      BY <2>5, <3>1, <3>3
    <3>5. QED
      BY <3>1, <3>3, <3>4, SeqEqual
  <2>7. QED
    <3>1. Len(re) <= Len(rf) /\ SubSeq(re, 1, Len(re)) = SubSeq(rf, 1, Len(re))
      BY <1>4, <2>3, <2>4, <2>6
    <3>2. IsPrefix(re, rf)
      BY <3>1 DEF IsPrefix
    <3>3. QED
      BY <2>1, <2>2, <3>2 DEF IsSuffix
<1>11. QED
  BY <1>1, <1>3, <1>5, <1>6, <1>7, <1>8, <1>10

(* A background shell's exit is published only with its output on disk, and   *)
(* nothing the supervisor was given outlives the session: for any number of    *)
(* shells, any segment size, any output and any failures of the log.           *)
THEOREM ShellsSettledAlways == BgSpec => []ShellsSettled
<1>1. BgInv => ShellsSettled
  <2>1. BgInv => ExitPublished
    <3>1. ASSUME BgInv, NEW s \in Shells, status[s] = "Exited"
          PROVE  /\ IsSuffix(log[s].prev \o log[s].cur, [i \in 1..printed[s] |-> i] \o <<ExitMark>>)
                 /\ Len(log[s].prev \o log[s].cur) > Len(log[s].prev)
      <4>1. printed[s] \in Nat /\ Closed(log[s], printed[s])
        BY <3>1 DEF BgInv, BgTypes, Copied
      <4>2. QED
        BY <4>1, ClosedSuffix
    <3>2. QED
      BY <3>1, Zenon DEF ExitPublished
  <2>2. BgInv => SupervisedDie
    BY DEF BgInv, Reaped, SupervisedDie
  <2>3. QED
    BY <2>1, <2>2 DEF ShellsSettled
<1>2. QED
  BY <1>1, BgStarts, BgSteps, PTL DEF BgSpec

-----------------------------------------------------------------------------
(* MCP servers.                                                            *)

Phases == {"no", "stdio", "http", "spawned", "failing", "up"}
Shown == {"none", "Connected", "Failed", "Skipped", "Closed"}
Stops == {"no", "begin", "cancel", "take", "wait", "kill", "done"}

McpTypes ==
  /\ launch \in Launches /\ phase \in [Names -> Phases] /\ st \in [Names -> Shown]
  /\ pgid \in [Names -> BOOLEAN] /\ child \in [Names -> BOOLEAN]
  /\ alive \in [Names -> SUBSET {"leader", "member"}]
  /\ stop \in [Who -> [Names -> Stops]]

\* Where a launch stands, and what its servers may still do.
McpStages ==
  /\ inflight # "none" => hub \in {"session", "stopping"}
  /\ tools # <<>> => hub \in {"session", "stopping"}
  /\ \A n \in Names :
       /\ exit \in {"main", "signal"} => hub \notin {"collect", "connect"}
       /\ stop["signal"][n] # "no" => hub \notin {"collect", "connect"}
       /\ hub \in {"collect", "error"} => phase[n] = "no" /\ alive[n] = {}
       /\ hub \in {"session", "stopping"} => phase[n] \in {"no", "up"}
       /\ phase[n] \in {"stdio", "http", "spawned"} => st[n] = "Connected"
       /\ stop["connect"][n] # "no" => phase[n] \in {"failing", "up"}

\* A process lives only in a group that was not killed yet.
Grouped ==
  \A n \in Names :
    /\ alive[n] # {} => pgid[n]
    /\ stop["connect"][n] = "done" => alive[n] = {}

McpInv == McpTypes /\ McpStages /\ Grouped /\ NoServerOutlives /\ StartsWhatWasAsked

\* What an entry amounts to: an entry that removes is none.
Standing(e) == IF e = Null THEN None ELSE e

Said(l, n) ==
  <<IF l.strict THEN None ELSE l.user[n], IF l.strict \/ ~l.trusted THEN None ELSE l.project[n]>>
  \o [i \in DOMAIN l.configs |-> l.configs[i][n]]

\* Layering the sources in order leaves, for each name, what the last one to name it said.
LEMMA LastLayerWins ==
  ASSUME NEW l \in Launches, NEW n \in Names
  PROVE  collect(l).raw[n] = Standing(LastSaid(l, n))
<1> DEFINE base == CASE l.strict -> Nothing
                     [] ~l.strict /\ l.trusted -> layer(layer(Nothing, l.user), l.project)
                     [] OTHER -> layer(Nothing, l.user)
           Maps == [Names -> Entries]
           Rec(h) == h = [i \in 0..Len(l.configs) |-> IF i = 0 THEN base ELSE layer(h[i - 1], l.configs[i])]
           F == [p \in (1..Len(l.configs)) \X Maps |-> layer(p[2], l.configs[p[1]])]
<1>1. /\ l.user \in Maps /\ l.project \in Maps /\ l.configs \in Seq(Maps) /\ Len(l.configs) \in Nat
      /\ l.strict \in BOOLEAN /\ l.trusted \in BOOLEAN
      /\ \A i \in 1..Len(l.configs) : l.configs[i] \in Maps
  BY McpAssumption, ElementOfSeq
<1>2. None \in Entries /\ Null \in Entries /\ None # Null
  BY DEF None, Null, Entry, Entries
<1>3. \A a, b \in Maps : layer(a, b) \in Maps /\ layer(a, b)[n] = IF b[n] = None THEN a[n] ELSE Standing(b[n])
  BY <1>2 DEF layer, Standing
<1>4. Nothing \in Maps /\ Nothing[n] = None
  BY <1>2 DEF Nothing
<1>5. base \in Maps
  <2>1. layer(Nothing, l.user) \in Maps
    BY <1>1, <1>3, <1>4
  <2>2. layer(layer(Nothing, l.user), l.project) \in Maps
    BY <1>1, <1>3, <2>1
  <2>3. QED
    BY <1>4, <2>1, <2>2
<1> DEFINE x == IF l.strict THEN None ELSE l.user[n]
           y == IF l.strict \/ ~l.trusted THEN None ELSE l.project[n]
<1>6. base[n] = IF y # None THEN Standing(y) ELSE Standing(x)
  <2>1. CASE l.strict
    BY <1>2, <1>4, <2>1 DEF Standing
  <2>2. CASE ~l.strict /\ l.trusted
    <3>1. layer(Nothing, l.user) \in Maps /\ layer(Nothing, l.user)[n] = IF l.user[n] = None THEN None ELSE Standing(l.user[n])
      BY <1>1, <1>3, <1>4
    <3>2. layer(layer(Nothing, l.user), l.project)[n]
            = IF l.project[n] = None THEN layer(Nothing, l.user)[n] ELSE Standing(l.project[n])
      BY <1>1, <1>3, <3>1
    <3>3. base = layer(layer(Nothing, l.user), l.project) /\ x = l.user[n] /\ y = l.project[n]
      BY <2>2
    <3>4. Standing(None) = None
      BY <1>2 DEF Standing
    <3> HIDE DEF base, x, y
    <3>5. QED
      BY <3>1, <3>2, <3>3, <3>4
  <2>3. CASE ~l.strict /\ ~l.trusted
    <3>1. layer(Nothing, l.user)[n] = IF l.user[n] = None THEN None ELSE Standing(l.user[n])
      BY <1>1, <1>3, <1>4
    <3>2. base = layer(Nothing, l.user) /\ x = l.user[n] /\ y = None
      BY <2>3
    <3>3. Standing(None) = None
      BY <1>2 DEF Standing
    <3> HIDE DEF base, x, y
    <3>4. QED
      BY <3>1, <3>2, <3>3
  <2>4. QED
    BY <1>1, <2>1, <2>2, <2>3
<1> HIDE DEF base, Maps
<1>7. F \in [(1..Len(l.configs)) \X Maps -> Maps]
  BY <1>1, <1>3
<1>8. \A i \in 1..Len(l.configs), m \in Maps : F[<<i, m>>] = layer(m, l.configs[i])
  OBVIOUS
<1> HIDE DEF F
<1>a. Len(l.configs) \in Nat
  BY <1>1
<1>9. PICK g : Iterates(g, Len(l.configs), Maps, base, F)
  BY <1>a, <1>5, <1>7, Recursion, Zenon
<1>10. Rec(g)
  <2>1. g \in [0..Len(l.configs) -> Maps] /\ g[0] = base /\ \A i \in 1..Len(l.configs) : g[i] = F[<<i, g[i - 1]>>]
    BY <1>9 DEF Iterates
  <2>2. ASSUME NEW i \in 0..Len(l.configs) PROVE g[i] = IF i = 0 THEN base ELSE layer(g[i - 1], l.configs[i])
    <3>1. CASE i = 0
      BY <2>1, <3>1
    <3>2. CASE i # 0
      <4>1. i \in 1..Len(l.configs) /\ i - 1 \in 0..Len(l.configs)
        BY <1>a, <3>2
      <4>2. QED
        BY <1>8, <2>1, <3>2, <4>1
    <3>3. QED
      BY <3>1, <3>2
  <2>3. QED
    BY <2>1, <2>2
<1> DEFINE h == CHOOSE f : Rec(f)
<1>11. Rec(h)
  BY <1>10
<1>12. collect(l).raw = h[Len(l.configs)]
  BY DEF collect, base
<1> HIDE DEF h
<1>13. \A i \in 0..Len(l.configs) : h[i] = IF i = 0 THEN base ELSE layer(h[i - 1], l.configs[i])
  BY <1>11
<1> DEFINE said == Said(l, n)
           N == Len(l.configs)
<1>14. /\ Len(said) = N + 2 /\ DOMAIN said = 1..(N + 2) /\ said[1] = x /\ said[2] = y
       /\ \A i \in 1..N : said[i + 2] = l.configs[i][n]
  <2>1. PICK c : c = [i \in DOMAIN l.configs |-> l.configs[i][n]]
    OBVIOUS
  <2>2. \A i \in 1..N : l.configs[i][n] \in Entries
    BY <1>1 DEF Maps
  <2>3. c \in Seq(Entries) /\ Len(c) = N /\ \A i \in 1..N : c[i] = l.configs[i][n]
    BY <1>1, <2>1, <2>2
  <2>4. x \in Entries /\ y \in Entries
    BY <1>1, <1>2 DEF Maps
  <2>5. PICK q \in Seq(Entries) : q = <<x, y>> /\ Len(q) = 2 /\ q[1] = x /\ q[2] = y
    <3>1. <<x, y>> \in Seq(Entries) /\ Len(<<x, y>>) = 2 /\ <<x, y>>[1] = x /\ <<x, y>>[2] = y
      BY <2>4
    <3>2. QED
      BY <3>1, Zenon
  <2>6. said = q \o c
    BY <2>1, <2>5 DEF Said
  <2> HIDE DEF said, x, y
  <2>7. /\ q \o c \in Seq(Entries) /\ Len(q \o c) = Len(q) + Len(c)
        /\ \A i \in 1..Len(q) : (q \o c)[i] = q[i]
        /\ \A i \in 1..Len(c) : (q \o c)[Len(q) + i] = c[i]
    <3>1. PICK r \in Seq(Entries) : r = c
      BY <2>3
    <3>2. /\ q \o r \in Seq(Entries) /\ Len(q \o r) = Len(q) + Len(r)
          /\ \A i \in 1..Len(q) : (q \o r)[i] = q[i]
          /\ \A i \in 1..Len(r) : (q \o r)[Len(q) + i] = r[i]
      BY Joined
    <3>3. QED
      BY <3>1, <3>2, Zenon
  <2>8. Len(said) = N + 2 /\ DOMAIN said = 1..(N + 2)
    BY <1>1, <2>3, <2>5, <2>6, <2>7
  <2>9. said[1] = x /\ said[2] = y
    BY <2>5, <2>6, <2>7
  <2>10. ASSUME NEW i \in 1..N PROVE said[i + 2] = l.configs[i][n]
    <3>1. Len(q) + i = i + 2
      BY <2>5
    <3>2. QED
      BY <2>3, <2>6, <2>7, <3>1
  <2>11. QED
    BY <2>8, <2>9, <2>10
<1> HIDE DEF said, N, x, y
<1>15. N \in Nat /\ N = Len(l.configs)
  BY <1>a DEF N
\* The last of the first i + 2 sources that named it, or none did.
<1> DEFINE Says(i) ==
      \/ (\A j \in 1..(i + 2) : said[j] = None) /\ h[i][n] = None
      \/ \E m \in 1..(i + 2) : said[m] # None /\ (\A j \in (m + 1)..(i + 2) : said[j] = None) /\ h[i][n] = Standing(said[m])
           Good == {i \in 0..N : h[i] \in Maps /\ Says(i)}
<1>16. 0 \in Good
  <2>1. h[0] = base /\ 0 \in 0..N
    BY <1>13, <1>15
  <2>2. Says(0)
    <3>1. 0 + 2 = 2 /\ (\A j \in 1..2 : j = 1 \/ j = 2) /\ (\A j \in 3..2 : FALSE) /\ (\A j \in 2..2 : j = 2)
      OBVIOUS
    <3>2. CASE y # None
      <4>1. said[2] # None /\ h[0][n] = Standing(said[2]) /\ 2 \in 1..(0 + 2) /\ \A j \in (2 + 1)..(0 + 2) : said[j] = None
        BY <1>6, <1>14, <2>1, <3>2
      <4>2. QED
        BY <4>1
    <3>3. CASE y = None /\ x # None
      <4>1. said[1] # None /\ h[0][n] = Standing(said[1]) /\ 1 \in 1..(0 + 2) /\ \A j \in (1 + 1)..(0 + 2) : said[j] = None
        BY <1>6, <1>14, <2>1, <3>3
      <4>2. QED
        BY <4>1
    <3>4. CASE y = None /\ x = None
      <4>1. h[0][n] = None /\ \A j \in 1..(0 + 2) : said[j] = None
        BY <1>2, <1>6, <1>14, <2>1, <3>4 DEF Standing
      <4>2. QED
        BY <4>1
    <3>5. QED
      BY <3>2, <3>3, <3>4
  <2>3. QED
    BY <1>5, <2>1, <2>2
<1>17. ASSUME NEW i \in 1..N, i - 1 \in Good PROVE i \in Good
  <2>1. i \in 0..N /\ i # 0 /\ i \in 1..Len(l.configs) /\ (i - 1) + 2 = i + 1 /\ (i + 1) + 1 = i + 2
    BY <1>15
  <2>2. h[i] = layer(h[i - 1], l.configs[i]) /\ h[i - 1] \in Maps /\ l.configs[i] \in Maps /\ said[i + 2] = l.configs[i][n]
    BY <1>1, <1>13, <1>14, <1>15, <1>17, <2>1
  <2>3. h[i] \in Maps /\ h[i][n] = IF said[i + 2] = None THEN h[i - 1][n] ELSE Standing(said[i + 2])
    BY <1>3, <2>2
  <2>4. Says(i - 1)
    BY <1>17
  <2>5. Says(i)
    <3>1. CASE said[i + 2] # None
      <4>1. i + 2 \in 1..(i + 2) /\ \A j \in ((i + 2) + 1)..(i + 2) : FALSE
        BY <2>1
      <4>2. QED
        BY <2>3, <3>1, <4>1
    <3>2. CASE said[i + 2] = None
      <4>1. \A j \in 1..(i + 2) : j \in 1..((i - 1) + 2) \/ j = i + 2
        BY <2>1
      <4>2. CASE (\A j \in 1..((i - 1) + 2) : said[j] = None) /\ h[i - 1][n] = None
        BY <2>3, <3>2, <4>1, <4>2
      <4>3. CASE \E m \in 1..((i - 1) + 2) : /\ said[m] # None /\ (\A j \in (m + 1)..((i - 1) + 2) : said[j] = None)
                                             /\ h[i - 1][n] = Standing(said[m])
        <5>1. PICK m \in 1..((i - 1) + 2) : /\ said[m] # None /\ (\A j \in (m + 1)..((i - 1) + 2) : said[j] = None)
                                            /\ h[i - 1][n] = Standing(said[m])
          BY <4>3
        <5>2. m \in 1..(i + 2) /\ \A j \in (m + 1)..(i + 2) : j \in (m + 1)..((i - 1) + 2) \/ j = i + 2
          BY <2>1
        <5>3. h[i][n] = Standing(said[m]) /\ \A j \in (m + 1)..(i + 2) : said[j] = None
          BY <2>3, <3>2, <5>1, <5>2
        <5>4. QED
          BY <5>1, <5>2, <5>3
      <4>4. QED
        BY <2>4, <4>2, <4>3
    <3>3. QED
      BY <3>1, <3>2
  <2>6. QED
    BY <2>1, <2>3, <2>5
<1>18. 0..N \subseteq Good
  <2> HIDE DEF Good
  <2>1. QED
    BY <1>15, <1>16, <1>17, Climb
<1>19. Says(N)
  BY <1>15, <1>18
<1> DEFINE where == {i \in DOMAIN said : said[i] # None}
<1>20. LastSaid(l, n) = IF where = {} THEN None ELSE said[CHOOSE i \in where : \A j \in where : j <= i]
  BY DEF LastSaid, said, Said
<1>21. CASE (\A j \in 1..(N + 2) : said[j] = None) /\ h[N][n] = None
  <2>1. where = {}
    BY <1>14, <1>21
  <2>2. QED
    BY <1>2, <1>12, <1>15, <1>20, <1>21, <2>1 DEF Standing
<1>22. CASE \E m \in 1..(N + 2) : said[m] # None /\ (\A j \in (m + 1)..(N + 2) : said[j] = None) /\ h[N][n] = Standing(said[m])
  <2>1. PICK m \in 1..(N + 2) : said[m] # None /\ (\A j \in (m + 1)..(N + 2) : said[j] = None) /\ h[N][n] = Standing(said[m])
    BY <1>22
  <2>2. m \in where /\ \A j \in where : j \in 1..(N + 2) /\ j <= m
    BY <1>14, <1>15, <2>1
  <2>3. ASSUME NEW i \in where, \A j \in where : j <= i PROVE i = m
    BY <2>2, <2>3
  <2>4. (CHOOSE i \in where : \A j \in where : j <= i) = m
    <3> HIDE DEF where
    <3>1. QED
      BY <2>2, <2>3
  <2>5. where # {}
    BY <2>2
  <2>6. LastSaid(l, n) = said[m]
    BY <1>20, <2>4, <2>5
  <2>7. QED
    BY <1>12, <1>15, <2>1, <2>6
<1>23. QED
  BY <1>19, <1>21, <1>22

LEMMA ParsesTo ==
  ASSUME NEW n, NEW e
  PROVE  parse_server(n, e) \in {"invalid", "off", "stdio", "http"}
  BY DEF parse_server

LEMMA McpStarts == ASSUME McpInit PROVE McpInv
<1>1. McpTypes
  <2>1. HubIdle \in [Who -> [Names -> Stops]]
    BY DEF HubIdle, Stops
  <2>2. QED
    BY <2>1 DEF McpInit, McpTypes, Phases, Shown
<1>2. McpStages
  BY DEF McpInit, McpStages, HubIdle, Who
<1>3. Grouped /\ NoServerOutlives /\ StartsWhatWasAsked
  BY DEF McpInit, Grouped, NoServerOutlives, StartsWhatWasAsked
<1>4. QED
  BY <1>1, <1>2, <1>3 DEF McpInv

\* Which servers a launch starts.
LEMMA CollectStep == ASSUME McpInv, Collect PROVE McpInv'
<1> USE DEF McpInv
<1>1. hub = "collect" /\ UNCHANGED <<launch, closed, peer, service, child, pgid, alive, link, stop, tools, inflight, toolCalls>>
  BY DEF Collect
<1>2. \A n \in Names : phase[n] = "no" /\ alive[n] = {} /\ stop["signal"][n] = "no" /\ stop["connect"][n] = "no"
  BY <1>1 DEF McpStages
<1>3. tools = <<>> /\ inflight = "none"
  BY <1>1 DEF McpStages
<1>4. CASE hub' = "error" /\ exit' = "main" /\ UNCHANGED <<phase, st>>
  <2>1. McpTypes'
    BY <1>1, <1>4 DEF McpTypes
  <2>2. McpStages'
    BY <1>1, <1>2, <1>3, <1>4 DEF McpStages
  <2>3. Grouped' /\ NoServerOutlives'
    BY <1>1, <1>2, <1>4 DEF Grouped, NoServerOutlives
  <2>4. StartsWhatWasAsked'
    BY <1>4 DEF StartsWhatWasAsked
  <2>5. QED
    BY <2>1, <2>2, <2>3, <2>4
<1>5. CASE /\ phase' = [n \in Names |-> IF Outcome(collect(launch), n) \in {"stdio", "http"}
                                        THEN Outcome(collect(launch), n) ELSE "no"]
           /\ st' = [n \in Names |-> CASE Outcome(collect(launch), n) \in {"stdio", "http"} -> "Connected"
                                       [] Outcome(collect(launch), n) = "invalid" -> "Failed"
                                       [] n \in collect(launch).skipped -> "Skipped"
                                       [] OTHER -> "none"]
           /\ hub' = "connect" /\ UNCHANGED exit
  <2>1. PICK c : c = collect(launch)
    OBVIOUS
  <2>2. \A n \in Names : /\ phase'[n] = IF Outcome(c, n) \in {"stdio", "http"} THEN Outcome(c, n) ELSE "no"
                         /\ Outcome(c, n) \in {"stdio", "http"} => st'[n] = "Connected"
                         /\ Outcome(c, n) = "invalid" => st'[n] # "none"
                         /\ st'[n] \in Shown
    <3>1. ASSUME NEW n \in Names
          PROVE  /\ phase'[n] = IF Outcome(c, n) \in {"stdio", "http"} THEN Outcome(c, n) ELSE "no"
                 /\ Outcome(c, n) \in {"stdio", "http"} => st'[n] = "Connected"
                 /\ Outcome(c, n) = "invalid" => st'[n] # "none"
                 /\ st'[n] \in Shown
      <4>1. PICK o : o = Outcome(c, n)
        OBVIOUS
      <4>2. phase'[n] = IF o \in {"stdio", "http"} THEN o ELSE "no"
        BY <1>5, <2>1, <4>1
      <4>3. st'[n] = CASE o \in {"stdio", "http"} -> "Connected"
                       [] o = "invalid" -> "Failed"
                       [] n \in c.skipped -> "Skipped"
                       [] OTHER -> "none"
        BY <1>5, <2>1, <4>1
      <4>4. o \in {"stdio", "http"} => o # "invalid"
        OBVIOUS
      <4>5. QED
        <5>1. n \in c.skipped => c.raw[n] = None
          BY <2>1 DEF collect
        <5>a. n \in c.skipped => o \notin {"stdio", "http", "invalid"}
          BY <4>1, <5>1 DEF Outcome
        <5>2. st'[n] \in Shown /\ (o \in {"stdio", "http"} => st'[n] = "Connected") /\ (o = "invalid" => st'[n] # "none")
          BY <4>3, <4>4, <5>a DEF Shown
        <5>3. QED
          BY <4>1, <4>2, <5>2
    <3>2. QED
      BY <3>1
  <2>3. \A n \in Names : phase'[n] \in Phases /\ st'[n] \in Shown
    BY <1>5, <2>1, <2>2 DEF Phases
  <2>4. McpTypes'
    BY <1>1, <1>5, <2>3 DEF McpTypes, Phases
  <2>5. McpStages'
    BY <1>1, <1>2, <1>3, <1>5, <2>2 DEF McpStages
  <2>6. Grouped' /\ NoServerOutlives'
    BY <1>1, <1>2, <1>5 DEF Grouped, NoServerOutlives
  <2>7. StartsWhatWasAsked'
    <3>1. ASSUME NEW n \in Names
          PROVE  /\ phase'[n] # "no" <=> /\ LastSaid(launch, n) \notin {None, Null}
                                         /\ parse_server(n, LastSaid(launch, n)) \in {"stdio", "http"}
                 /\ st'[n] = "none" => \/ LastSaid(launch, n) \in {None, Null}
                                       \/ parse_server(n, LastSaid(launch, n)) = "off"
      <4>1. PICK e : e = LastSaid(launch, n)
        OBVIOUS
      <4>2. c.raw[n] = Standing(e)
        BY <2>1, <4>1, LastLayerWins DEF McpTypes
      <4>3. Outcome(c, n) = IF e \in {None, Null} THEN "off" ELSE parse_server(n, e)
        BY <4>2 DEF Outcome, Standing
      <4>4. parse_server(n, e) \in {"invalid", "off", "stdio", "http"}
        BY ParsesTo
      <4>5. QED
        BY <2>2, <4>1, <4>3, <4>4
    <3>2. QED
      BY <1>1, <3>1, Zenon DEF StartsWhatWasAsked
  <2>8. QED
    BY <2>4, <2>5, <2>6, <2>7
<1>6. QED
  BY <1>4, <1>5 DEF Collect

\* The servers of a launch stay the ones that were asked for.
LEMMA AskedKept ==
  ASSUME StartsWhatWasAsked, launch' = launch, hub' = "connect" => hub = "connect",
         \A n \in Names : (phase'[n] = "no" <=> phase[n] = "no") /\ (st'[n] = "none" => st[n] = "none")
  PROVE  StartsWhatWasAsked'
  BY Zenon DEF StartsWhatWasAsked

\* A stdio server is started in a group of its own.
LEMMA SpawnServerStep == ASSUME McpInv, NEW n \in Names, SpawnServer(n) PROVE McpInv'
<1> USE DEF McpInv
<1>1. McpTypes'
  BY DEF SpawnServer, McpTypes, Phases, Shown, Stops, handle
<1>2. McpStages'
  BY DEF SpawnServer, McpTypes, McpStages, Grouped, Who, handle
<1>3. Grouped'
  BY DEF SpawnServer, McpTypes, McpStages, Grouped, Who, handle
<1>4. NoServerOutlives'
  BY DEF SpawnServer, McpTypes, McpStages, Grouped, NoServerOutlives, handle
<1>5. StartsWhatWasAsked'
  <2>1. launch' = launch /\ hub' = hub
    BY DEF SpawnServer
  <2>2. \A m \in Names : (phase'[m] = "no" <=> phase[m] = "no") /\ (st'[m] = "none" => st[m] = "none")
    BY DEF SpawnServer, McpTypes, handle
  <2>3. QED
    BY <2>1, <2>2, AskedKept
<1>6. QED
  BY <1>1, <1>2, <1>3, <1>4, <1>5

\* A launcher starts a process in its group.
LEMMA ServerForksStep == ASSUME McpInv, NEW n \in Names, ServerForks(n) PROVE McpInv'
<1> USE DEF McpInv
<1>1. McpTypes'
  BY DEF ServerForks, McpTypes, Phases, Shown, Stops, handle
<1>2. McpStages'
  BY DEF ServerForks, McpTypes, McpStages, Grouped, Who, handle
<1>3. Grouped'
  BY DEF ServerForks, McpTypes, McpStages, Grouped, Who, handle
<1>4. NoServerOutlives'
  BY DEF ServerForks, McpTypes, McpStages, Grouped, NoServerOutlives, handle
<1>5. StartsWhatWasAsked'
  <2>1. launch' = launch /\ hub' = hub
    BY DEF ServerForks
  <2>2. \A m \in Names : (phase'[m] = "no" <=> phase[m] = "no") /\ (st'[m] = "none" => st[m] = "none")
    BY DEF ServerForks, McpTypes, handle
  <2>3. QED
    BY <2>1, <2>2, AskedKept
<1>6. QED
  BY <1>1, <1>2, <1>3, <1>4, <1>5

\* A server goes away by itself.
LEMMA ServerCrashStep == ASSUME McpInv, NEW n \in Names, ServerCrash(n) PROVE McpInv'
<1> USE DEF McpInv
<1>1. McpTypes'
  BY DEF ServerCrash, McpTypes, Phases, Shown, Stops, handle
<1>2. McpStages'
  BY DEF ServerCrash, McpTypes, McpStages, Grouped, Who, handle
<1>3. Grouped'
  BY DEF ServerCrash, McpTypes, McpStages, Grouped, Who, handle
<1>4. NoServerOutlives'
  BY DEF ServerCrash, McpTypes, McpStages, Grouped, NoServerOutlives, handle
<1>5. StartsWhatWasAsked'
  <2>1. launch' = launch /\ hub' = hub
    BY DEF ServerCrash
  <2>2. \A m \in Names : (phase'[m] = "no" <=> phase[m] = "no") /\ (st'[m] = "none" => st[m] = "none")
    BY DEF ServerCrash, McpTypes, handle
  <2>3. QED
    BY <2>1, <2>2, AskedKept
<1>6. QED
  BY <1>1, <1>2, <1>3, <1>4, <1>5

\* A server answered its first requests.
LEMMA StartedStep == ASSUME McpInv, NEW n \in Names, Started(n) PROVE McpInv'
<1> USE DEF McpInv
<1>1. McpTypes'
  BY DEF Started, McpTypes, Phases, Shown, Stops, handle
<1>2. McpStages'
  BY DEF Started, McpTypes, McpStages, Grouped, Who, handle
<1>3. Grouped'
  BY DEF Started, McpTypes, McpStages, Grouped, Who, handle
<1>4. NoServerOutlives'
  BY DEF Started, McpTypes, McpStages, Grouped, NoServerOutlives, handle
<1>5. StartsWhatWasAsked'
  <2>1. launch' = launch /\ hub' = hub
    BY DEF Started
  <2>2. \A m \in Names : (phase'[m] = "no" <=> phase[m] = "no") /\ (st'[m] = "none" => st[m] = "none")
    BY DEF Started, McpTypes, handle
  <2>3. QED
    BY <2>1, <2>2, AskedKept
<1>6. QED
  BY <1>1, <1>2, <1>3, <1>4, <1>5

\* A start is given up.
LEMMA StartFailsStep == ASSUME McpInv, NEW n \in Names, StartFails(n) PROVE McpInv'
<1> USE DEF McpInv
<1>1. McpTypes'
  BY DEF StartFails, McpTypes, Phases, Shown, Stops, handle
<1>2. McpStages'
  BY DEF StartFails, McpTypes, McpStages, Grouped, Who, handle
<1>3. Grouped'
  BY DEF StartFails, McpTypes, McpStages, Grouped, Who, handle
<1>4. NoServerOutlives'
  BY DEF StartFails, McpTypes, McpStages, Grouped, NoServerOutlives, handle
<1>5. StartsWhatWasAsked'
  <2>1. launch' = launch /\ hub' = hub
    BY DEF StartFails
  <2>2. \A m \in Names : (phase'[m] = "no" <=> phase[m] = "no") /\ (st'[m] = "none" => st[m] = "none")
    BY DEF StartFails, McpTypes, handle
  <2>3. QED
    BY <2>1, <2>2, AskedKept
<1>6. QED
  BY <1>1, <1>2, <1>3, <1>4, <1>5

\* The connecting task dies, and its handle with it.
LEMMA PanicsStep == ASSUME McpInv, NEW n \in Names, Panics(n) PROVE McpInv'
<1> USE DEF McpInv
<1>1. McpTypes'
  BY DEF Panics, McpTypes, Phases, Shown, Stops, handle
<1>2. McpStages'
  BY DEF Panics, McpTypes, McpStages, Grouped, Who, handle
<1>3. Grouped'
  BY DEF Panics, McpTypes, McpStages, Grouped, Who, handle
<1>4. NoServerOutlives'
  BY DEF Panics, McpTypes, McpStages, Grouped, NoServerOutlives, handle
<1>5. StartsWhatWasAsked'
  <2>1. launch' = launch /\ hub' = hub
    BY DEF Panics
  <2>2. \A m \in Names : (phase'[m] = "no" <=> phase[m] = "no") /\ (st'[m] = "none" => st[m] = "none")
    BY DEF Panics, McpTypes, handle
  <2>3. QED
    BY <2>1, <2>2, AskedKept
<1>6. QED
  BY <1>1, <1>2, <1>3, <1>4, <1>5

\* A start that was given up has been cleaned up.
LEMMA FailureSettledStep == ASSUME McpInv, NEW n \in Names, FailureSettled(n) PROVE McpInv'
<1> USE DEF McpInv
<1>1. McpTypes'
  BY DEF FailureSettled, McpTypes, Phases, Shown, Stops, handle
<1>2. McpStages'
  BY DEF FailureSettled, McpTypes, McpStages, Grouped, Who, handle
<1>3. Grouped'
  BY DEF FailureSettled, McpTypes, McpStages, Grouped, Who, handle
<1>4. NoServerOutlives'
  BY DEF FailureSettled, McpTypes, McpStages, Grouped, NoServerOutlives, handle
<1>5. StartsWhatWasAsked'
  <2>1. launch' = launch /\ hub' = hub
    BY DEF FailureSettled
  <2>2. \A m \in Names : (phase'[m] = "no" <=> phase[m] = "no") /\ (st'[m] = "none" => st[m] = "none")
    BY DEF FailureSettled, McpTypes, handle
  <2>3. QED
    BY <2>1, <2>2, AskedKept
<1>6. QED
  BY <1>1, <1>2, <1>3, <1>4, <1>5

\* Every start has ended, and the session begins.
LEMMA ConnectedStep == ASSUME McpInv, Connected PROVE McpInv'
<1> USE DEF McpInv
<1>1. McpTypes'
  BY DEF Connected, McpTypes, Phases, Shown, Stops, handle
<1>2. McpStages'
  BY DEF Connected, McpTypes, McpStages, Who, handle
<1>3. Grouped'
  BY DEF Connected, McpTypes, McpStages, Grouped, Who, handle
<1>4. NoServerOutlives'
  BY DEF Connected, McpTypes, McpStages, Grouped, NoServerOutlives, handle
<1>5. StartsWhatWasAsked'
  <2>1. launch' = launch /\ (hub' = "connect" => hub = "connect")
    BY DEF Connected
  <2>2. \A m \in Names : (phase'[m] = "no" <=> phase[m] = "no") /\ (st'[m] = "none" => st[m] = "none")
    BY DEF Connected, McpTypes, handle
  <2>3. QED
    BY <2>1, <2>2, AskedKept
<1>6. QED
  BY <1>1, <1>2, <1>3, <1>4, <1>5

\* A call is answered.
LEMMA CallAnsweredStep == ASSUME McpInv, CallAnswered PROVE McpInv'
<1> USE DEF McpInv
<1>1. McpTypes'
  BY DEF CallAnswered, McpTypes, Phases, Shown, Stops, handle
<1>2. McpStages'
  BY DEF CallAnswered, McpTypes, McpStages, Who, handle
<1>3. Grouped'
  BY DEF CallAnswered, McpTypes, McpStages, Grouped, Who, handle
<1>4. NoServerOutlives'
  BY DEF CallAnswered, McpTypes, McpStages, Grouped, NoServerOutlives, handle
<1>5. StartsWhatWasAsked'
  <2>1. launch' = launch /\ (hub' = "connect" => hub = "connect")
    BY DEF CallAnswered
  <2>2. \A m \in Names : (phase'[m] = "no" <=> phase[m] = "no") /\ (st'[m] = "none" => st[m] = "none")
    BY DEF CallAnswered, McpTypes, handle
  <2>3. QED
    BY <2>1, <2>2, AskedKept
<1>6. QED
  BY <1>1, <1>2, <1>3, <1>4, <1>5

\* A call finds its connection gone.
LEMMA CallLostStep == ASSUME McpInv, CallLost PROVE McpInv'
<1> USE DEF McpInv
<1>1. McpTypes'
  BY DEF CallLost, McpTypes, Phases, Shown, Stops, handle, MarkClosed
<1>2. McpStages'
  BY DEF CallLost, McpTypes, McpStages, Who, handle, MarkClosed
<1>3. Grouped'
  BY DEF CallLost, McpTypes, McpStages, Grouped, Who, handle, MarkClosed
<1>4. NoServerOutlives'
  BY DEF CallLost, McpTypes, McpStages, Grouped, NoServerOutlives, handle, MarkClosed
<1>5. StartsWhatWasAsked'
  <2>1. launch' = launch /\ (hub' = "connect" => hub = "connect")
    BY DEF CallLost
  <2>2. \A m \in Names : (phase'[m] = "no" <=> phase[m] = "no") /\ (st'[m] = "none" => st[m] = "none")
    BY DEF CallLost, McpTypes, handle, MarkClosed
  <2>3. QED
    BY <2>1, <2>2, AskedKept
<1>6. QED
  BY <1>1, <1>2, <1>3, <1>4, <1>5

\* The session ended and the servers are asked to stop.
LEMMA MainStopsStep == ASSUME McpInv, MainStops PROVE McpInv'
<1> USE DEF McpInv
<1>1. McpTypes'
  BY DEF MainStops, McpTypes, Phases, Shown, Stops, handle, BeginShutdown, Handles
<1>2. McpStages'
  BY DEF MainStops, McpTypes, McpStages, Who, handle, BeginShutdown, Handles
<1>3. Grouped'
  BY DEF MainStops, McpTypes, McpStages, Grouped, Who, handle, BeginShutdown, Handles
<1>4. NoServerOutlives'
  BY DEF MainStops, McpTypes, McpStages, Grouped, NoServerOutlives, handle, BeginShutdown, Handles
<1>5. StartsWhatWasAsked'
  <2>1. launch' = launch /\ (hub' = "connect" => hub = "connect")
    BY DEF MainStops
  <2>2. \A m \in Names : (phase'[m] = "no" <=> phase[m] = "no") /\ (st'[m] = "none" => st[m] = "none")
    BY DEF MainStops, McpTypes, handle, BeginShutdown, Handles
  <2>3. QED
    BY <2>1, <2>2, AskedKept
<1>6. QED
  BY <1>1, <1>2, <1>3, <1>4, <1>5

\* A signal asks the servers to stop.
LEMMA SignalStep == ASSUME McpInv, Signal PROVE McpInv'
<1> USE DEF McpInv
<1>1. McpTypes'
  BY DEF Signal, McpTypes, Phases, Shown, Stops, handle, BeginShutdown, Handles
<1>2. McpStages'
  BY DEF Signal, McpTypes, McpStages, Who, handle, BeginShutdown, Handles
<1>3. Grouped'
  BY DEF Signal, McpTypes, McpStages, Grouped, Who, handle, BeginShutdown, Handles
<1>4. NoServerOutlives'
  BY DEF Signal, McpTypes, McpStages, Grouped, NoServerOutlives, handle, BeginShutdown, Handles
<1>5. StartsWhatWasAsked'
  <2>1. launch' = launch /\ (hub' = "connect" => hub = "connect")
    BY DEF Signal
  <2>2. \A m \in Names : (phase'[m] = "no" <=> phase[m] = "no") /\ (st'[m] = "none" => st[m] = "none")
    BY DEF Signal, McpTypes, handle, BeginShutdown, Handles
  <2>3. QED
    BY <2>1, <2>2, AskedKept
<1>6. QED
  BY <1>1, <1>2, <1>3, <1>4, <1>5

\* The program returns and drops its handles.
LEMMA MainReturnsStep == ASSUME McpInv, MainReturns PROVE McpInv'
<1> USE DEF McpInv
<1>1. McpTypes'
  BY DEF MainReturns, McpTypes, Phases, Shown, Stops, handle, DropHub
<1>2. McpStages'
  BY DEF MainReturns, McpTypes, McpStages, Who, handle, DropHub
<1>3. Grouped'
  BY DEF MainReturns, McpTypes, McpStages, Grouped, Who, handle, DropHub
<1>4. NoServerOutlives'
  BY DEF MainReturns, McpTypes, McpStages, Grouped, NoServerOutlives, handle, DropHub
<1>5. StartsWhatWasAsked'
  <2>1. launch' = launch /\ (hub' = "connect" => hub = "connect")
    BY DEF MainReturns
  <2>2. \A m \in Names : (phase'[m] = "no" <=> phase[m] = "no") /\ (st'[m] = "none" => st[m] = "none")
    BY DEF MainReturns, McpTypes, handle, DropHub
  <2>3. QED
    BY <2>1, <2>2, AskedKept
<1>6. QED
  BY <1>1, <1>2, <1>3, <1>4, <1>5

\* The signal task ends the program.
LEMMA SignalExitsStep == ASSUME McpInv, SignalExits PROVE McpInv'
<1> USE DEF McpInv
<1>1. McpTypes'
  BY DEF SignalExits, McpTypes, Phases, Shown, Stops, handle, DropHub
<1>2. McpStages'
  BY DEF SignalExits, McpTypes, McpStages, Who, handle, DropHub
<1>3. Grouped'
  BY DEF SignalExits, McpTypes, McpStages, Grouped, Who, handle, DropHub
<1>4. NoServerOutlives'
  BY DEF SignalExits, McpTypes, McpStages, Grouped, NoServerOutlives, handle, DropHub
<1>5. StartsWhatWasAsked'
  <2>1. launch' = launch /\ (hub' = "connect" => hub = "connect")
    BY DEF SignalExits
  <2>2. \A m \in Names : (phase'[m] = "no" <=> phase[m] = "no") /\ (st'[m] = "none" => st[m] = "none")
    BY DEF SignalExits, McpTypes, handle, DropHub
  <2>3. QED
    BY <2>1, <2>2, AskedKept
<1>6. QED
  BY <1>1, <1>2, <1>3, <1>4, <1>5

\* The program is killed.
LEMMA KilledStep == ASSUME McpInv, Killed PROVE McpInv'
<1> USE DEF McpInv
<1>1. McpTypes'
  BY DEF Killed, McpTypes, Phases, Shown, Stops, handle
<1>2. McpStages'
  BY DEF Killed, McpTypes, McpStages, Who, handle
<1>3. Grouped'
  BY DEF Killed, McpTypes, McpStages, Grouped, Who, handle
<1>4. NoServerOutlives'
  BY DEF Killed, McpTypes, McpStages, Grouped, NoServerOutlives, handle
<1>5. StartsWhatWasAsked'
  <2>1. launch' = launch /\ (hub' = "connect" => hub = "connect")
    BY DEF Killed
  <2>2. \A m \in Names : (phase'[m] = "no" <=> phase[m] = "no") /\ (st'[m] = "none" => st[m] = "none")
    BY DEF Killed, McpTypes, handle
  <2>3. QED
    BY <2>1, <2>2, AskedKept
<1>6. QED
  BY <1>1, <1>2, <1>3, <1>4, <1>5

\* A call finds no peer.
LEMMA CallRefusedStep == ASSUME McpInv, NEW t \in Range(tools), CallRefused(t) PROVE McpInv'
<1> USE DEF McpInv
<1>1. McpTypes'
  BY DEF CallRefused, McpTypes, Phases, Shown, Stops, handle, MarkClosed
<1>2. McpStages'
  BY DEF CallRefused, McpTypes, McpStages, Who, handle, MarkClosed
<1>3. Grouped' /\ NoServerOutlives'
  BY DEF CallRefused, McpTypes, Grouped, NoServerOutlives, handle, MarkClosed
<1>4. StartsWhatWasAsked'
  <2>1. launch' = launch /\ hub' = hub
    BY DEF CallRefused
  <2>2. \A m \in Names : (phase'[m] = "no" <=> phase[m] = "no") /\ (st'[m] = "none" => st[m] = "none")
    BY DEF CallRefused, McpTypes, handle, MarkClosed
  <2>3. QED
    BY <2>1, <2>2, AskedKept
<1>5. QED
  BY <1>1, <1>2, <1>3, <1>4

\* A call is sent.
LEMMA CallSendStep == ASSUME McpInv, NEW t \in Range(tools), CallSend(t) PROVE McpInv'
<1> USE DEF McpInv
<1>1. McpTypes'
  BY DEF CallSend, McpTypes, Phases, Shown, Stops, handle, MarkClosed
<1>2. McpStages'
  BY DEF CallSend, McpTypes, McpStages, Who, handle, MarkClosed
<1>3. Grouped' /\ NoServerOutlives'
  BY DEF CallSend, McpTypes, Grouped, NoServerOutlives, handle, MarkClosed
<1>4. StartsWhatWasAsked'
  <2>1. launch' = launch /\ hub' = hub
    BY DEF CallSend
  <2>2. \A m \in Names : (phase'[m] = "no" <=> phase[m] = "no") /\ (st'[m] = "none" => st[m] = "none")
    BY DEF CallSend, McpTypes, handle, MarkClosed
  <2>3. QED
    BY <2>1, <2>2, AskedKept
<1>5. QED
  BY <1>1, <1>2, <1>3, <1>4

\* A shutdown closes the connection to further calls.
LEMMA ShutCloseStep == ASSUME McpInv, NEW w \in Who, NEW n \in Names, ShutClose(w, n) PROVE McpInv'
<1> USE DEF McpInv
<1>1. McpTypes'
  BY DEF ShutClose, McpTypes, Stops
<1>2. McpStages'
  BY DEF ShutClose, McpTypes, McpStages, Grouped, Who
<1>3. Grouped'
  BY DEF ShutClose, McpTypes, Grouped, Who
<1>4. NoServerOutlives'
  BY DEF ShutClose, McpTypes, Grouped, NoServerOutlives
<1>5. StartsWhatWasAsked'
  <2>1. launch' = launch /\ hub' = hub /\ phase' = phase /\ st' = st
    BY DEF ShutClose
  <2>2. QED
    BY <2>1, AskedKept
<1>6. QED
  BY <1>1, <1>2, <1>3, <1>4, <1>5

\* A shutdown ends the connection.
LEMMA ShutCancelStep == ASSUME McpInv, NEW w \in Who, NEW n \in Names, ShutCancel(w, n) PROVE McpInv'
<1> USE DEF McpInv
<1>1. McpTypes'
  BY DEF ShutCancel, McpTypes, Stops
<1>2. McpStages'
  BY DEF ShutCancel, McpTypes, McpStages, Grouped, Who
<1>3. Grouped'
  BY DEF ShutCancel, McpTypes, Grouped, Who
<1>4. NoServerOutlives'
  BY DEF ShutCancel, McpTypes, Grouped, NoServerOutlives
<1>5. StartsWhatWasAsked'
  <2>1. launch' = launch /\ hub' = hub /\ phase' = phase /\ st' = st
    BY DEF ShutCancel
  <2>2. QED
    BY <2>1, AskedKept
<1>6. QED
  BY <1>1, <1>2, <1>3, <1>4, <1>5

\* One shutdown takes the child.
LEMMA ShutTakeStep == ASSUME McpInv, NEW w \in Who, NEW n \in Names, ShutTake(w, n) PROVE McpInv'
<1> USE DEF McpInv
<1>1. McpTypes'
  BY DEF ShutTake, McpTypes, Stops
<1>2. McpStages'
  BY DEF ShutTake, McpTypes, McpStages, Grouped, Who
<1>3. Grouped'
  BY DEF ShutTake, McpTypes, Grouped, Who
<1>4. NoServerOutlives'
  BY DEF ShutTake, McpTypes, Grouped, NoServerOutlives
<1>5. StartsWhatWasAsked'
  <2>1. launch' = launch /\ hub' = hub /\ phase' = phase /\ st' = st
    BY DEF ShutTake
  <2>2. QED
    BY <2>1, AskedKept
<1>6. QED
  BY <1>1, <1>2, <1>3, <1>4, <1>5

\* A shutdown kills what is left of the group.
LEMMA ShutKillStep == ASSUME McpInv, NEW w \in Who, NEW n \in Names, ShutKill(w, n) PROVE McpInv'
<1> USE DEF McpInv
<1>1. McpTypes'
  BY DEF ShutKill, McpTypes, Stops, KillTree
<1>2. McpStages'
  BY DEF ShutKill, McpTypes, McpStages, Grouped, Who, KillTree
<1>3. Grouped'
  BY DEF ShutKill, McpTypes, Grouped, Who, KillTree
<1>4. NoServerOutlives'
  BY DEF ShutKill, McpTypes, Grouped, NoServerOutlives, KillTree
<1>5. StartsWhatWasAsked'
  <2>1. launch' = launch /\ hub' = hub /\ phase' = phase /\ st' = st
    BY DEF ShutKill
  <2>2. QED
    BY <2>1, AskedKept
<1>6. QED
  BY <1>1, <1>2, <1>3, <1>4, <1>5

LEMMA McpSteps == ASSUME McpInv, [McpNext]_mcpVars PROVE McpInv'
<1>1. CASE UNCHANGED mcpVars
  BY <1>1 DEF mcpVars, McpInv, McpTypes, McpStages, Grouped, NoServerOutlives, StartsWhatWasAsked
<1>2. CASE Collect \/ Connected \/ MainStops \/ Signal \/ MainReturns \/ SignalExits \/ Killed \/ CallAnswered \/ CallLost
  BY <1>2, CollectStep, ConnectedStep, MainStopsStep, SignalStep, MainReturnsStep, SignalExitsStep, KilledStep,
     CallAnsweredStep, CallLostStep
<1>3. ASSUME NEW n \in Names, \/ SpawnServer(n) \/ ServerForks(n) \/ ServerCrash(n) \/ Started(n) \/ StartFails(n)
                              \/ Panics(n) \/ FailureSettled(n)
      PROVE  McpInv'
  BY <1>3, SpawnServerStep, ServerForksStep, ServerCrashStep, StartedStep, StartFailsStep, PanicsStep, FailureSettledStep
<1>4. ASSUME NEW t \in Range(tools), CallRefused(t) \/ CallSend(t) PROVE McpInv'
  BY <1>4, CallRefusedStep, CallSendStep
<1>5. ASSUME NEW w \in Who, NEW n \in Names, ShutClose(w, n) \/ ShutCancel(w, n) \/ ShutTake(w, n) \/ ShutKill(w, n)
      PROVE  McpInv'
  BY <1>5, ShutCloseStep, ShutCancelStep, ShutTakeStep, ShutKillStep
<1>6. QED
  BY <1>1, <1>2, <1>3, <1>4, <1>5 DEF McpNext

\* Whatever the settings of a launch, whichever servers crash, fail to start or are called, and
\* however main's shutdown and the signal task's interleave, only servers that were asked for are
\* started, and none of their processes is left once rc has returned, left through its signal task
\* or given a start up.
THEOREM ServersAccountedAlways == McpSpec => []ServersAccounted
<1>1. McpInv => ServersAccounted
  BY DEF McpInv, ServersAccounted
<1>2. QED
  BY <1>1, McpStarts, McpSteps, PTL DEF McpSpec

-----------------------------------------------------------------------------
(* The tools a hub registers, and the servers their calls reach.           *)

\* A tool of a server that was configured.
Remotes == UNION {Range(Offers[n]) : n \in Names}
McpTools == [server : Names, remote : Remotes, wire : {Wire[p] : p \in Names \X Remotes}]
OneEach(q) == \A i, j \in 1..Len(q) : q[i].wire = q[j].wire => i = j

LEMMA NamesListed == SetToSeq(Names) \in Seq(Names) /\ Len(SetToSeq(Names)) \in Nat
<1>1. IsFiniteSet(Names)
  BY McpAssumption
<1>2. PICK c \in Nat : c = Cardinality(Names)
  BY <1>1, FS_CardinalityType
<1>3. ExistsBijection(1..c, Names)
  BY <1>1, <1>2, FS_CardinalityType
<1>4. PICK f \in [1..c -> Names] : \A a, b \in 1..c : f[a] = f[b] => a = b
  BY <1>3 DEF ExistsBijection, Bijection, Injection, IsInjective
<1>5. IsInjective(f)
  BY <1>4 DEF IsInjective
<1>6. SetToSeq(Names) \in [1..c -> Names]
  BY <1>2, <1>5 DEF SetToSeq
<1>7. QED
  BY <1>6

\* The tools one server offers.
Offered(n) ==
  IF st[n] = "Connected" /\ phase[n] = "up"
  THEN [j \in DOMAIN Offers[n] |-> [server |-> n, remote |-> Offers[n][j], wire |-> Wire[<<n, Offers[n][j]>>]]]
  ELSE <<>>

LEMMA OfferedTyped == ASSUME NEW n \in Names PROVE Offered(n) \in Seq(McpTools)
<1>1. CASE st[n] = "Connected" /\ phase[n] = "up"
  <2>1. PICK o : o = Offers[n] /\ o \in Seq(Range(o))
    BY McpAssumption
  <2>2. Len(o) \in Nat /\ DOMAIN o = 1..Len(o)
    BY <2>1
  <2>3. ASSUME NEW j \in 1..Len(o) PROVE [server |-> n, remote |-> o[j], wire |-> Wire[<<n, o[j]>>]] \in McpTools
    <3>1. o[j] \in Range(Offers[n])
      BY <2>1, <2>2 DEF Range
    <3>2. o[j] \in Remotes
      BY <3>1 DEF Remotes
    <3>3. Wire[<<n, o[j]>>] \in {Wire[p] : p \in Names \X Remotes}
      <4>1. <<n, o[j]>> \in Names \X Remotes
        BY <3>2
      <4>2. QED
        BY <4>1
    <3>4. QED
      BY <3>2, <3>3 DEF McpTools
  <2>4. [j \in 1..Len(o) |-> [server |-> n, remote |-> o[j], wire |-> Wire[<<n, o[j]>>]]] \in Seq(McpTools)
    BY <2>2, <2>3
  <2>5. Offered(n) = [j \in 1..Len(o) |-> [server |-> n, remote |-> o[j], wire |-> Wire[<<n, o[j]>>]]]
    BY <1>1, <2>1, <2>2 DEF Offered
  <2>6. QED
    BY <2>4, <2>5
<1>2. CASE ~(st[n] = "Connected" /\ phase[n] = "up")
  <2>1. Offered(n) = <<>>
    BY <1>2 DEF Offered
  <2>2. QED
    BY <2>1
<1>3. QED
  BY <1>1, <1>2

LEMMA ListedTyped == Listed \in Seq(McpTools)
<1>1. PICK ns \in Seq(Names) : ns = SetToSeq(Names)
  BY NamesListed
<1>2. PICK L \in Nat : L = Len(ns)
  OBVIOUS
<1> DEFINE T == Seq(McpTools)
           F == [p \in (1..L) \X T |-> p[2] \o Offered(ns[p[1]])]
           Rec(h) == h = [i \in 0..L |-> IF i = 0 THEN <<>> ELSE h[i - 1] \o Offered(ns[i])]
<1>3. \A i \in 1..L : ns[i] \in Names
  BY <1>2, ElementOfSeq
<1>4. ASSUME NEW i \in 1..L, NEW p \in T PROVE p \o Offered(ns[i]) \in T
  <2>1. PICK o \in T : o = Offered(ns[i])
    BY <1>3, OfferedTyped
  <2>2. QED
    BY <2>1, ConcatProperties
<1>5. F \in [(1..L) \X T -> T] /\ <<>> \in T
  BY <1>4
<1>6. \A i \in 1..L, p \in T : F[<<i, p>>] = p \o Offered(ns[i])
  OBVIOUS
<1> HIDE DEF F, T
<1>7. PICK g : Iterates(g, L, T, <<>>, F)
  BY <1>2, <1>5, Recursion, Zenon
<1>8. g \in [0..L -> T] /\ g[0] = <<>> /\ \A i \in 1..L : g[i] = F[<<i, g[i - 1]>>]
  BY <1>7 DEF Iterates
<1>9. Rec(g)
  <2>1. ASSUME NEW i \in 0..L PROVE g[i] = IF i = 0 THEN <<>> ELSE g[i - 1] \o Offered(ns[i])
    <3>1. CASE i = 0
      BY <1>8, <3>1
    <3>2. CASE i # 0
      <4>1. i \in 1..L /\ g[i - 1] \in T
        BY <1>8, <3>2
      <4>2. QED
        BY <1>6, <1>8, <3>2, <4>1
    <3>3. QED
      BY <3>1, <3>2
  <2>2. QED
    BY <1>8, <2>1
<1> DEFINE h == CHOOSE f : Rec(f)
<1>10. Rec(h)
  BY <1>9
<1>11. Listed = h[L]
  BY <1>1, <1>2 DEF Listed, Offered
<1> HIDE DEF h
<1>12. h[0] = <<>> /\ \A i \in 1..L : h[i] = h[i - 1] \o Offered(ns[i])
  <2>1. \A i \in 1..L : i - 1 \in 0..L /\ i \in 0..L /\ i # 0
    OBVIOUS
  <2>2. QED
    BY <1>10, <2>1
<1> DEFINE Typed == {i \in 0..L : h[i] \in T}
<1>13. 0 \in Typed
  BY <1>5, <1>12
<1>14. ASSUME NEW i \in 1..L, i - 1 \in Typed PROVE i \in Typed
  <2>1. h[i - 1] \in T /\ i \in 0..L
    BY <1>14
  <2>2. QED
    BY <1>4, <1>12, <2>1
<1>15. 0..L \subseteq Typed
  <2> HIDE DEF Typed
  <2>1. QED
    BY <1>13, <1>14, Climb
<1>16. L \in 0..L
  OBVIOUS
<1>17. QED
  BY <1>11, <1>15, <1>16 DEF T

\* One tool more is kept if its wire name is not taken.
WithTool(kept, t) == IF \E k \in Range(kept) : k.wire = t.wire THEN kept ELSE Append(kept, t)

LEMMA WithToolUnique ==
  ASSUME NEW q \in Seq(McpTools), OneEach(q), NEW t \in McpTools
  PROVE  WithTool(q, t) \in Seq(McpTools) /\ OneEach(WithTool(q, t))
<1>1. CASE \E k \in Range(q) : k.wire = t.wire
  BY <1>1 DEF WithTool
<1>2. CASE ~(\E k \in Range(q) : k.wire = t.wire)
  <2>1. PICK r \in Seq(McpTools) : r = Append(q, t)
    BY AppendProperties
  <2>2. PICK L \in Nat : L = Len(q)
    OBVIOUS
  <2>3. Len(r) = L + 1 /\ (\A i \in 1..L : r[i] = q[i]) /\ r[L + 1] = t
    BY <2>1, <2>2, AppendProperties
  <2>4. \A i \in 1..L : q[i].wire # t.wire
    <3>1. \A i \in 1..L : q[i] \in Range(q)
      BY <2>2 DEF Range
    <3>2. QED
      BY <1>2, <3>1
  <2>5. ASSUME NEW i \in 1..(L + 1), NEW j \in 1..(L + 1), r[i].wire = r[j].wire PROVE i = j
    <3>1. (i \in 1..L \/ i = L + 1) /\ (j \in 1..L \/ j = L + 1)
      OBVIOUS
    <3>2. QED
      BY <2>2, <2>3, <2>4, <2>5, <3>1 DEF OneEach
  <2>6. QED
    BY <1>2, <2>1, <2>3, <2>5 DEF WithTool, OneEach
<1>3. QED
  BY <1>1, <1>2

LEMMA RegisteredUnique ==
  ASSUME NEW l \in Seq(McpTools)
  PROVE  registered(l) \in Seq(McpTools) /\ OneEach(registered(l))
<1>1. PICK L \in Nat : L = Len(l)
  OBVIOUS
<1> DEFINE T == {q \in Seq(McpTools) : OneEach(q)}
           F == [p \in (1..L) \X T |-> WithTool(p[2], l[p[1]])]
           Rec(h) == h = [i \in 0..L |-> IF i = 0 THEN <<>> ELSE WithTool(h[i - 1], l[i])]
<1>2. \A i \in 1..L : l[i] \in McpTools
  BY <1>1, ElementOfSeq
<1>3. ASSUME NEW i \in 1..L, NEW p \in T PROVE WithTool(p, l[i]) \in T
  BY <1>2, WithToolUnique
<1>4. F \in [(1..L) \X T -> T] /\ <<>> \in T
  <2>1. <<>> \in T
    BY DEF OneEach
  <2>2. QED
    BY <1>3, <2>1
<1>5. \A i \in 1..L, p \in T : F[<<i, p>>] = WithTool(p, l[i])
  OBVIOUS
<1> HIDE DEF F, T
<1>6. PICK g : Iterates(g, L, T, <<>>, F)
  BY <1>1, <1>4, Recursion, Zenon
<1>7. g \in [0..L -> T] /\ g[0] = <<>> /\ \A i \in 1..L : g[i] = F[<<i, g[i - 1]>>]
  BY <1>6 DEF Iterates
<1>8. Rec(g)
  <2>1. ASSUME NEW i \in 0..L PROVE g[i] = IF i = 0 THEN <<>> ELSE WithTool(g[i - 1], l[i])
    <3>1. CASE i = 0
      BY <1>7, <3>1
    <3>2. CASE i # 0
      <4>1. i \in 1..L /\ g[i - 1] \in T
        BY <1>7, <3>2
      <4>2. QED
        BY <1>5, <1>7, <3>2, <4>1
    <3>3. QED
      BY <3>1, <3>2
  <2>2. QED
    BY <1>7, <2>1
<1> DEFINE h == CHOOSE f : Rec(f)
<1>9. Rec(h)
  BY <1>8
<1>10. registered(l) = h[L]
  BY <1>1 DEF registered, WithTool
<1> HIDE DEF h
<1>11. h[0] = <<>> /\ \A i \in 1..L : h[i] = WithTool(h[i - 1], l[i])
  <2>1. \A i \in 1..L : i - 1 \in 0..L /\ i \in 0..L /\ i # 0
    OBVIOUS
  <2>2. QED
    BY <1>9, <2>1
<1> DEFINE Typed == {i \in 0..L : h[i] \in T}
<1>12. 0 \in Typed
  BY <1>4, <1>11
<1>13. ASSUME NEW i \in 1..L, i - 1 \in Typed PROVE i \in Typed
  <2>1. h[i - 1] \in T /\ i \in 0..L
    BY <1>13
  <2>2. QED
    BY <1>3, <1>11, <2>1
<1>14. 0..L \subseteq Typed
  <2> HIDE DEF Typed
  <2>1. QED
    BY <1>12, <1>13, Climb
<1>15. L \in 0..L
  OBVIOUS
<1>16. QED
  BY <1>10, <1>14, <1>15 DEF T

\* A server can be sent a request while its peer is stored and it was not seen closed; it is
\* connected then, whatever a failed start, a lost call or a shutdown has done to it.
Routes ==
  /\ closed \in [Names -> BOOLEAN] /\ peer \in [Names -> BOOLEAN]
  /\ tools \in Seq(McpTools) /\ OneEach(tools) /\ inflight \in Names \cup {"none"}
  /\ \A n \in Names : peer[n] => phase[n] = "up"
  /\ \A n \in Names : peer[n] /\ ~closed[n] => st[n] = "Connected"

LEMMA RoutesStart == ASSUME McpInit PROVE Routes
<1>1. tools \in Seq(McpTools) /\ OneEach(tools)
  BY DEF McpInit, OneEach
<1>2. QED
  BY <1>1 DEF McpInit, Routes

LEMMA ServerOfTool == ASSUME Routes, NEW t \in Range(tools) PROVE t.server \in Names
<1>1. PICK i \in DOMAIN tools : t = tools[i]
  BY DEF Range
<1>2. t \in McpTools
  BY <1>1, ElementOfSeq DEF Routes
<1>3. QED
  BY <1>2 DEF McpTools

LEMMA ConnectingRoutes ==
  ASSUME McpInv, Routes, NEW n \in Names,
         \/ SpawnServer(n) \/ ServerForks(n) \/ ServerCrash(n) \/ Started(n) \/ StartFails(n)
         \/ Panics(n) \/ FailureSettled(n)
  PROVE  Routes'
<1>1. UNCHANGED <<closed, tools, inflight>>
  BY DEF SpawnServer, ServerForks, ServerCrash, Started, StartFails, Panics, FailureSettled, handle
<1>2. phase \in [Names -> Phases] /\ st \in [Names -> Shown]
  BY DEF McpInv, McpTypes
<1>3. CASE SpawnServer(n) \/ ServerForks(n) \/ ServerCrash(n) \/ FailureSettled(n)
  <2>1. UNCHANGED <<peer, st>> /\ \A m \in Names : phase[m] = "up" => phase'[m] = "up"
    BY <1>2, <1>3 DEF SpawnServer, ServerForks, ServerCrash, FailureSettled, handle
  <2>2. QED
    BY <1>1, <2>1 DEF Routes
<1>4. CASE Started(n)
  <2>1. st[n] = "Connected"
    BY <1>4 DEF Started, McpInv, McpStages
  <2>2. st' = st /\ peer' = [peer EXCEPT ![n] = TRUE] /\ phase' = [phase EXCEPT ![n] = "up"]
    BY <1>4 DEF Started
  <2>3. QED
    BY <1>1, <1>2, <2>1, <2>2 DEF Routes
<1>5. CASE StartFails(n) \/ Panics(n)
  <2>1. phase[n] \in {"stdio", "http", "spawned"} /\ peer' = peer /\ st' = [st EXCEPT ![n] = "Failed"]
    BY <1>5 DEF StartFails, Panics
  <2>2. ~peer[n]
    BY <2>1 DEF Routes
  <2>3. \A m \in Names : m # n => phase'[m] = phase[m] /\ st'[m] = st[m]
    BY <1>2, <1>5 DEF StartFails, Panics
  <2>4. \A m \in Names : peer'[m] => m # n
    BY <2>1, <2>2
  <2>5. QED
    BY <1>1, <2>1, <2>3, <2>4 DEF Routes
<1>6. QED
  BY <1>3, <1>4, <1>5

LEMMA MarkedClosed == ASSUME McpInv, Routes, NEW n \in Names, MarkClosed(n), UNCHANGED <<peer, phase, tools>>, inflight' \in {inflight, "none"}
                      PROVE  Routes'
<1>1. st \in [Names -> Shown]
  BY DEF McpInv, McpTypes
<1>2. closed' \in [Names -> BOOLEAN] /\ closed'[n]
  BY DEF MarkClosed, Routes
<1>3. \A m \in Names : m # n => closed'[m] = closed[m] /\ st'[m] = st[m]
  BY <1>1 DEF MarkClosed, Routes
<1>4. QED
  BY <1>2, <1>3 DEF Routes

LEMMA RoutesSteps == ASSUME McpInv, Routes, [McpNext]_mcpVars PROVE Routes'
<1>1. CASE UNCHANGED mcpVars
  BY <1>1 DEF mcpVars, Routes, OneEach
<1>2. CASE Collect
  <2>1. UNCHANGED <<closed, peer, tools, inflight>> /\ \A n \in Names : phase[n] = "no"
    BY <1>2 DEF Collect, McpInv, McpStages
  <2>2. \A n \in Names : ~peer'[n]
    BY <2>1 DEF Routes
  <2>3. QED
    BY <2>1, <2>2 DEF Routes
<1>3. CASE Connected
  <2>1. UNCHANGED <<closed, peer, st, phase, inflight>> /\ tools' = registered(Listed)
    BY <1>3 DEF Connected, handle
  <2>2. PICK l \in Seq(McpTools) : l = Listed
    BY ListedTyped
  <2>3. tools' \in Seq(McpTools) /\ OneEach(tools')
    BY <2>1, <2>2, RegisteredUnique
  <2>4. QED
    BY <2>1, <2>3 DEF Routes
<1>4. CASE MainStops \/ Signal \/ MainReturns \/ SignalExits \/ Killed
  BY <1>4 DEF MainStops, Signal, MainReturns, SignalExits, Killed, handle, Routes
<1>5. CASE CallAnswered
  BY <1>5 DEF CallAnswered, handle, Routes
<1>6. CASE CallLost
  <2>1. inflight \in Names
    BY <1>6 DEF CallLost, Routes
  <2>2. QED
    BY <1>6, <2>1, MarkedClosed DEF CallLost
<1>7. CASE \E n \in Names : \/ SpawnServer(n) \/ ServerForks(n) \/ ServerCrash(n) \/ Started(n) \/ StartFails(n)
                            \/ Panics(n) \/ FailureSettled(n)
  BY <1>7, ConnectingRoutes
<1>8. ASSUME NEW t \in Range(tools), CallRefused(t) PROVE Routes'
  <2>1. t.server \in Names
    BY ServerOfTool
  <2>2. QED
    BY <1>8, <2>1, MarkedClosed DEF CallRefused
<1>9. ASSUME NEW t \in Range(tools), CallSend(t) PROVE Routes'
  <2>1. t.server \in Names
    BY ServerOfTool
  <2>2. inflight' = t.server /\ UNCHANGED <<closed, peer, st, phase, tools>>
    BY <1>9 DEF CallSend, handle
  <2>3. QED
    BY <2>1, <2>2 DEF Routes
<1>10. ASSUME NEW w \in Who, NEW n \in Names, ShutClose(w, n) PROVE Routes'
  <2>1. peer' = [peer EXCEPT ![n] = FALSE] /\ closed' = [closed EXCEPT ![n] = TRUE] /\ UNCHANGED <<phase, st, tools, inflight>>
    BY <1>10 DEF ShutClose
  <2>2. QED
    BY <2>1 DEF Routes
<1>11. ASSUME NEW w \in Who, NEW n \in Names, ShutCancel(w, n) \/ ShutTake(w, n) \/ ShutKill(w, n) PROVE Routes'
  BY <1>11 DEF ShutCancel, ShutTake, ShutKill, Routes
<1>12. QED
  BY <1>1, <1>2, <1>3, <1>4, <1>5, <1>6, <1>7, <1>8, <1>9, <1>10, <1>11 DEF McpNext

\* Only a call is sent, and only to a server it finds a peer of.
LEMMA SentToConnected ==
  ASSUME McpInv, Routes, [McpNext]_mcpVars, inflight' # inflight, inflight' # "none" PROVE st[inflight'] = "Connected"
<1>1. PICK t \in Range(tools) : CallSend(t)
  BY DEF McpNext, mcpVars, Collect, Connected, MainStops, Signal, MainReturns, SignalExits, Killed, CallAnswered, CallLost,
     SpawnServer, ServerForks, ServerCrash, Started, StartFails, Panics, FailureSettled, CallRefused, ShutClose, ShutCancel,
     ShutTake, ShutKill
<1>2. t.server \in Names /\ inflight' = t.server /\ ~closed[t.server] /\ peer[t.server]
  BY <1>1, ServerOfTool DEF CallSend, HasPeer
<1>3. QED
  BY <1>2 DEF Routes

\* A wire name the model calls leads to one tool of one server, and a server whose connection was seen
\* closed, by a lost call, a failed start or either shutdown, is not sent another request (registration
\* in McpHub::connect, mark_closed), for any number of servers, any tools and any way of naming them.
THEOREM CallsReachOneServerAlways == McpSpec => CallsReachOneServer
<1> DEFINE Reach == /\ \A t, u \in Range(tools') : t.wire = u.wire => t = u
                    /\ inflight' # inflight /\ inflight' # "none" => st[inflight'] = "Connected"
<1>1. ASSUME McpInv, Routes, [McpNext]_mcpVars PROVE Reach
  <2>1. PICK q \in Seq(McpTools) : q = tools' /\ OneEach(q)
    BY <1>1, RoutesSteps DEF Routes
  <2>2. ASSUME NEW t \in Range(q), NEW u \in Range(q), t.wire = u.wire PROVE t = u
    <3>1. PICK i \in 1..Len(q), j \in 1..Len(q) : t = q[i] /\ u = q[j]
      BY DEF Range
    <3>2. QED
      BY <2>1, <2>2, <3>1 DEF OneEach
  <2>3. QED
    BY <1>1, <2>1, <2>2, SentToConnected
<1>2. McpInit => McpInv /\ Routes
  BY McpStarts, RoutesStart
<1>3. McpInv /\ Routes /\ [McpNext]_mcpVars => (McpInv /\ Routes)'
  BY McpSteps, RoutesSteps
<1>4. McpInv /\ Routes /\ [McpNext]_mcpVars => [Reach]_mcpVars
  BY <1>1
<1>5. QED
  BY <1>2, <1>3, <1>4, PTL DEF McpSpec, CallsReachOneServer

-----------------------------------------------------------------------------
(* The file tools.  The journal, in memory and as a restart would read it, *)
(* names real mutations in their order; between a call's check and its     *)
(* write the file is what the check saw.                                   *)

WsRecs == [path : Files, prior : Text \cup {Absent}, turn : Nat, cas : BOOLEAN]
WsChanges == [path : Files, prior : FileContents, turn : Nat, logged : BOOLEAN]
WsLines == {Garbled} \cup {TurnEntry(t) : t \in Nat} \cup {ChangeEntry(r) : r \in WsRecs}
Reading == [records : Seq(WsRecs), turn : Nat, over : BOOLEAN]
Unopened == [records |-> <<>>, turn |-> 0, over |-> FALSE]

\* What a line adds to what was read before it.
LEMMA ReadsLine ==
  ASSUME NEW p \in Reading
  PROVE  /\ ReadLine(p, Garbled) = [records |-> p.records, turn |-> p.turn, over |-> TRUE]
         /\ \A l \in WsLines : p.over => ReadLine(p, l) = [records |-> p.records, turn |-> p.turn, over |-> TRUE]
         /\ \A t \in Nat : ~p.over => ReadLine(p, TurnEntry(t)) = [records |-> p.records, turn |-> t, over |-> FALSE]
         /\ \A r \in WsRecs : ~p.over => ReadLine(p, ChangeEntry(r)) =
              [records |-> IF r.prior # Absent /\ ~r.cas THEN p.records ELSE Append(p.records, r),
               turn |-> IF r.turn > p.turn THEN r.turn ELSE p.turn, over |-> FALSE]
<1>1. ReadLine(p, Garbled) = [records |-> p.records, turn |-> p.turn, over |-> TRUE]
  <2>1. ASSUME NEW l, l = Garbled PROVE ReadLine(p, l) = [records |-> p.records, turn |-> p.turn, over |-> TRUE]
    <3>1. l.kind # "turn"
      BY <2>1 DEF Garbled
    <3>2. QED
      BY <2>1, <3>1 DEF ReadLine
  <2>2. QED
    BY <2>1
<1>2. ASSUME NEW l \in WsLines, p.over PROVE ReadLine(p, l) = [records |-> p.records, turn |-> p.turn, over |-> TRUE]
  BY <1>2 DEF ReadLine
<1>3. ASSUME NEW t \in Nat, ~p.over PROVE ReadLine(p, TurnEntry(t)) = [records |-> p.records, turn |-> t, over |-> FALSE]
  <2>1. TurnEntry(t) # Garbled /\ TurnEntry(t).kind = "turn" /\ TurnEntry(t).turn = t
    BY DEF TurnEntry, Garbled
  <2>2. QED
    BY <1>3, <2>1 DEF ReadLine
<1>4. ASSUME NEW r \in WsRecs, ~p.over
      PROVE  ReadLine(p, ChangeEntry(r)) =
              [records |-> IF r.prior # Absent /\ ~r.cas THEN p.records ELSE Append(p.records, r),
               turn |-> IF r.turn > p.turn THEN r.turn ELSE p.turn, over |-> FALSE]
  <2>1. ChangeEntry(r) # Garbled /\ ChangeEntry(r).kind = "change" /\ ChangeEntry(r).rec = r
    BY DEF ChangeEntry, Garbled
  <2>2. QED
    BY <1>4, <2>1 DEF ReadLine
<1>5. QED
  BY <1>1, <1>2, <1>3, <1>4

LEMMA MakesReading ==
  ASSUME NEW a \in Seq(WsRecs), NEW b \in Nat, NEW c \in BOOLEAN
  PROVE  [records |-> a, turn |-> b, over |-> c] \in Reading
  BY DEF Reading

LEMMA ReadTyped ==
  ASSUME NEW p \in Reading, NEW l \in WsLines
  PROVE  ReadLine(p, l) \in Reading
<1>0. p.records \in Seq(WsRecs) /\ p.turn \in Nat /\ p.over \in BOOLEAN
  BY DEF Reading
<1>1. CASE p.over \/ l = Garbled
  <2>1. ReadLine(p, l) = [records |-> p.records, turn |-> p.turn, over |-> TRUE]
    BY <1>1, ReadsLine, Zenon
  <2>2. QED
    BY <1>0, <2>1, MakesReading
<1>2. ASSUME ~p.over, NEW t \in Nat, l = TurnEntry(t) PROVE ReadLine(p, l) \in Reading
  <2>1. ReadLine(p, l) = [records |-> p.records, turn |-> t, over |-> FALSE]
    BY <1>2, ReadsLine, Zenon
  <2>2. QED
    BY <1>0, <2>1, MakesReading
<1>3. ASSUME ~p.over, NEW r \in WsRecs, l = ChangeEntry(r) PROVE ReadLine(p, l) \in Reading
  <2>1. Append(p.records, r) \in Seq(WsRecs) /\ r.turn \in Nat
    BY <1>0, Appended DEF WsRecs
  <2>2. PICK a \in Seq(WsRecs) : a = IF r.prior # Absent /\ ~r.cas THEN p.records ELSE Append(p.records, r)
    BY <1>0, <2>1
  <2>3. PICK b \in Nat : b = IF r.turn > p.turn THEN r.turn ELSE p.turn
    BY <1>0, <2>1
  <2>4. ReadLine(p, l) = [records |-> a, turn |-> b, over |-> FALSE]
    BY <1>3, <2>2, <2>3, ReadsLine, Zenon
  <2>5. QED
    BY <2>4, MakesReading
<1>4. QED
  BY <1>0, <1>1, <1>2, <1>3 DEF WsLines

\* Rereading is a run over the lines.
LEMMA Rereads ==
  ASSUME NEW lines \in Seq(WsLines)
  PROVE  \E h \in [0..Len(lines) -> Reading] :
           /\ h[0] = Unopened
           /\ \A n \in 1..Len(lines) : h[n] = ReadLine(h[n - 1], lines[n])
           /\ Reread(lines) = h[Len(lines)]
<1> DEFINE L == Len(lines)
           F == [p \in (1..L) \X Reading |-> ReadLine(p[2], lines[p[1]])]
           Rec(h) == h = [n \in 0..L |-> IF n = 0 THEN Unopened ELSE ReadLine(h[n - 1], lines[n])]
<1>1. L \in Nat
  OBVIOUS
<1>2. Unopened \in Reading
  BY DEF Unopened, Reading
<1>3. \A n \in 1..L, p \in Reading : ReadLine(p, lines[n]) \in Reading
  BY ReadTyped, ElementOfSeq
<1>4. F \in [(1..L) \X Reading -> Reading]
  BY <1>3
<1>5. \A n \in 1..L, p \in Reading : F[<<n, p>>] = ReadLine(p, lines[n])
  OBVIOUS
<1> HIDE DEF F
<1>6. PICK g : Iterates(g, L, Reading, Unopened, F)
  BY <1>1, <1>2, <1>4, Recursion, Zenon
<1>7. g \in [0..L -> Reading] /\ g[0] = Unopened /\ \A n \in 1..L : g[n] = F[<<n, g[n - 1]>>]
  BY <1>6 DEF Iterates
<1>8. Rec(g)
  <2>1. ASSUME NEW n \in 0..L PROVE g[n] = IF n = 0 THEN Unopened ELSE ReadLine(g[n - 1], lines[n])
    <3>1. CASE n = 0
      BY <1>7, <3>1
    <3>2. CASE n # 0
      <4>1. n \in 1..L /\ g[n - 1] \in Reading
        BY <1>1, <1>7, <3>2
      <4>2. QED
        BY <1>5, <1>7, <3>2, <4>1
    <3>3. QED
      BY <3>1, <3>2
  <2>2. QED
    BY <1>7, <2>1
<1> DEFINE h == CHOOSE f : Rec(f)
<1>9. Rec(h)
  BY <1>8
<1>10. Reread(lines) = h[L]
  BY DEF Reread, Unopened
<1> HIDE DEF h
<1>11. DOMAIN h = 0..L /\ h[0] = Unopened /\ \A n \in 1..L : h[n] = ReadLine(h[n - 1], lines[n])
  <2>1. \A n \in 1..L : n - 1 \in 0..L /\ n \in 0..L /\ n # 0
    BY <1>1
  <2>2. QED
    BY <1>1, <1>9, <2>1
<1> DEFINE Typed == {n \in 0..L : h[n] \in Reading}
<1>12. 0 \in Typed
  BY <1>1, <1>2, <1>11
<1>13. ASSUME NEW n \in 1..L, n - 1 \in Typed PROVE n \in Typed
  <2>1. h[n - 1] \in Reading /\ n \in 0..L
    BY <1>1, <1>13
  <2>2. QED
    BY <1>3, <1>11, <2>1
<1>14. 0..L \subseteq Typed
  <2> HIDE DEF Typed
  <2>1. QED
    BY <1>1, <1>12, <1>13, Climb
<1>15. h \in [0..L -> Reading]
  BY <1>9, <1>14
<1>16. QED
  BY <1>10, <1>11, <1>15

\* One line more is read after the others.
LEMMA RereadNext ==
  ASSUME NEW lines \in Seq(WsLines), NEW l \in WsLines
  PROVE  /\ Reread(lines) \in Reading
         /\ Reread(Append(lines, l)) = ReadLine(Reread(lines), l)
<1> DEFINE L == Len(lines)
<1>1. PICK h \in [0..L -> Reading] : h[0] = Unopened /\ (\A n \in 1..L : h[n] = ReadLine(h[n - 1], lines[n])) /\ Reread(lines) = h[L]
  BY Rereads
<1>2. PICK more \in Seq(WsLines) : more = Append(lines, l)
  BY Appended
<1>3. L \in Nat /\ Len(more) = L + 1 /\ (\A i \in 1..L : more[i] = lines[i]) /\ more[L + 1] = l
  BY <1>2, Appended
<1>4. PICK g \in [0..(L + 1) -> Reading] : /\ g[0] = Unopened
                                           /\ (\A n \in 1..(L + 1) : g[n] = ReadLine(g[n - 1], more[n]))
                                           /\ Reread(more) = g[L + 1]
  BY <1>3, Rereads
<1> HIDE DEF L
<1> DEFINE Same == {n \in 0..L : g[n] = h[n]}
<1>5. 0 \in Same
  BY <1>1, <1>3, <1>4
<1>6. ASSUME NEW n \in 1..L, n - 1 \in Same PROVE n \in Same
  <2>1. n \in 1..(L + 1) /\ n \in 0..L /\ g[n - 1] = h[n - 1]
    BY <1>3, <1>6
  <2>2. QED
    BY <1>1, <1>3, <1>4, <2>1
<1>7. 0..L \subseteq Same
  <2> HIDE DEF Same
  <2>1. QED
    BY <1>3, <1>5, <1>6, Climb
<1>8. L \in 0..L /\ L + 1 \in 1..(L + 1) /\ (L + 1) - 1 = L
  BY <1>3
<1>9. g[L] = h[L]
  BY <1>7, <1>8
<1>10. g[L + 1] = ReadLine(g[L], l)
  BY <1>3, <1>4, <1>8
<1>11. QED
  BY <1>1, <1>2, <1>4, <1>8, <1>9, <1>10

LEMMA RereadNone == Reread(<<>>) = Unopened
<1>1. <<>> \in Seq(WsLines) /\ Len(<<>>) = 0
  OBVIOUS
<1>2. PICK h \in [0..0 -> Reading] : h[0] = Unopened /\ Reread(<<>>) = h[0]
  BY <1>1, Rereads
<1>3. QED
  BY <1>2

\* out is what S holds of the first n elements of seq, h where each of it stood.
Picks(h, out, seq, S, n) ==
  /\ h \in [1..Len(out) -> 1..n]
  /\ \A i, j \in 1..Len(out) : i < j => h[i] < h[j]
  /\ \A k \in 1..Len(out) : out[k] = seq[h[k]] /\ seq[h[k]] \in S
  /\ \A i \in 1..n : seq[i] \in S => \E k \in 1..Len(out) : h[k] = i

LEMMA PicksNone == ASSUME NEW seq, NEW S PROVE \E h : Picks(h, <<>>, seq, S, 0)
<1>1. Picks([i \in 1..0 |-> 0], <<>>, seq, S, 0)
  BY DEF Picks
<1>2. QED
  BY <1>1

LEMMA PicksOne ==
  ASSUME NEW T, NEW seq \in Seq(T), NEW S, NEW n \in 1..Len(seq), NEW out \in Seq(T), NEW h,
         Picks(h, out, seq, S, n - 1), seq[n] \in S
  PROVE  \E g : Picks(g, Append(out, seq[n]), seq, S, n)
<1>1. seq[n] \in T /\ Len(seq) \in Nat
  BY ElementOfSeq
<1>2. PICK more \in Seq(T) : more = Append(out, seq[n])
  BY <1>1, Appended
<1>3. /\ Len(more) = Len(out) + 1 /\ Len(out) \in Nat
      /\ \A i \in 1..Len(out) : more[i] = out[i]
      /\ more[Len(out) + 1] = seq[n]
  BY <1>1, <1>2, Appended
<1> DEFINE K == Len(out)
           g == [k \in 1..(K + 1) |-> IF k <= K THEN h[k] ELSE n]
<1>a. \A k \in 1..K : h[k] \in 1..(n - 1)
  BY DEF Picks
<1>b. \A k \in 1..K : k \in 1..(K + 1) /\ k <= K
  BY <1>3
<1>4. \A k \in 1..K : g[k] = h[k] /\ h[k] \in 1..(n - 1) /\ k \in 1..(K + 1)
  BY <1>a, <1>b
<1>5. g[K + 1] = n
  BY <1>3
<1>6. \A k \in 1..(K + 1) : k \in 1..K \/ k = K + 1
  BY <1>3
<1>7. g \in [1..(K + 1) -> 1..n]
  <2>1. n \in 1..n /\ \A i \in 1..(n - 1) : i \in 1..n
    BY <1>1
  <2>2. \A k \in 1..(K + 1) : g[k] \in 1..n
    BY <1>4, <1>5, <1>6, <2>1
  <2>3. QED
    BY <2>2
<1> HIDE DEF g
<1>8. \A i, j \in 1..(K + 1) : i < j => g[i] < g[j]
  <2>1. ASSUME NEW i \in 1..(K + 1), NEW j \in 1..(K + 1), i < j PROVE g[i] < g[j]
    <3>1. i \in 1..K
      BY <1>3, <2>1
    <3>2. CASE j \in 1..K
      BY <1>4, <2>1, <3>1, <3>2 DEF Picks
    <3>3. CASE j = K + 1
      BY <1>4, <1>5, <3>1, <3>3
    <3>4. QED
      BY <1>6, <3>2, <3>3
  <2>2. QED
    BY <2>1
<1>9. \A k \in 1..(K + 1) : more[k] = seq[g[k]] /\ seq[g[k]] \in S
  BY <1>3, <1>4, <1>5, <1>6 DEF Picks
<1>10. ASSUME NEW i \in 1..n, seq[i] \in S PROVE \E k \in 1..(K + 1) : g[k] = i
  <2>1. CASE i = n
    <3>1. K + 1 \in 1..(K + 1)
      BY <1>3
    <3>2. QED
      BY <1>5, <2>1, <3>1
  <2>2. CASE i # n
    <3>1. i \in 1..(n - 1)
      BY <2>2
    <3>2. PICK k \in 1..K : h[k] = i
      BY <1>10, <3>1 DEF Picks
    <3>3. QED
      BY <1>4, <3>2
  <2>3. QED
    BY <2>1, <2>2
<1>11. Picks(g, more, seq, S, n)
  BY <1>3, <1>7, <1>8, <1>9, <1>10 DEF Picks
<1>12. QED
  BY <1>2, <1>11

LEMMA PicksSkip ==
  ASSUME NEW T, NEW seq \in Seq(T), NEW S, NEW n \in 1..Len(seq), NEW out \in Seq(T), NEW h,
         Picks(h, out, seq, S, n - 1), seq[n] \notin S
  PROVE  Picks(h, out, seq, S, n)
<1>1. h \in [1..Len(out) -> 1..n]
  BY DEF Picks
<1>2. ASSUME NEW i \in 1..n, seq[i] \in S PROVE \E k \in 1..Len(out) : h[k] = i
  <2>1. i \in 1..(n - 1)
    BY <1>2
  <2>2. QED
    BY <1>2, <2>1 DEF Picks
<1>3. QED
  BY <1>1, <1>2 DEF Picks

LEMMA ThoseAre ==
  ASSUME NEW T, NEW seq \in Seq(T), NEW S
  PROVE  Those(seq, S) \in Seq(T) /\ \E h : Picks(h, Those(seq, S), seq, S, Len(seq))
<1> DEFINE L == Len(seq)
           F == [p \in (1..L) \X Seq(T) |-> IF seq[p[1]] \in S THEN Append(p[2], seq[p[1]]) ELSE p[2]]
           Rec(h) == h = [n \in 0..L |-> IF n = 0 THEN <<>>
                                         ELSE IF seq[n] \in S THEN Append(h[n - 1], seq[n]) ELSE h[n - 1]]
<1>1. L \in Nat
  OBVIOUS
<1>2. <<>> \in Seq(T)
  OBVIOUS
<1>3. \A n \in 1..L : seq[n] \in T
  BY ElementOfSeq
<1>4. F \in [(1..L) \X Seq(T) -> Seq(T)]
  BY <1>3
<1>5. \A n \in 1..L, o \in Seq(T) : F[<<n, o>>] = IF seq[n] \in S THEN Append(o, seq[n]) ELSE o
  OBVIOUS
<1> HIDE DEF F
<1>6. PICK g : Iterates(g, L, Seq(T), <<>>, F)
  BY <1>1, <1>2, <1>4, Recursion, Zenon
<1>7. g \in [0..L -> Seq(T)] /\ g[0] = <<>> /\ \A n \in 1..L : g[n] = F[<<n, g[n - 1]>>]
  BY <1>6 DEF Iterates
<1>8. Rec(g)
  <2>1. ASSUME NEW n \in 0..L PROVE g[n] = IF n = 0 THEN <<>>
                                           ELSE IF seq[n] \in S THEN Append(g[n - 1], seq[n]) ELSE g[n - 1]
    <3>1. CASE n = 0
      BY <1>7, <3>1
    <3>2. CASE n # 0
      <4>1. n \in 1..L /\ g[n - 1] \in Seq(T)
        BY <1>1, <1>7, <3>2
      <4>2. QED
        BY <1>5, <1>7, <3>2, <4>1
    <3>3. QED
      BY <3>1, <3>2
  <2>2. QED
    BY <1>7, <2>1
<1> DEFINE h == CHOOSE f : Rec(f)
<1>9. Rec(h)
  BY <1>8
<1>10. Those(seq, S) = h[L]
  BY DEF Those
<1> HIDE DEF h
<1>11. h[0] = <<>> /\ \A n \in 1..L : h[n] = IF seq[n] \in S THEN Append(h[n - 1], seq[n]) ELSE h[n - 1]
  <2>1. \A n \in 1..L : n - 1 \in 0..L /\ n \in 0..L /\ n # 0
    BY <1>1
  <2>2. 0 \in 0..L
    BY <1>1
  <2>3. QED
    BY <1>9, <2>1, <2>2
<1> HIDE DEF Rec
<1> DEFINE Good == {n \in 0..L : h[n] \in Seq(T) /\ \E f : Picks(f, h[n], seq, S, n)}
<1>12. 0 \in Good
  <2>1. \E f : Picks(f, <<>>, seq, S, 0)
    BY PicksNone
  <2>2. 0 \in 0..L
    BY <1>1
  <2>3. QED
    BY <1>2, <1>11, <2>1, <2>2
<1>13. ASSUME NEW n \in 1..L, n - 1 \in Good PROVE n \in Good
  <2>1. PICK f : Picks(f, h[n - 1], seq, S, n - 1)
    BY <1>13
  <2>2. PICK o \in Seq(T) : o = h[n - 1]
    BY <1>13
  <2>3. n \in 0..L
    BY <1>1
  <2>4. CASE seq[n] \in S
    <3>1. h[n] = Append(o, seq[n]) /\ Append(o, seq[n]) \in Seq(T)
      <4>1. seq[n] \in T
        BY <1>3
      <4>2. Append(o, seq[n]) \in Seq(T)
        BY <4>1, Appended
      <4>3. QED
        BY <1>11, <2>2, <2>4, <4>2
    <3>2. \E x : Picks(x, Append(o, seq[n]), seq, S, n)
      BY <2>1, <2>2, <2>4, PicksOne
    <3>3. QED
      BY <2>3, <3>1, <3>2
  <2>5. CASE seq[n] \notin S
    <3>1. h[n] = o
      BY <1>11, <2>2, <2>5
    <3>2. Picks(f, o, seq, S, n)
      BY <2>1, <2>2, <2>5, PicksSkip
    <3>3. QED
      BY <2>3, <3>1, <3>2
  <2>6. QED
    BY <2>4, <2>5
<1>14. 0..L \subseteq Good
  <2> HIDE DEF Good
  <2>1. QED
    BY <1>1, <1>12, <1>13, Climb
<1>15. L \in Good
  BY <1>1, <1>14
<1>16. QED
  BY <1>10, <1>15

\* What was picked is no longer than what it was picked from: each index is at least its own position.
LEMMA PicksFewer ==
  ASSUME NEW T, NEW out \in Seq(T), NEW seq, NEW S, NEW n \in Nat, NEW h, Picks(h, out, seq, S, n)
  PROVE  Len(out) <= n
<1> DEFINE K == Len(out)
           Good == {k \in 0..K : k = 0 \/ k <= h[k]}
<1>1. K \in Nat /\ \A k \in 1..K : h[k] \in 1..n
  BY DEF Picks
<1>2. 0 \in Good
  BY <1>1
<1>3. ASSUME NEW k \in 1..K, k - 1 \in Good PROVE k \in Good
  <2>1. CASE k = 1
    BY <1>1, <2>1
  <2>2. CASE k # 1
    <3>1. k - 1 \in 1..K /\ k - 1 < k /\ k - 1 <= h[k - 1]
      BY <1>1, <1>3, <2>2
    <3>2. h[k - 1] < h[k]
      BY <3>1 DEF Picks
    <3>3. h[k] \in Nat /\ h[k - 1] \in Nat
      BY <1>1, <3>1
    <3>4. QED
      BY <1>1, <3>1, <3>2, <3>3
  <2>3. QED
    BY <2>1, <2>2
<1>4. 0..K \subseteq Good
  <2> HIDE DEF Good, K
  <2>1. QED
    BY <1>1, <1>2, <1>3, Climb
<1>5. K \in Good
  BY <1>1, <1>4
<1>6. QED
  BY <1>1, <1>5

\* A record tells of a mutation; rs tells, in order, of mutations among the first m of cs.
TellsOf(r, c) ==
  r.path = c.path /\ r.turn = c.turn /\ r.prior = IF c.prior = Raw THEN Absent ELSE c.prior
Tells(e, rs, cs, m) ==
  /\ e \in [1..Len(rs) -> 1..m]
  /\ \A i, j \in 1..Len(rs) : i < j => e[i] < e[j]
  /\ \A i \in 1..Len(rs) : TellsOf(rs[i], cs[e[i]])
Told(rs, cs, m) == \E e : Tells(e, rs, cs, m)
InTurns(rs, t) ==
  /\ \A i, j \in 1..Len(rs) : i < j => rs[i].turn <= rs[j].turn
  /\ \A i \in 1..Len(rs) : rs[i].turn <= t

LEMMA ToldNone == ASSUME NEW cs, NEW m PROVE Told(<<>>, cs, m) /\ \A t : InTurns(<<>>, t)
<1>1. Tells([i \in 1..0 |-> 0], <<>>, cs, m)
  BY DEF Tells
<1>2. QED
  BY <1>1 DEF Told, InTurns

\* The mutations may be more, if those told of say the same.
LEMMA ToldMore ==
  ASSUME NEW rs \in Seq(WsRecs), NEW cs, NEW ds, NEW m \in Nat, NEW k \in Nat, m <= k, Told(rs, cs, m),
         \A i \in 1..m : ds[i].path = cs[i].path /\ ds[i].turn = cs[i].turn /\ ds[i].prior = cs[i].prior
  PROVE  Told(rs, ds, k)
<1>1. PICK e : Tells(e, rs, cs, m)
  BY DEF Told
<1>2. e \in [1..Len(rs) -> 1..k] /\ \A i \in 1..Len(rs) : e[i] \in 1..m
  BY <1>1 DEF Tells
<1>3. \A i \in 1..Len(rs) : TellsOf(rs[i], ds[e[i]])
  BY <1>1, <1>2 DEF Tells, TellsOf
<1>4. Tells(e, rs, ds, k)
  BY <1>1, <1>2, <1>3 DEF Tells
<1>5. QED
  BY <1>4 DEF Told

LEMMA ToldOne ==
  ASSUME NEW rs \in Seq(WsRecs), NEW r \in WsRecs, NEW cs, NEW m \in Nat, Told(rs, cs, m), TellsOf(r, cs[m + 1])
  PROVE  Told(Append(rs, r), cs, m + 1)
<1>1. PICK e : Tells(e, rs, cs, m)
  BY DEF Told
<1>2. PICK more \in Seq(WsRecs) : more = Append(rs, r)
  BY Appended
<1>3. Len(more) = Len(rs) + 1 /\ Len(rs) \in Nat /\ (\A i \in 1..Len(rs) : more[i] = rs[i]) /\ more[Len(rs) + 1] = r
  BY <1>2, Appended
<1> DEFINE K == Len(rs)
           g == [k \in 1..(K + 1) |-> IF k <= K THEN e[k] ELSE m + 1]
<1>4. \A k \in 1..K : g[k] = e[k] /\ e[k] \in 1..m /\ k \in 1..(K + 1)
  BY <1>1, <1>3 DEF Tells
<1>5. g[K + 1] = m + 1
  BY <1>3
<1>6. \A k \in 1..(K + 1) : k \in 1..K \/ k = K + 1
  BY <1>3
<1>7. g \in [1..(K + 1) -> 1..(m + 1)]
  BY <1>3, <1>4, <1>5, <1>6, SMTT(60)
<1> HIDE DEF g
<1>8. ASSUME NEW i \in 1..(K + 1), NEW j \in 1..(K + 1), i < j PROVE g[i] < g[j]
  <2>1. i \in 1..K
    BY <1>3, <1>8
  <2>2. CASE j \in 1..K
    BY <1>1, <1>4, <1>8, <2>1, <2>2 DEF Tells
  <2>3. CASE j = K + 1
    BY <1>4, <1>5, <2>1, <2>3
  <2>4. QED
    BY <1>6, <2>2, <2>3
<1>9. \A k \in 1..(K + 1) : TellsOf(more[k], cs[g[k]])
  <2>1. \A k \in 1..K : TellsOf(more[k], cs[g[k]])
    BY <1>1, <1>3, <1>4 DEF Tells
  <2>2. TellsOf(more[K + 1], cs[g[K + 1]])
    BY <1>3, <1>5
  <2>3. QED
    BY <1>6, <2>1, <2>2
<1>10. Tells(g, more, cs, m + 1)
  BY <1>3, <1>7, <1>8, <1>9 DEF Tells
<1>11. QED
  BY <1>2, <1>10 DEF Told

LEMMA InTurnsOne ==
  ASSUME NEW rs \in Seq(WsRecs), NEW r \in WsRecs, NEW t \in Nat, NEW u \in Nat, InTurns(rs, t), t <= r.turn, r.turn <= u
  PROVE  InTurns(Append(rs, r), u)
<1>1. PICK more \in Seq(WsRecs) : more = Append(rs, r)
  BY Appended
<1>2. Len(more) = Len(rs) + 1 /\ Len(rs) \in Nat /\ (\A i \in 1..Len(rs) : more[i] = rs[i]) /\ more[Len(rs) + 1] = r
  BY <1>1, Appended
<1>3. r.turn \in Nat /\ \A i \in 1..Len(rs) : rs[i].turn \in Nat
  <2>1. \A x \in WsRecs : x.turn \in Nat
    BY DEF WsRecs
  <2>2. \A i \in 1..Len(rs) : rs[i] \in WsRecs
    BY ElementOfSeq
  <2>3. QED
    BY <2>1, <2>2
<1>4. \A k \in 1..(Len(rs) + 1) : k \in 1..Len(rs) \/ k = Len(rs) + 1
  BY <1>2
<1>5. ASSUME NEW i \in 1..Len(more) PROVE more[i].turn <= u
  <2>1. CASE i \in 1..Len(rs)
    BY <1>2, <1>3, <2>1 DEF InTurns
  <2>2. CASE i = Len(rs) + 1
    BY <1>2, <2>2
  <2>3. QED
    BY <1>2, <1>4, <2>1, <2>2
<1>6. ASSUME NEW i \in 1..Len(more), NEW j \in 1..Len(more), i < j PROVE more[i].turn <= more[j].turn
  <2>1. i \in 1..Len(rs)
    BY <1>2, <1>6
  <2>2. CASE j \in 1..Len(rs)
    BY <1>2, <1>6, <2>1, <2>2 DEF InTurns
  <2>3. CASE j = Len(rs) + 1
    BY <1>2, <1>3, <2>1, <2>3 DEF InTurns
  <2>4. QED
    BY <1>2, <1>4, <2>2, <2>3
<1>7. QED
  BY <1>1, <1>5, <1>6 DEF InTurns

\* What was picked of the records still tells.
LEMMA ToldPicked ==
  ASSUME NEW rs \in Seq(WsRecs), NEW out \in Seq(WsRecs), NEW S, NEW h, Picks(h, out, rs, S, Len(rs)),
         NEW cs, NEW m \in Nat, Told(rs, cs, m), NEW t, InTurns(rs, t)
  PROVE  Told(out, cs, m) /\ InTurns(out, t)
<1>1. PICK e : Tells(e, rs, cs, m)
  BY DEF Told
<1> DEFINE g == [k \in 1..Len(out) |-> e[h[k]]]
<1>2. \A k \in 1..Len(out) : h[k] \in 1..Len(rs) /\ out[k] = rs[h[k]] /\ e[h[k]] \in 1..m
  BY <1>1 DEF Picks, Tells
<1>3. g \in [1..Len(out) -> 1..m] /\ \A k \in 1..Len(out) : g[k] = e[h[k]]
  BY <1>2
<1> HIDE DEF g
<1>4. \A i, j \in 1..Len(out) : i < j => h[i] < h[j]
  BY DEF Picks
<1>5. \A i, j \in 1..Len(out) : i < j => g[i] < g[j]
  BY <1>1, <1>2, <1>3, <1>4 DEF Tells
<1>6. \A i \in 1..Len(out) : TellsOf(out[i], cs[g[i]])
  BY <1>1, <1>2, <1>3 DEF Tells
<1>7. Tells(g, out, cs, m)
  BY <1>3, <1>5, <1>6 DEF Tells
<1>8. InTurns(out, t)
  BY <1>2, <1>4 DEF InTurns
<1>9. QED
  BY <1>7, <1>8 DEF Told

\* What is kept of the records tells of what is kept of the mutations.
LEMMA ToldKept ==
  ASSUME NEW rs \in Seq(WsRecs), NEW ro \in Seq(WsRecs), NEW R, NEW hr, Picks(hr, ro, rs, R, Len(rs)),
         NEW cs \in Seq(WsChanges), NEW co \in Seq(WsChanges), NEW C, NEW hc, Picks(hc, co, cs, C, Len(cs)),
         Told(rs, cs, Len(cs)),
         \A i \in 1..Len(rs), j \in 1..Len(cs) : rs[i] \in R /\ rs[i].turn = cs[j].turn => cs[j] \in C
  PROVE  Told(ro, co, Len(co))
<1>1. PICK e : Tells(e, rs, cs, Len(cs))
  BY DEF Told
<1>2. \A k \in 1..Len(ro) : /\ hr[k] \in 1..Len(rs) /\ ro[k] = rs[hr[k]] /\ rs[hr[k]] \in R
                            /\ e[hr[k]] \in 1..Len(cs) /\ TellsOf(rs[hr[k]], cs[e[hr[k]]])
  BY <1>1 DEF Picks, Tells
<1>3. \A k \in 1..Len(ro) : cs[e[hr[k]]] \in C
  BY <1>2 DEF TellsOf
<1>4. \A k \in 1..Len(ro) : \E j \in 1..Len(co) : hc[j] = e[hr[k]]
  BY <1>2, <1>3 DEF Picks
<1> DEFINE g == [k \in 1..Len(ro) |-> CHOOSE j \in 1..Len(co) : hc[j] = e[hr[k]]]
<1>5. \A k \in 1..Len(ro) : g[k] \in 1..Len(co) /\ hc[g[k]] = e[hr[k]]
  BY <1>4
<1>6. g \in [1..Len(ro) -> 1..Len(co)]
  BY <1>4
<1> HIDE DEF g
<1>7. ASSUME NEW i \in 1..Len(ro), NEW j \in 1..Len(ro), i < j PROVE g[i] < g[j]
  <2>1. hr[i] < hr[j]
    BY <1>7 DEF Picks
  <2>2. e[hr[i]] < e[hr[j]]
    BY <1>1, <1>2, <2>1 DEF Tells
  <2>3. hc[g[i]] < hc[g[j]] /\ g[i] \in 1..Len(co) /\ g[j] \in 1..Len(co)
    BY <1>5, <2>2
  <2>4. \A a, b \in 1..Len(co) : hc[a] \in Nat /\ hc[b] \in Nat /\ (a < b => hc[a] < hc[b])
    <3>1. hc \in [1..Len(co) -> 1..Len(cs)] /\ \A a, b \in 1..Len(co) : a < b => hc[a] < hc[b]
      BY DEF Picks
    <3>2. \A n \in 1..Len(cs) : n \in Nat
      OBVIOUS
    <3>3. QED
      BY <3>1, <3>2
  <2>5. Len(co) \in Nat
    OBVIOUS
  <2>6. QED
    BY <2>3, <2>4, <2>5, SMTT(60)
<1>8. ASSUME NEW i \in 1..Len(ro) PROVE TellsOf(ro[i], co[g[i]])
  <2>1. co[g[i]] = cs[hc[g[i]]]
    BY <1>5 DEF Picks
  <2>2. QED
    BY <1>2, <1>5, <2>1
<1>9. Tells(g, ro, co, Len(co))
  BY <1>6, <1>7, <1>8 DEF Tells
<1>10. QED
  BY <1>9 DEF Told

\* What a restart reads of the journal that /rewind wrote: the records it can restore.
Saved == {r \in WsRecs : ~(r.prior # Absent /\ ~r.cas)}

LEMMA Rewritten ==
  ASSUME NEW rs \in Seq(WsRecs), NEW t \in Nat, \A i \in 1..Len(rs) : rs[i].turn <= t,
         NEW lines, lines = <<TurnEntry(t)>> \o [i \in DOMAIN rs |-> ChangeEntry(rs[i])]
  PROVE  /\ lines \in Seq(WsLines) /\ Reread(lines) \in Reading
         /\ Reread(lines).turn = t /\ ~Reread(lines).over
         /\ \E h : Picks(h, Reread(lines).records, rs, Saved, Len(rs))
<1> DEFINE K == Len(rs)
<1>1. K \in Nat /\ DOMAIN rs = 1..K /\ \A i \in 1..K : rs[i] \in WsRecs
  BY ElementOfSeq
<1>2. PICK b \in Seq(WsLines) : b = [i \in DOMAIN rs |-> ChangeEntry(rs[i])] /\ Len(b) = K /\ \A i \in 1..K : b[i] = ChangeEntry(rs[i])
  <2>1. \A i \in 1..K : ChangeEntry(rs[i]) \in WsLines
    BY <1>1 DEF WsLines
  <2>2. [i \in 1..K |-> ChangeEntry(rs[i])] \in Seq(WsLines) /\ Len([i \in 1..K |-> ChangeEntry(rs[i])]) = K
    BY <1>1, <2>1
  <2>3. QED
    BY <1>1, <2>2
<1>3. PICK a \in Seq(WsLines) : a = <<TurnEntry(t)>> /\ Len(a) = 1 /\ a[1] = TurnEntry(t)
  <2>1. TurnEntry(t) \in WsLines
    BY DEF WsLines
  <2>2. <<TurnEntry(t)>> \in Seq(WsLines) /\ Len(<<TurnEntry(t)>>) = 1 /\ <<TurnEntry(t)>>[1] = TurnEntry(t)
    BY <2>1
  <2>3. QED
    BY <2>2, Zenon
<1>4. /\ lines \in Seq(WsLines) /\ Len(lines) = 1 + K /\ lines[1] = TurnEntry(t)
      /\ \A i \in 1..K : lines[1 + i] = ChangeEntry(rs[i])
  <2>1. lines = a \o b
    BY <1>2, <1>3
  <2>2. /\ a \o b \in Seq(WsLines) /\ Len(a \o b) = Len(a) + Len(b)
        /\ \A i \in 1..Len(a) : (a \o b)[i] = a[i]
        /\ \A i \in 1..Len(b) : (a \o b)[Len(a) + i] = b[i]
    BY Joined
  <2>3. QED
    BY <1>2, <1>3, <2>1, <2>2
<1> HIDE DEF K
<1>5. PICK g \in [0..(1 + K) -> Reading] :
         /\ g[0] = Unopened /\ (\A n \in 1..(1 + K) : g[n] = ReadLine(g[n - 1], lines[n])) /\ Reread(lines) = g[1 + K]
  BY <1>4, Rereads
<1> DEFINE Good == {n \in 0..K : g[n + 1].turn = t /\ ~g[n + 1].over /\ \E h : Picks(h, g[n + 1].records, rs, Saved, n)}
<1>6. 0 \in Good
  <2>1. g[1] = ReadLine(g[0], TurnEntry(t))
    <3>1. 1 \in 1..(1 + K) /\ 1 - 1 = 0
      BY <1>1 DEF K
    <3>2. QED
      BY <1>4, <1>5, <3>1
  <2>2. g[0] \in Reading /\ ~g[0].over /\ g[0].records = <<>>
    <3>1. 0 \in 0..(1 + K)
      BY <1>1 DEF K
    <3>2. g[0] \in Reading
      BY <1>5, <3>1
    <3>3. QED
      BY <1>5, <3>2 DEF Unopened
  <2>3. g[1] = [records |-> g[0].records, turn |-> t, over |-> FALSE]
    BY <2>1, <2>2, ReadsLine, Zenon
  <2>4. \E h : Picks(h, <<>>, rs, Saved, 0)
    BY PicksNone
  <2>5. 0 \in 0..K /\ 0 + 1 = 1
    BY <1>1 DEF K
  <2>6. g[1].turn = t /\ ~g[1].over /\ g[1].records = <<>>
    BY <2>2, <2>3
  <2>7. QED
    BY <2>4, <2>5, <2>6
<1>7. ASSUME NEW n \in 1..K, n - 1 \in Good PROVE n \in Good
  <2>1. (n - 1) + 1 = n /\ n + 1 \in 1..(1 + K) /\ (n + 1) - 1 = n /\ n \in 0..(1 + K) /\ n \in 0..K /\ 1 + n = n + 1
    BY <1>1 DEF K
  <2>2. PICK p \in Reading : p = g[n]
    BY <1>5, <2>1
  <2>3. p.turn = t /\ ~p.over /\ \E h : Picks(h, p.records, rs, Saved, n - 1)
    BY <1>7, <2>1, <2>2
  <2>4. PICK h : Picks(h, p.records, rs, Saved, n - 1)
    BY <2>3
  <2>5. PICK r \in WsRecs : r = rs[n] /\ r.turn <= t /\ r.turn \in Nat
    BY <1>1 DEF K, WsRecs
  <2>6. g[n + 1] = ReadLine(p, ChangeEntry(r))
    BY <1>4, <1>5, <2>1, <2>2, <2>5
  <2>7. g[n + 1] = [records |-> IF r.prior # Absent /\ ~r.cas THEN p.records ELSE Append(p.records, r),
                    turn |-> IF r.turn > p.turn THEN r.turn ELSE p.turn, over |-> FALSE]
    BY <2>3, <2>6, ReadsLine, Zenon
  <2>8. PICK o \in Seq(WsRecs) : o = p.records
    BY DEF Reading
  <2>9. g[n + 1].turn = t /\ ~g[n + 1].over
    BY <2>3, <2>5, <2>7
  <2>10. n \in 1..Len(rs)
    BY DEF K
  <2>11. CASE r \in Saved
    <3>1. g[n + 1].records = Append(o, rs[n])
      BY <2>5, <2>7, <2>8, <2>11, SMTT(60) DEF Saved
    <3>2. \E x : Picks(x, Append(o, rs[n]), rs, Saved, n)
      BY <2>4, <2>5, <2>8, <2>10, <2>11, PicksOne
    <3>3. QED
      BY <2>1, <2>9, <3>1, <3>2
  <2>12. CASE r \notin Saved
    <3>1. g[n + 1].records = o
      BY <2>7, <2>8, <2>12 DEF Saved
    <3>2. Picks(h, o, rs, Saved, n)
      BY <2>4, <2>5, <2>8, <2>10, <2>12, PicksSkip
    <3>3. QED
      BY <2>1, <2>9, <3>1, <3>2
  <2>13. QED
    BY <2>11, <2>12
<1>8. 0..K \subseteq Good
  <2>1. K \in Nat
    BY <1>1 DEF K
  <2> HIDE DEF Good
  <2>2. QED
    BY <1>6, <1>7, <2>1, Climb
<1>9. K \in Good /\ K + 1 = 1 + K /\ 1 + K \in 0..(1 + K)
  <2>1. K \in Nat
    BY <1>1 DEF K
  <2>2. K \in 0..K /\ K + 1 = 1 + K /\ 1 + K \in 0..(1 + K)
    BY <2>1
  <2> HIDE DEF Good
  <2>3. QED
    BY <1>8, <2>2
<1>10. QED
  BY <1>4, <1>5, <1>9 DEF K

-----------------------------------------------------------------------------

Mutators == {"Write", "Edit", "Append"}
AnyCall ==
  {NoCall} \cup [tool : {"Read"}, path : Files, step : {"record_read"}, new : Text]
  \cup [tool : Mutators, path : Files, step : {"load"}]
  \cup [tool : Mutators, path : Files, step : {"persist", "register", "record"}, old : Text \cup {Absent}, new : Text]

FileTypes ==
  /\ files \in [Files -> FileContents] /\ fileCall \in AnyCall
  /\ registry \in [Files -> [hash : FileContents \cup {Never}, fresh : BOOLEAN]]
  /\ shown \in [Files -> [data : Text \cup {Absent}, run : Nat]] /\ crashes \in Nat

JournalTypes ==
  /\ records \in Seq(WsRecs) /\ turn \in Nat /\ journalDisk \in Seq(WsLines) /\ open \in BOOLEAN
  /\ changes \in Seq(WsChanges)
  /\ rewinding \in [todo : Seq(WsRecs), restored : Seq(Files), asked : Seq(WsChanges)]

AtStep(S) == fileCall # NoCall /\ fileCall.step \in S

\* What a call holds of its file is what the file holds.
CallFits ==
  /\ fileCall # NoCall => process = "turn"
  /\ AtStep({"record_read"}) => files[fileCall.path] = fileCall.new
  /\ AtStep({"persist"}) => fileCall.old = IF files[fileCall.path] = Raw THEN Absent ELSE files[fileCall.path]
  /\ AtStep({"register"}) => files[fileCall.path] = fileCall.new /\ shown[fileCall.path].data = fileCall.new

\* The model saw it in this process.
Known(f) == shown[f].data # Absent /\ shown[f].run = crashes

\* The registry has the content that the model saw last, and a call that passed the check still
\* has that before it.
SeenFits ==
  /\ \A f \in Files : /\ shown[f].run <= crashes
                      /\ Known(f) => registry[f].hash = shown[f].data \/ (AtStep({"register"}) /\ fileCall.path = f)
  /\ AtStep({"load", "persist"}) /\ files[fileCall.path] # Absent /\ Known(fileCall.path)
       => files[fileCall.path] = shown[fileCall.path].data

FilesInv == FileTypes /\ CallFits /\ SeenFits

LEMMA Contents ==
  /\ Text \subseteq FileContents /\ Absent \in FileContents /\ Raw \in FileContents /\ Never \notin FileContents
  /\ Absent \notin Text /\ Raw \notin Text /\ Raw # Absent
  BY WorkspaceAssumption DEF FileContents, Absent, Raw, Never

LEMMA FilesStart == ASSUME WsInit PROVE FilesInv
<1>1. (CHOOSE t \in Text : TRUE) \in Text
  BY WorkspaceAssumption
<1>2. FileTypes
  BY <1>1, Contents DEF WsInit, FileTypes, AnyCall, Unread, FileContents
<1>3. CallFits /\ SeenFits
  BY <1>2 DEF WsInit, CallFits, SeenFits, AtStep, Known, FileTypes
<1>4. QED
  BY <1>2, <1>3 DEF FilesInv

\* A file that changes keeps what the registry has of it.
LEMMA ChangeKeeps ==
  ASSUME FileTypes, NEW f \in Files, NEW data \in FileContents, Change(f, data)
  PROVE  /\ files' \in [Files -> FileContents] /\ files'[f] = data /\ \A g \in Files : g # f => files'[g] = files[g]
         /\ registry' \in [Files -> [hash : FileContents \cup {Never}, fresh : BOOLEAN]]
         /\ \A g \in Files : registry'[g].hash = registry[g].hash
<1>1. PICK same \in BOOLEAN : registry' = [registry EXCEPT ![f].fresh = same /\ registry[f].fresh]
  BY DEF Change
<1>2. files' = [files EXCEPT ![f] = data]
  BY DEF Change
<1>3. PICK fresh \in BOOLEAN : fresh = (same /\ registry[f].fresh)
  OBVIOUS
<1>4. registry' = [registry EXCEPT ![f].fresh = fresh]
  BY <1>1, <1>3
<1>5. QED
  BY <1>2, <1>4 DEF FileTypes

\* Nothing but what other programs do changes a file between calls.
LEMMA BetweenCalls ==
  ASSUME FilesInv, fileCall = NoCall, fileCall' = NoCall, NEW f \in Files, NEW data \in FileContents, Change(f, data),
         UNCHANGED <<crashes, shown>>
  PROVE  FilesInv'
<1>1. FileTypes'
  BY ChangeKeeps, Zenon DEF FilesInv, FileTypes
<1>2. CallFits'
  BY DEF CallFits, AtStep
<1>3. \A g \in Files : registry'[g].hash = registry[g].hash
  BY ChangeKeeps DEF FilesInv
<1>4. SeenFits'
  BY <1>3 DEF FilesInv, SeenFits, AtStep, Known
<1>5. QED
  BY <1>1, <1>2, <1>4 DEF FilesInv

LEMMA ExternalStep ==
  ASSUME FilesInv, ~ExternalDuringCalls, NEW f \in Files, NEW data \in FileContents, External(f, data)
  PROVE  FilesInv'
<1>1. fileCall = NoCall /\ fileCall' = NoCall /\ Change(f, data) /\ UNCHANGED <<crashes, shown>>
  BY DEF External
<1>2. QED
  BY <1>1, BetweenCalls

LEMMA RestoreStep == ASSUME FilesInv, JournalTypes, NEW ok \in BOOLEAN, Restore(ok) PROVE FilesInv'
<1>1. UNCHANGED <<crashes, shown, fileCall>> /\ process = "idle" /\ process' = process
  BY DEF Restore
<1>2. fileCall = NoCall
  BY <1>1 DEF FilesInv, CallFits
<1>3. CASE ok
  <2>1. PICK td \in Seq(WsRecs) : td = rewinding.todo /\ td # <<>>
    BY DEF Restore, JournalTypes
  <2>2. PICK r \in WsRecs : r = Head(rewinding.todo)
    BY <2>1
  <2>3. r.path \in Files /\ r.prior \in FileContents
    BY Contents DEF WsRecs
  <2>4. Change(r.path, r.prior)
    BY <1>3, <2>2 DEF Restore
  <2>5. QED
    BY <1>1, <1>2, <2>3, <2>4, BetweenCalls
<1>4. CASE ~ok
  <2>1. UNCHANGED <<files, registry>>
    BY <1>4 DEF Restore
  <2>2. QED
    BY <1>1, <2>1 DEF FilesInv, FileTypes, CallFits, SeenFits, AtStep, Known
<1>5. QED
  BY <1>3, <1>4

\* Nothing of the files is touched.
LEMMA FilesRest ==
  ASSUME FilesInv, UNCHANGED <<files, registry, crashes, shown>>,
         \/ fileCall' = NoCall /\ (fileCall = NoCall \/ fileCall.step # "register")
         \/ fileCall' = fileCall /\ (fileCall # NoCall => process' = process)
  PROVE  FilesInv'
<1>1. FileTypes'
  BY DEF FilesInv, FileTypes, AnyCall
<1>2. CallFits'
  BY DEF FilesInv, CallFits, AtStep
<1>3. SeenFits'
  BY DEF FilesInv, SeenFits, AtStep, Known
<1>4. QED
  BY <1>1, <1>2, <1>3 DEF FilesInv

\* The steps of a call.
LEMMA CallTyped ==
  ASSUME FileTypes, fileCall # NoCall
  PROVE  /\ fileCall.path \in Files
         /\ fileCall.tool = "Read" <=> fileCall.step = "record_read"
         /\ fileCall.step = "record_read" => fileCall.new \in Text
         /\ fileCall.step \in {"load", "persist", "register", "record"} => fileCall.tool \in Mutators
         /\ fileCall.step \in {"persist", "register", "record"} =>
              fileCall \in [tool : Mutators, path : Files, step : {"persist", "register", "record"},
                            old : Text \cup {Absent}, new : Text]
  BY DEF FileTypes, AnyCall, Mutators

LEMMA ReadBytesStep == ASSUME FilesInv, NEW f \in Files, ReadBytes(f) PROVE FilesInv'
<1> USE DEF FilesInv
<1>1. PICK t \in Text : t = files[f]
  BY DEF ReadBytes
<1>2. fileCall' = [tool |-> "Read", path |-> f, step |-> "record_read", new |-> t] /\ process' = "turn"
  BY <1>1 DEF ReadBytes, CanCall
<1>3. UNCHANGED <<files, registry, crashes, shown>> /\ fileCall = NoCall
  BY DEF ReadBytes, CanCall
<1>4. FileTypes'
  BY <1>2, <1>3 DEF FileTypes, AnyCall
<1>5. CallFits'
  BY <1>1, <1>2, <1>3 DEF CallFits, AtStep, NoCall
<1>6. SeenFits'
  BY <1>2, <1>3 DEF SeenFits, AtStep, NoCall, Known
<1>7. QED
  BY <1>4, <1>5, <1>6

\* The registry reads a file whose content the model sees now.
LEMMA Records ==
  ASSUME FileTypes, NEW f \in Files, registry' = record_read(f)
  PROVE  /\ registry' \in [Files -> [hash : FileContents \cup {Never}, fresh : BOOLEAN]]
         /\ registry'[f].hash = files[f]
         /\ \A g \in Files : g # f => registry'[g].hash = registry[g].hash
  BY DEF FileTypes, record_read

LEMMA ReadRecordStep == ASSUME FilesInv, ReadRecord PROVE FilesInv'
<1> USE DEF FilesInv
<1>1. fileCall # NoCall /\ fileCall.step = "record_read"
  <2>1. fileCall.tool = "Read" /\ fileCall # NoCall
    BY DEF ReadRecord, NoCall
  <2>2. QED
    BY <2>1, CallTyped
<1>2. PICK f \in Files : f = fileCall.path
  BY <1>1, CallTyped
<1>3. PICK t \in Text : t = fileCall.new /\ files[f] = t
  BY <1>1, <1>2, CallTyped DEF CallFits, AtStep
<1>4. registry' = record_read(f) /\ shown' = [shown EXCEPT ![f] = [data |-> t, run |-> crashes]]
      /\ fileCall' = NoCall /\ UNCHANGED <<files, crashes>>
  BY <1>2, <1>3 DEF ReadRecord, Show
<1>5. FileTypes'
  <2>1. registry' \in [Files -> [hash : FileContents \cup {Never}, fresh : BOOLEAN]]
    BY <1>4, Records
  <2>2. QED
    BY <1>4, <2>1 DEF FileTypes, AnyCall
<1>6. CallFits'
  BY <1>4 DEF CallFits, AtStep
<1>7. SeenFits'
  <2>1. registry'[f].hash = files[f] /\ \A g \in Files : g # f => registry'[g].hash = registry[g].hash
    BY <1>4, Records
  <2>2. \A g \in Files : g # f => shown'[g] = shown[g]
    BY <1>4 DEF FileTypes
  <2>3. shown'[f] = [data |-> t, run |-> crashes]
    BY <1>4 DEF FileTypes
  <2>4. ASSUME NEW g \in Files PROVE shown'[g].run <= crashes /\ (Known(g)' => registry'[g].hash = shown'[g].data)
    <3>1. CASE g = f
      BY <1>3, <2>1, <2>3, <3>1 DEF FileTypes
    <3>2. CASE g # f
      <4>1. ~AtStep({"register"})
        BY <1>1 DEF AtStep
      <4>2. QED
        BY <1>4, <2>1, <2>2, <3>2, <4>1 DEF SeenFits, Known
    <3>3. QED
      BY <3>1, <3>2
  <2>5. QED
    BY <1>4, <2>4 DEF SeenFits, AtStep
<1>8. QED
  BY <1>5, <1>6, <1>7

LEMMA CheckStep == ASSUME FilesInv, NEW tool \in Mutators, NEW f \in Files, Check(tool, f) PROVE FilesInv'
<1> USE DEF FilesInv
<1>1. /\ fileCall = NoCall /\ process = "turn" /\ UNCHANGED <<files, crashes, shown, process>>
      /\ fileCall' = [tool |-> tool, path |-> f, step |-> "load"]
  BY DEF Check, CanCall
<1>2. fileCall' # NoCall /\ fileCall'.step = "load" /\ fileCall'.path = f
  BY <1>1 DEF NoCall, Mutators
<1>3. registry' = registry \/ (registry' = record_read(f) /\ registry[f].hash = Never)
  BY DEF Check, current_read_state
<1>4. files[f] # Absent => registry[f].hash \in {Never, files[f]}
  BY DEF Check, current_read_state
<1>5. registry' \in [Files -> [hash : FileContents \cup {Never}, fresh : BOOLEAN]]
  BY <1>3, Records DEF FileTypes
<1>6. FileTypes'
  BY <1>1, <1>5 DEF FileTypes, AnyCall
<1>7. CallFits'
  BY <1>1, <1>2 DEF CallFits, AtStep
<1>8. Known(f) => registry[f].hash = shown[f].data /\ registry[f].hash # Never
  <2>1. Known(f) => registry[f].hash = shown[f].data
    BY <1>1 DEF SeenFits, AtStep
  <2>2. shown[f].data \in Text \cup {Absent}
    BY DEF FileTypes
  <2>3. QED
    BY <2>1, <2>2, Contents
<1>9. \A g \in Files : Known(g) => registry'[g].hash = shown[g].data
  <2>1. ASSUME NEW g \in Files, Known(g) PROVE registry'[g].hash = shown[g].data
    <3>1. registry[g].hash = shown[g].data
      BY <1>1, <2>1 DEF SeenFits, AtStep
    <3>2. CASE registry' = registry
      BY <3>1, <3>2
    <3>3. CASE registry' = record_read(f) /\ registry[f].hash = Never
      <4>1. g # f
        BY <1>8, <2>1, <3>3
      <4>2. QED
        BY <3>1, <3>3, <4>1, Records
    <3>4. QED
      BY <1>3, <3>2, <3>3
  <2>2. QED
    BY <2>1
<1>10. SeenFits'
  BY <1>1, <1>2, <1>4, <1>8, <1>9 DEF SeenFits, Known, AtStep
<1>11. QED
  BY <1>6, <1>7, <1>10

LEMMA LoadStep == ASSUME FilesInv, NEW new \in Text, Load(new) PROVE FilesInv'
<1> USE DEF FilesInv
<1>1. fileCall # NoCall /\ fileCall.step = "load" /\ UNCHANGED <<files, registry, crashes, shown, process>>
  BY DEF Load
<1>2. PICK f \in Files : f = fileCall.path
  BY <1>1, CallTyped
<1>3. PICK tool \in Mutators : tool = fileCall.tool
  BY <1>1, CallTyped
<1>4. PICK old \in Text \cup {Absent} : old = IF files[f] = Raw THEN Absent ELSE files[f]
  BY Contents DEF FileTypes, FileContents
<1>5. fileCall' = [tool |-> tool, path |-> f, step |-> "persist", old |-> old, new |-> new]
  BY <1>2, <1>3, <1>4 DEF Load
<1>6. fileCall' # NoCall /\ fileCall'.step = "persist" /\ fileCall'.path = f /\ fileCall'.old = old
  BY <1>5 DEF NoCall, Mutators
<1>7. FileTypes'
  BY <1>1, <1>5 DEF FileTypes, AnyCall
<1>8. CallFits'
  BY <1>1, <1>4, <1>6 DEF CallFits, AtStep
<1>9. SeenFits'
  BY <1>1, <1>2, <1>6 DEF SeenFits, Known, AtStep
<1>10. QED
  BY <1>7, <1>8, <1>9

LEMMA PersistStep == ASSUME FilesInv, Persist PROVE FilesInv'
<1> USE DEF FilesInv
<1>1. fileCall # NoCall /\ fileCall.step = "persist" /\ UNCHANGED <<crashes, process>>
  BY DEF Persist
<1>2. fileCall \in [tool : Mutators, path : Files, step : {"persist", "register", "record"},
                    old : Text \cup {Absent}, new : Text]
  BY <1>1, CallTyped
<1>3. PICK f \in Files : f = fileCall.path
  BY <1>2
<1>4. PICK t \in Text : t = fileCall.new
  BY <1>2
<1>5. Change(f, t) /\ shown' = [shown EXCEPT ![f] = [data |-> t, run |-> crashes]]
      /\ fileCall' = [fileCall EXCEPT !.step = "register"]
  BY <1>3, <1>4 DEF Persist, Show
<1>6. /\ fileCall' \in [tool : Mutators, path : Files, step : {"persist", "register", "record"},
                        old : Text \cup {Absent}, new : Text]
      /\ fileCall'.path = f /\ fileCall'.step = "register" /\ fileCall'.new = t /\ fileCall' # NoCall
  BY <1>2, <1>3, <1>4, <1>5 DEF NoCall, Mutators
<1>7. t \in FileContents
  BY Contents
<1>8. /\ files' \in [Files -> FileContents] /\ files'[f] = t
      /\ registry' \in [Files -> [hash : FileContents \cup {Never}, fresh : BOOLEAN]]
      /\ \A g \in Files : registry'[g].hash = registry[g].hash
  BY <1>5, <1>7, ChangeKeeps
<1>9. shown' \in [Files -> [data : Text \cup {Absent}, run : Nat]] /\ shown'[f].data = t /\ shown'[f].run = crashes
      /\ \A g \in Files : g # f => shown'[g] = shown[g]
  BY <1>5 DEF FileTypes
<1>10. FileTypes'
  BY <1>1, <1>6, <1>8, <1>9 DEF FileTypes, AnyCall
<1>11. CallFits'
  BY <1>1, <1>6, <1>8, <1>9 DEF CallFits, AtStep
<1>12. SeenFits'
  <2>1. ASSUME NEW g \in Files PROVE shown'[g].run <= crashes /\ (Known(g)' => registry'[g].hash = shown'[g].data \/ g = f)
    <3>1. CASE g = f
      BY <1>9, <3>1 DEF FileTypes
    <3>2. CASE g # f
      <4>1. ~AtStep({"register"})
        BY <1>1 DEF AtStep
      <4>2. QED
        BY <1>1, <1>8, <1>9, <3>2, <4>1 DEF SeenFits, Known
    <3>3. QED
      BY <3>1, <3>2
  <2>2. QED
    BY <1>1, <1>6, <2>1 DEF SeenFits, AtStep
<1>13. QED
  BY <1>10, <1>11, <1>12

LEMMA RegisterStep == ASSUME FilesInv, Register PROVE FilesInv'
<1> USE DEF FilesInv
<1>1. fileCall # NoCall /\ fileCall.step = "register" /\ UNCHANGED <<files, crashes, process, shown>>
  BY DEF Register
<1>2. fileCall \in [tool : Mutators, path : Files, step : {"persist", "register", "record"},
                    old : Text \cup {Absent}, new : Text]
  BY <1>1, CallTyped
<1>3. PICK f \in Files : f = fileCall.path
  BY <1>2
<1>4. registry' = record_read(f) /\ fileCall' = [fileCall EXCEPT !.step = "record"]
  BY <1>3 DEF Register
<1>5. /\ fileCall' \in [tool : Mutators, path : Files, step : {"persist", "register", "record"},
                        old : Text \cup {Absent}, new : Text]
      /\ fileCall'.path = f /\ fileCall'.step = "record" /\ fileCall' # NoCall
  BY <1>2, <1>3, <1>4 DEF NoCall, Mutators
<1>6. /\ registry' \in [Files -> [hash : FileContents \cup {Never}, fresh : BOOLEAN]]
      /\ registry'[f].hash = files[f] /\ \A g \in Files : g # f => registry'[g].hash = registry[g].hash
  BY <1>4, Records
<1>7. FileTypes'
  BY <1>1, <1>5, <1>6 DEF FileTypes, AnyCall
<1>8. CallFits'
  BY <1>1, <1>5 DEF CallFits, AtStep
<1>9. files[f] = shown[f].data
  BY <1>1, <1>3 DEF CallFits, AtStep
<1>10. SeenFits'
  <2>1. ASSUME NEW g \in Files PROVE shown'[g].run <= crashes /\ (Known(g)' => registry'[g].hash = shown'[g].data)
    <3>1. CASE g = f
      BY <1>1, <1>6, <1>9, <3>1 DEF SeenFits
    <3>2. CASE g # f
      BY <1>1, <1>3, <1>6, <3>2 DEF SeenFits, Known, AtStep
    <3>3. QED
      BY <3>1, <3>2
  <2>2. QED
    BY <1>1, <1>5, <2>1 DEF SeenFits, AtStep
<1>11. QED
  BY <1>7, <1>8, <1>10

LEMMA DownStep == ASSUME FilesInv, Down PROVE FilesInv'
<1> USE DEF FilesInv
<1>1. /\ crashes' = crashes + 1 /\ registry' = [f \in Files |-> Unread] /\ fileCall' = NoCall /\ UNCHANGED <<files, shown>>
  BY DEF Down
<1>2. FileTypes'
  BY <1>1 DEF FileTypes, AnyCall, Unread
<1>3. CallFits'
  BY <1>1 DEF CallFits, AtStep
<1>4. SeenFits'
  <2>1. \A f \in Files : shown[f].run \in Nat /\ shown[f].run <= crashes /\ crashes \in Nat
    BY DEF SeenFits, FileTypes
  <2>2. \A f \in Files : shown'[f].run <= crashes' /\ ~Known(f)'
    BY <1>1, <2>1 DEF Known
  <2>3. QED
    BY <1>1, <2>2 DEF SeenFits, AtStep
<1>5. QED
  BY <1>2, <1>3, <1>4

LEMMA FilesSteps == ASSUME FilesInv, JournalTypes, ~ExternalDuringCalls, [WsNext]_wsVars PROVE FilesInv'
<1>1. CASE UNCHANGED wsVars
  BY <1>1, FilesRest DEF wsVars
<1>2. CASE \E f \in Files : \/ \E data \in FileContents : External(f, data)
                            \/ ReadBytes(f) \/ \E tool \in Mutators : Check(tool, f)
  BY <1>2, ExternalStep, ReadBytesStep, CheckStep
<1>3. CASE ReadRecord \/ (\E new \in Text : Load(new)) \/ Persist \/ Register
  BY <1>3, ReadRecordStep, LoadStep, PersistStep, RegisterStep
<1>4. CASE CallFails \/ \E cas \in BOOLEAN : record(cas)
  <2>1. UNCHANGED <<files, registry, crashes, shown>>
    BY <1>4 DEF CallFails, record
  <2>2. fileCall' = NoCall /\ fileCall.step # "register"
    BY <1>4 DEF CallFails, record
  <2>3. QED
    BY <2>1, <2>2, FilesRest
<1>5. CASE advance_turn \/ TurnEnds \/ (\E n \in 1..(MaxTurn + 1) : rewind(n)) \/ durable
  <2>1. UNCHANGED <<files, registry, crashes, shown, fileCall>> /\ fileCall = NoCall
    BY <1>5 DEF advance_turn, TurnEnds, rewind, durable, Idle, CanCall, FilesInv, CallFits
  <2>2. QED
    BY <2>1, FilesRest
<1>6. CASE \E ok \in BOOLEAN : Restore(ok)
  BY <1>6, RestoreStep
<1>7. CASE Crash \/ \E part \in BOOLEAN : CrashAppending(part)
  BY <1>7, DownStep DEF Crash, CrashAppending
<1>8. QED
  BY <1>1, <1>2, <1>3, <1>4, <1>5, <1>6, <1>7 DEF WsNext, Mutators

Unlogged == AtStep({"register", "record"})
Below == IF Unlogged THEN Len(changes) - 1 ELSE Len(changes)

\* What a restart reads of these lines tells of the first m of cs, by turns.
Holds(lines, cs, m) ==
  Told(Reread(lines).records, cs, m) /\ InTurns(Reread(lines).records, Reread(lines).turn)

\* The journal, in memory and on disk, tells of every mutation but one whose call is still to log
\* it; a line without its end may yet be garbled, and what is before it tells too.
JournalFits ==
  /\ Told(records, changes, Below) /\ InTurns(records, turn)
  /\ Holds(journalDisk, changes, Below)
  /\ open => journalDisk # <<>> /\ Holds(Front(journalDisk), changes, Below)
  /\ process # "down" /\ ~Reread(journalDisk).over => Reread(journalDisk).turn <= turn
  /\ Unlogged => /\ changes # <<>> /\ changes[Len(changes)].path = fileCall.path
                 /\ changes[Len(changes)].turn = turn
                 /\ fileCall.old = IF changes[Len(changes)].prior = Raw THEN Absent ELSE changes[Len(changes)].prior

JournalInv == JournalTypes /\ JournalFits

LEMMA Fronts ==
  ASSUME NEW T, NEW s \in Seq(T)
  PROVE  /\ s # <<>> => Front(s) \in Seq(T)
         /\ \A x \in T : Front(Append(s, x)) = s /\ Append(s, x) # <<>> /\ Append(s, x) \in Seq(T)
<1>1. s # <<>> => Front(s) \in Seq(T)
  <2>1. ASSUME s # <<>> PROVE SubSeq(s, 1, Len(s) - 1) \in Seq(T)
    <3>1. Len(s) \in Nat \ {0} /\ \A i \in 1..Len(s) : s[i] \in T
      BY <2>1, ElementOfSeq, EmptySeq
    <3>2. QED
      BY <3>1, SubSeqProperties
  <2>2. QED
    BY <2>1 DEF Front
<1>2. ASSUME NEW x \in T PROVE Front(Append(s, x)) = s /\ Append(s, x) # <<>> /\ Append(s, x) \in Seq(T)
  <2>1. PICK q \in Seq(T) : q = Append(s, x)
    BY Appended
  <2>2. Len(q) = Len(s) + 1 /\ Len(s) \in Nat /\ (\A i \in 1..Len(s) : q[i] = s[i]) /\ q # <<>>
    BY <2>1, AppendProperties
  <2>3. PICK f \in Seq(T) : f = Front(q)
    <3>1. \A i \in 1..(Len(q) - 1) : q[i] \in T
      BY <2>2, ElementOfSeq
    <3>2. SubSeq(q, 1, Len(q) - 1) \in Seq(T)
      BY <2>2, <3>1, SubSeqProperties
    <3>3. QED
      BY <3>2 DEF Front
  <2>4. Len(f) = Len(s) /\ \A i \in 1..Len(s) : f[i] = s[i]
    <3>1. \A i \in 1..(Len(q) - 1) : q[i] \in T
      BY <2>2, ElementOfSeq
    <3>2. f = SubSeq(q, 1, Len(s)) /\ (Len(s) + 1) - 1 = Len(s)
      BY <2>2, <2>3 DEF Front
    <3>3. QED
      BY <2>2, <3>2
  <2>5. f = s
    BY <2>4, SeqEqual
  <2>6. QED
    BY <2>1, <2>2, <2>3, <2>5
<1>3. QED
  BY <1>1, <1>2

LEMMA BelowTyped ==
  ASSUME JournalInv
  PROVE  Below \in Nat /\ Len(changes) \in Nat /\ Below <= Len(changes) /\ (Unlogged => Below + 1 = Len(changes))
<1>1. Len(changes) \in Nat /\ (changes # <<>> => Len(changes) \in Nat \ {0})
  BY DEF JournalInv, JournalTypes
<1>2. QED
  BY <1>1 DEF JournalInv, JournalFits, Below

\* Lines that are appended.
LEMMA HoldsNext ==
  ASSUME NEW lines \in Seq(WsLines), NEW cs, NEW m \in Nat, Holds(lines, cs, m)
  PROVE  /\ Holds(Append(lines, Garbled), cs, m) /\ Reread(Append(lines, Garbled)).over
         /\ \A t \in Nat : (Reread(lines).over \/ Reread(lines).turn <= t) =>
              /\ Holds(Append(lines, TurnEntry(t)), cs, m)
              /\ ~Reread(Append(lines, TurnEntry(t))).over => Reread(Append(lines, TurnEntry(t))).turn = t
         /\ \A r \in WsRecs : (Reread(lines).over \/ Reread(lines).turn <= r.turn) /\ TellsOf(r, cs[m + 1]) =>
              /\ Holds(Append(lines, ChangeEntry(r)), cs, m + 1)
              /\ ~Reread(Append(lines, ChangeEntry(r))).over => Reread(Append(lines, ChangeEntry(r))).turn = r.turn
<1>1. Garbled \in WsLines /\ (\A t \in Nat : TurnEntry(t) \in WsLines) /\ \A r \in WsRecs : ChangeEntry(r) \in WsLines
  BY DEF WsLines
<1>2. PICK p \in Reading : p = Reread(lines)
  BY <1>1, RereadNext
<1>3. Told(p.records, cs, m) /\ InTurns(p.records, p.turn) /\ p.records \in Seq(WsRecs) /\ p.turn \in Nat /\ p.over \in BOOLEAN
  BY <1>2 DEF Holds, Reading
<1>4. Told(p.records, cs, m + 1)
  <2>1. m + 1 \in Nat /\ m <= m + 1
    OBVIOUS
  <2>2. PICK rs \in Seq(WsRecs) : rs = p.records
    BY <1>3
  <2>3. Told(rs, cs, m)
    BY <1>3, <2>2
  <2>4. Told(rs, cs, m + 1)
    BY <2>1, <2>3, ToldMore
  <2>5. QED
    BY <2>2, <2>4
<1>5. ASSUME NEW l \in WsLines PROVE Reread(Append(lines, l)) = ReadLine(p, l)
  BY <1>2, RereadNext
<1>6. Holds(Append(lines, Garbled), cs, m) /\ Reread(Append(lines, Garbled)).over
  <2>1. Reread(Append(lines, Garbled)) = [records |-> p.records, turn |-> p.turn, over |-> TRUE]
    BY <1>1, <1>5, ReadsLine, Zenon
  <2>2. PICK q : q = Reread(Append(lines, Garbled))
    OBVIOUS
  <2>3. q.records = p.records /\ q.turn = p.turn /\ q.over
    BY <2>1, <2>2
  <2>4. QED
    BY <1>3, <2>2, <2>3 DEF Holds
<1>7. ASSUME NEW t \in Nat, p.over \/ p.turn <= t
      PROVE  /\ Holds(Append(lines, TurnEntry(t)), cs, m)
             /\ ~Reread(Append(lines, TurnEntry(t))).over => Reread(Append(lines, TurnEntry(t))).turn = t
  <2>1. PICK q : q = Reread(Append(lines, TurnEntry(t)))
    OBVIOUS
  <2>2. q = ReadLine(p, TurnEntry(t)) /\ TurnEntry(t) \in WsLines
    BY <1>1, <1>5, <2>1
  <2>3. CASE p.over
    <3>1. q = [records |-> p.records, turn |-> p.turn, over |-> TRUE]
      BY <2>2, <2>3, ReadsLine, Zenon
    <3>2. q.records = p.records /\ q.turn = p.turn /\ q.over
      BY <3>1
    <3>3. QED
      BY <1>3, <2>1, <3>2 DEF Holds
  <2>4. CASE ~p.over
    <3>1. q = [records |-> p.records, turn |-> t, over |-> FALSE]
      BY <2>2, <2>4, ReadsLine, Zenon
    <3>2. q.records = p.records /\ q.turn = t
      BY <3>1
    <3>3. \A x \in WsRecs : x.turn \in Nat
      BY DEF WsRecs
    <3>4. \A i \in 1..Len(p.records) : p.records[i].turn \in Nat
      BY <1>3, <3>3, ElementOfSeq
    <3>5. InTurns(p.records, t)
      BY <1>3, <1>7, <2>4, <3>4 DEF InTurns
    <3>6. QED
      BY <1>3, <2>1, <3>2, <3>5 DEF Holds
  <2>5. QED
    BY <1>3, <2>3, <2>4
<1>8. ASSUME NEW r \in WsRecs, p.over \/ p.turn <= r.turn, TellsOf(r, cs[m + 1])
      PROVE  /\ Holds(Append(lines, ChangeEntry(r)), cs, m + 1)
             /\ ~Reread(Append(lines, ChangeEntry(r))).over => Reread(Append(lines, ChangeEntry(r))).turn = r.turn
  <2>1. PICK q : q = Reread(Append(lines, ChangeEntry(r)))
    OBVIOUS
  <2>2. q = ReadLine(p, ChangeEntry(r)) /\ ChangeEntry(r) \in WsLines
    BY <1>1, <1>5, <2>1
  <2>a. r.turn \in Nat
    BY DEF WsRecs
  <2>3. CASE p.over
    <3>1. q = [records |-> p.records, turn |-> p.turn, over |-> TRUE]
      BY <2>2, <2>3, ReadsLine, Zenon
    <3>2. q.records = p.records /\ q.turn = p.turn /\ q.over
      BY <3>1
    <3>3. QED
      BY <1>3, <1>4, <2>1, <3>2 DEF Holds
  <2>4. CASE ~p.over
    <3>1. q = [records |-> IF r.prior # Absent /\ ~r.cas THEN p.records ELSE Append(p.records, r),
               turn |-> IF r.turn > p.turn THEN r.turn ELSE p.turn, over |-> FALSE]
      BY <2>2, <2>4, ReadsLine, Zenon
    <3>2. q.turn = r.turn
      <4>1. q.turn = IF r.turn > p.turn THEN r.turn ELSE p.turn
        BY <3>1
      <4>2. QED
        BY <1>3, <1>8, <2>a, <2>4, <4>1
    <3>3. q.records = p.records \/ q.records = Append(p.records, r)
      BY <3>1
    <3>4. PICK rs \in Seq(WsRecs) : rs = p.records
      BY <1>3
    <3>5. Told(rs, cs, m) /\ InTurns(rs, p.turn) /\ p.turn <= r.turn
      BY <1>3, <1>8, <2>4, <3>4
    <3>6. Told(Append(rs, r), cs, m + 1)
      BY <1>8, <3>5, ToldOne
    <3>7. InTurns(Append(rs, r), r.turn)
      BY <1>3, <2>a, <3>5, InTurnsOne
    <3>8. InTurns(rs, r.turn)
      <4>1. \A x \in WsRecs : x.turn \in Nat
        BY DEF WsRecs
      <4>2. \A i \in 1..Len(rs) : rs[i].turn \in Nat
        BY <4>1, ElementOfSeq
      <4>3. QED
        BY <1>3, <2>a, <3>5, <4>2 DEF InTurns
    <3>9. QED
      BY <1>4, <2>1, <3>2, <3>3, <3>4, <3>6, <3>7, <3>8 DEF Holds
  <2>5. QED
    BY <1>3, <2>3, <2>4
<1>9. QED
  BY <1>2, <1>6, <1>7, <1>8

\* There are more mutations than there were, and the first m of them say the same.
LEMMA HoldsMore ==
  ASSUME NEW lines \in Seq(WsLines), NEW cs, NEW ds, NEW m \in Nat, NEW k \in Nat, m <= k, Holds(lines, cs, m),
         \A i \in 1..m : ds[i].path = cs[i].path /\ ds[i].turn = cs[i].turn /\ ds[i].prior = cs[i].prior
  PROVE  Holds(lines, ds, k)
<1>1. PICK p \in Reading : p = Reread(lines)
  <2>1. Garbled \in WsLines
    BY DEF WsLines
  <2>2. QED
    BY <2>1, RereadNext
<1>2. PICK rs \in Seq(WsRecs) : rs = p.records
  BY DEF Reading
<1>3. Told(rs, cs, m)
  BY <1>1, <1>2 DEF Holds
<1>4. Told(rs, ds, k)
  BY <1>3, ToldMore
<1>5. QED
  BY <1>1, <1>2, <1>4 DEF Holds

\* append_durable, on a line that was ended or not.
LEMMA Appending ==
  ASSUME JournalTypes, NEW cs, NEW m \in Nat, NEW k \in Nat, m <= k, Holds(journalDisk, cs, m),
         open => journalDisk # <<>> /\ Holds(Front(journalDisk), cs, m),
         NEW entry \in WsLines, Holds(Append(journalDisk, entry), cs, k), NEW disk, disk = append_durable(entry)
  PROVE  /\ disk \in Seq(WsLines) /\ disk # <<>> /\ Holds(disk, cs, k) /\ Holds(Front(disk), cs, k)
         /\ ~Reread(disk).over => disk = Append(journalDisk, entry)
<1>1. Garbled \in WsLines /\ journalDisk \in Seq(WsLines)
  BY DEF WsLines, JournalTypes
<1>2. ASSUME NEW lines \in Seq(WsLines), Holds(lines, cs, m) PROVE Holds(lines, cs, k)
  BY <1>2, HoldsMore
<1>3. CASE open
  <2>1. PICK f \in Seq(WsLines) : f = Front(journalDisk)
    BY <1>1, <1>3, Fronts
  <2>2. Holds(f, cs, m)
    BY <1>3, <2>1
  <2>3. disk = Append(f, Garbled)
    BY <1>3, <2>1 DEF append_durable
  <2>4. Holds(f, cs, k)
    BY <1>2, <2>2
  <2>5. Holds(Append(f, Garbled), cs, k) /\ Reread(Append(f, Garbled)).over
    BY <2>4, HoldsNext
  <2>6. Front(Append(f, Garbled)) = f /\ Append(f, Garbled) # <<>> /\ Append(f, Garbled) \in Seq(WsLines)
    BY <1>1, Fronts
  <2>7. QED
    BY <2>3, <2>4, <2>5, <2>6
<1>4. CASE ~open
  <2>1. disk = Append(journalDisk, entry)
    BY <1>4 DEF append_durable
  <2>2. Front(Append(journalDisk, entry)) = journalDisk /\ Append(journalDisk, entry) # <<>> /\ Append(journalDisk, entry) \in Seq(WsLines)
    BY <1>1, Fronts
  <2>3. QED
    BY <1>1, <1>2, <2>1, <2>2
<1>5. QED
  BY <1>3, <1>4 DEF JournalTypes

LEMMA JournalStart == ASSUME WsInit PROVE JournalInv
<1>1. JournalTypes
  <2>1. \A S : <<>> \in Seq(S)
    OBVIOUS
  <2>2. NoRewind \in [todo : Seq(WsRecs), restored : Seq(Files), asked : Seq(WsChanges)]
    BY <2>1 DEF NoRewind
  <2>3. QED
    BY <2>1, <2>2 DEF WsInit, JournalTypes
<1>2. Told(<<>>, <<>>, 0) /\ InTurns(<<>>, 0)
  BY ToldNone
<1>3. Reread(<<>>).records = <<>> /\ Reread(<<>>).turn = 0
  BY RereadNone DEF Unopened
<1>4. ~Unlogged /\ Below = 0
  BY DEF WsInit, Unlogged, AtStep, Below
<1>5. JournalFits
  BY <1>2, <1>3, <1>4 DEF WsInit, JournalFits, Holds
<1>6. QED
  BY <1>1, <1>5 DEF JournalInv

AnyRewind == [todo : Seq(WsRecs), restored : Seq(Files), asked : Seq(WsChanges)]

\* The journal is not touched.
LEMMA JournalRest ==
  ASSUME JournalInv, UNCHANGED <<records, turn, journalDisk, open, changes>>, rewinding' \in AnyRewind,
         process' # "down" => process # "down", Unlogged' <=> Unlogged,
         Unlogged => fileCall'.path = fileCall.path /\ fileCall'.old = fileCall.old
  PROVE  JournalInv'
<1>1. JournalTypes'
  BY DEF JournalInv, JournalTypes, AnyRewind
<1>2. Below' = Below
  BY DEF Below
<1>3. JournalFits'
  BY <1>2 DEF JournalInv, JournalFits
<1>4. QED
  BY <1>1, <1>3 DEF JournalInv

LEMMA QuietSteps ==
  ASSUME JournalInv, FilesInv,
         \/ \E f \in Files, data \in FileContents : External(f, data)
         \/ \E f \in Files : ReadBytes(f) \/ \E tool \in Mutators : Check(tool, f)
         \/ ReadRecord \/ (\E new \in Text : Load(new)) \/ CallFails \/ Register \/ TurnEnds
  PROVE  JournalInv'
<1>1. UNCHANGED <<records, turn, journalDisk, open, changes, rewinding>>
  BY DEF External, ReadBytes, Check, ReadRecord, Load, CallFails, Register, TurnEnds, journal
<1>2. rewinding' \in AnyRewind
  BY <1>1 DEF JournalInv, JournalTypes, AnyRewind
<1>3. process' # "down" => process # "down"
  BY DEF External, ReadBytes, Check, ReadRecord, Load, CallFails, Register, TurnEnds, CanCall
<1>4. CASE Register
  <2>1. fileCall # NoCall /\ fileCall.step = "register"
    BY <1>4 DEF Register
  <2>2. fileCall \in [tool : Mutators, path : Files, step : {"persist", "register", "record"},
                      old : Text \cup {Absent}, new : Text]
    BY <2>1, CallTyped DEF FilesInv
  <2>3. fileCall' = [fileCall EXCEPT !.step = "record"]
    BY <1>4 DEF Register
  <2>4. /\ fileCall'.path = fileCall.path /\ fileCall'.old = fileCall.old /\ fileCall'.step = "record"
        /\ fileCall'.tool = fileCall.tool
    BY <2>2, <2>3
  <2>5. Unlogged /\ Unlogged'
    BY <2>1, <2>2, <2>4 DEF Unlogged, AtStep, NoCall, Mutators
  <2>6. QED
    BY <1>1, <1>2, <1>3, <2>4, <2>5, JournalRest
<1>5. CASE \E f \in Files, data \in FileContents : External(f, data)
  <2>1. fileCall' = fileCall
    BY <1>5 DEF External
  <2>2. Unlogged' <=> Unlogged
    BY <2>1 DEF Unlogged, AtStep
  <2>3. QED
    BY <1>1, <1>2, <1>3, <2>1, <2>2, JournalRest
<1>6. CASE \/ \E f \in Files : ReadBytes(f) \/ \E tool \in Mutators : Check(tool, f)
           \/ ReadRecord \/ (\E new \in Text : Load(new)) \/ CallFails \/ TurnEnds
  <2>1. ~Unlogged
    <3>1. CASE ReadRecord
      <4>1. fileCall # NoCall /\ fileCall.tool = "Read"
        BY <3>1 DEF ReadRecord, NoCall
      <4>2. fileCall.step = "record_read"
        BY <4>1, CallTyped DEF FilesInv
      <4>3. QED
        BY <4>2 DEF Unlogged, AtStep
    <3>2. CASE \/ \E f \in Files : ReadBytes(f) \/ \E tool \in Mutators : Check(tool, f)
               \/ (\E new \in Text : Load(new)) \/ CallFails \/ TurnEnds
      BY <3>2 DEF ReadBytes, Check, Load, CallFails, TurnEnds, CanCall, Unlogged, AtStep
    <3>3. QED
      BY <1>6, <3>1, <3>2
  <2>2. \/ fileCall' = NoCall
        \/ fileCall'.step \in {"record_read", "load", "persist"}
    <3>1. ReadRecord \/ CallFails \/ TurnEnds => fileCall' = NoCall
      BY DEF ReadRecord, CallFails, TurnEnds, CanCall
    <3>2. \A f \in Files : ReadBytes(f) => fileCall'.step = "record_read"
      BY DEF ReadBytes
    <3>3. \A f \in Files, tool \in Mutators : Check(tool, f) => fileCall'.step = "load"
      BY DEF Check
    <3>4. \A new \in Text : Load(new) => fileCall'.step = "persist"
      BY DEF Load
    <3>5. QED
      BY <1>6, <3>1, <3>2, <3>3, <3>4
  <2>3. ~Unlogged'
    BY <2>2 DEF Unlogged, AtStep
  <2>4. QED
    BY <1>1, <1>2, <1>3, <2>1, <2>3, JournalRest
<1>7. QED
  BY <1>4, <1>5, <1>6

LEMMA JournalRestore == ASSUME JournalInv, NEW ok \in BOOLEAN, Restore(ok) PROVE JournalInv'
<1>1. UNCHANGED <<records, turn, journalDisk, open, changes, fileCall, process>>
  BY DEF Restore, journal
<1>2. PICK rw \in AnyRewind : rw = rewinding /\ rw.todo # <<>>
  BY DEF Restore, JournalInv, JournalTypes, AnyRewind
<1>3. PICK td \in Seq(WsRecs) : td = rw.todo
  BY DEF AnyRewind
<1>4. Head(td) \in WsRecs /\ Tail(td) \in Seq(WsRecs) /\ Head(td).path \in Files
  <2>1. Head(td) \in WsRecs /\ Tail(td) \in Seq(WsRecs)
    BY <1>2, <1>3, HeadTailProperties
  <2>2. QED
    BY <2>1 DEF WsRecs
<1>5. PICK rd \in Seq(Files) : rd = rw.restored
  BY DEF AnyRewind
<1>6. PICK more \in Seq(Files) : more = IF ok THEN Append(rd, Head(td).path) ELSE rd
  BY <1>4, Appended
<1>7. rewinding' = [todo |-> Tail(td), asked |-> rw.asked, restored |-> more]
  BY <1>2, <1>3, <1>5, <1>6 DEF Restore
<1>8. rewinding' \in AnyRewind
  <2>1. rw.asked \in Seq(WsChanges)
    BY DEF AnyRewind
  <2>2. QED
    BY <1>4, <1>7, <2>1 DEF AnyRewind
<1>9. Unlogged' <=> Unlogged
  BY <1>1 DEF Unlogged, AtStep
<1>10. QED
  BY <1>1, <1>8, <1>9, JournalRest

\* What the journal tells of, it tells of among more.
LEMMA StillTold ==
  ASSUME JournalInv, NEW ds, NEW k \in Nat, Below <= k,
         \A i \in 1..Below : ds[i].path = changes[i].path /\ ds[i].turn = changes[i].turn /\ ds[i].prior = changes[i].prior
  PROVE  /\ Told(records, ds, k) /\ Holds(journalDisk, ds, k)
         /\ open => journalDisk # <<>> /\ Holds(Front(journalDisk), ds, k)
<1>1. PICK m \in Nat : m = Below
  BY BelowTyped
<1>2. PICK rs \in Seq(WsRecs) : rs = records
  BY DEF JournalInv, JournalTypes
<1>3. PICK lines \in Seq(WsLines) : lines = journalDisk
  BY DEF JournalInv, JournalTypes
<1>4. Told(rs, changes, m) /\ Holds(lines, changes, m)
  BY <1>1, <1>2, <1>3 DEF JournalInv, JournalFits
<1>5. Told(rs, ds, k)
  BY <1>1, <1>4, ToldMore
<1>6. Holds(lines, ds, k)
  BY <1>1, <1>4, HoldsMore
<1>7. ASSUME open PROVE journalDisk # <<>> /\ Holds(Front(journalDisk), ds, k)
  <2>1. lines # <<>> /\ Holds(Front(lines), changes, m)
    BY <1>1, <1>3, <1>7 DEF JournalInv, JournalFits
  <2>2. PICK fr \in Seq(WsLines) : fr = Front(lines)
    BY <2>1, Fronts
  <2>3. Holds(fr, changes, m)
    BY <2>1, <2>2
  <2>4. Holds(fr, ds, k)
    BY <1>1, <2>3, HoldsMore
  <2>5. QED
    BY <1>3, <2>1, <2>2, <2>4
<1>8. QED
  BY <1>2, <1>3, <1>5, <1>6, <1>7

LEMMA JournalPersist == ASSUME JournalInv, FilesInv, Persist PROVE JournalInv'
<1>1. fileCall # NoCall /\ fileCall.step = "persist" /\ UNCHANGED <<records, turn, journalDisk, open, rewinding, process>>
  BY DEF Persist, journal
<1>2. fileCall \in [tool : Mutators, path : Files, step : {"persist", "register", "record"},
                    old : Text \cup {Absent}, new : Text]
  BY <1>1, CallTyped DEF FilesInv
<1>3. PICK f \in Files : f = fileCall.path
  BY <1>2
<1>4. fileCall.old = IF files[f] = Raw THEN Absent ELSE files[f]
  BY <1>1, <1>3 DEF FilesInv, CallFits, AtStep
<1>5. files[f] \in FileContents /\ turn \in Nat
  BY DEF FilesInv, FileTypes, JournalInv, JournalTypes
<1>6. PICK c \in WsChanges : c = [path |-> f, prior |-> files[f], turn |-> turn, logged |-> FALSE]
  BY <1>5 DEF WsChanges
<1>7. c.path = f /\ c.prior = files[f] /\ c.turn = turn
  BY <1>6
<1>8. changes' = Append(changes, c) /\ changes \in Seq(WsChanges)
  BY <1>3, <1>6 DEF Persist, JournalInv, JournalTypes
<1>9. PICK ds \in Seq(WsChanges) : ds = changes'
  BY <1>8, Appended
<1>10. /\ Len(ds) = Len(changes) + 1 /\ Len(changes) \in Nat /\ ds[Len(ds)] = c /\ ds # <<>>
       /\ \A i \in 1..Len(changes) : ds[i] = changes[i]
  <2>1. /\ Len(ds) = Len(changes) + 1 /\ Len(changes) \in Nat /\ ds[Len(changes) + 1] = c
        /\ \A i \in 1..Len(changes) : ds[i] = changes[i]
    BY <1>8, <1>9, Appended
  <2>2. QED
    BY <1>8, <1>9, <2>1, AppendProperties
<1>11. ~Unlogged /\ Below = Len(changes)
  BY <1>1 DEF Unlogged, AtStep, Below
<1>12. fileCall'.step = "register" /\ fileCall'.path = f /\ fileCall'.old = fileCall.old /\ fileCall'.tool = fileCall.tool
  BY <1>2, <1>3 DEF Persist
<1>13. Unlogged'
  BY <1>2, <1>12 DEF Unlogged, AtStep, NoCall, Mutators
<1>14. Below' = Len(changes)
  BY <1>9, <1>10, <1>13 DEF Below
<1>15. /\ Told(records, ds, Len(changes)) /\ Holds(journalDisk, ds, Len(changes))
       /\ open => journalDisk # <<>> /\ Holds(Front(journalDisk), ds, Len(changes))
  BY <1>10, <1>11, StillTold
<1>16. JournalTypes'
  BY <1>1, <1>9 DEF JournalInv, JournalTypes
<1>17. changes' # <<>> /\ changes'[Len(changes')].path = fileCall'.path /\ changes'[Len(changes')].turn = turn'
       /\ fileCall'.old = IF changes'[Len(changes')].prior = Raw THEN Absent ELSE changes'[Len(changes')].prior
  BY <1>1, <1>4, <1>7, <1>9, <1>10, <1>12
<1>18. JournalFits'
  BY <1>1, <1>9, <1>14, <1>15, <1>17 DEF JournalInv, JournalFits
<1>19. QED
  BY <1>16, <1>18 DEF JournalInv

\* The record made of the call in progress tells of the call's mutation, the last one.
LEMMA NewTells ==
  ASSUME JournalInv, FilesInv, fileCall # NoCall, fileCall.step = "record", NEW cas \in BOOLEAN
  PROVE  /\ NewRecord(cas) \in WsRecs /\ NewRecord(cas).turn = turn
         /\ TellsOf(NewRecord(cas), changes[Below + 1])
         /\ Below + 1 = Len(changes) /\ Below \in Nat /\ changes # <<>>
<1>1. Unlogged
  BY DEF Unlogged, AtStep
<1>2. fileCall.path \in Files /\ fileCall.old \in Text \cup {Absent} /\ turn \in Nat
  BY CallTyped DEF FilesInv, JournalInv, JournalTypes
<1>3. Below + 1 = Len(changes) /\ Below \in Nat
  BY <1>1, BelowTyped
<1>4. PICK r \in WsRecs : r = NewRecord(cas) /\ r.path = fileCall.path /\ r.prior = fileCall.old /\ r.turn = turn
  <2>1. PICK p \in Files : p = fileCall.path
    BY <1>2
  <2>2. PICK o \in Text \cup {Absent} : o = fileCall.old
    BY <1>2
  <2>3. NewRecord(cas) = [path |-> p, prior |-> o, turn |-> turn, cas |-> cas]
    BY <2>1, <2>2 DEF NewRecord
  <2>4. QED
    BY <1>2, <2>1, <2>2, <2>3 DEF WsRecs
<1>5. TellsOf(r, changes[Len(changes)]) /\ changes # <<>>
  BY <1>1, <1>4 DEF JournalInv, JournalFits, TellsOf
<1>6. QED
  BY <1>3, <1>4, <1>5

\* What a restart reads has turns that the process has reached.
LEMMA ReadTurn ==
  ASSUME JournalInv, process # "down"
  PROVE  /\ Reread(journalDisk) \in Reading /\ journalDisk \in Seq(WsLines) /\ turn \in Nat
         /\ Reread(journalDisk).over \/ Reread(journalDisk).turn <= turn
<1>1. Garbled \in WsLines /\ journalDisk \in Seq(WsLines) /\ turn \in Nat
  BY DEF WsLines, JournalInv, JournalTypes
<1>2. Reread(journalDisk) \in Reading
  BY <1>1, RereadNext
<1>3. QED
  BY <1>1, <1>2 DEF JournalInv, JournalFits

LEMMA JournalRecord == ASSUME JournalInv, FilesInv, NEW cas \in BOOLEAN, record(cas) PROVE JournalInv'
<1>1. fileCall # NoCall /\ fileCall.step = "record" /\ UNCHANGED <<turn, rewinding, process>> /\ fileCall' = NoCall
  BY DEF record
<1>2. process = "turn"
  BY <1>1 DEF FilesInv, CallFits
<1>3. PICK r \in WsRecs : r = NewRecord(cas) /\ r.turn = turn
  BY <1>1, NewTells
<1>4. PICK m \in Nat : m = Below /\ m + 1 = Len(changes)
  BY <1>1, NewTells
<1>5. TellsOf(r, changes[m + 1]) /\ changes # <<>> /\ changes \in Seq(WsChanges)
  BY <1>1, <1>3, <1>4, NewTells DEF JournalInv, JournalTypes
<1>6. PICK ds \in Seq(WsChanges) : ds = changes' /\ Len(ds) = m + 1
            /\ \A i \in 1..(m + 1) : ds[i].path = changes[i].path /\ ds[i].turn = changes[i].turn /\ ds[i].prior = changes[i].prior
  <2>1. PICK b \in BOOLEAN : b = (fileCall.old # Absent => cas)
    OBVIOUS
  <2>2. changes' = [changes EXCEPT ![m + 1].logged = b]
    BY <1>4, <2>1 DEF record
  <2>3. \A i \in 1..(m + 1) : changes[i] \in WsChanges
    BY <1>4, <1>5, ElementOfSeq
  <2>4. [changes EXCEPT ![m + 1].logged = b] \in Seq(WsChanges) /\ Len([changes EXCEPT ![m + 1].logged = b]) = m + 1
    <3>1. [changes[m + 1] EXCEPT !.logged = b] \in WsChanges
      <4>1. m + 1 \in 1..(m + 1)
        OBVIOUS
      <4>2. QED
        BY <2>3, <4>1 DEF WsChanges
    <3>2. QED
      BY <1>4, <1>5, <3>1
  <2>5. \A i \in 1..(m + 1) : /\ [changes EXCEPT ![m + 1].logged = b][i].path = changes[i].path
                              /\ [changes EXCEPT ![m + 1].logged = b][i].turn = changes[i].turn
                              /\ [changes EXCEPT ![m + 1].logged = b][i].prior = changes[i].prior
    BY <1>4, <1>5, <2>3 DEF WsChanges
  <2>6. QED
    BY <2>2, <2>4, <2>5
<1>7. /\ Told(records, ds, m) /\ Holds(journalDisk, ds, m)
      /\ open => journalDisk # <<>> /\ Holds(Front(journalDisk), ds, m)
  BY <1>4, <1>6, StillTold
<1>8. TellsOf(r, ds[m + 1])
  <2>1. m + 1 \in 1..(m + 1)
    OBVIOUS
  <2>2. QED
    BY <1>5, <1>6, <2>1 DEF TellsOf
<1>9. PICK rs \in Seq(WsRecs) : rs = records
  BY DEF JournalInv, JournalTypes
<1>10. records' = Append(rs, r) /\ Append(rs, r) \in Seq(WsRecs)
  BY <1>3, <1>9, Appended DEF record
<1>11. Told(Append(rs, r), ds, m + 1)
  BY <1>7, <1>8, <1>9, ToldOne
<1>12. turn \in Nat /\ InTurns(rs, turn)
  BY <1>9 DEF JournalInv, JournalTypes, JournalFits
<1>13. InTurns(Append(rs, r), turn)
  BY <1>3, <1>12, InTurnsOne
<1>14. PICK lines \in Seq(WsLines) : lines = journalDisk /\ (Reread(lines).over \/ Reread(lines).turn <= r.turn)
  BY <1>2, <1>3, ReadTurn
<1>15. /\ Holds(Append(lines, ChangeEntry(r)), ds, m + 1)
       /\ ~Reread(Append(lines, ChangeEntry(r))).over => Reread(Append(lines, ChangeEntry(r))).turn = r.turn
  BY <1>7, <1>8, <1>14, HoldsNext
<1>16. PICK entry \in WsLines : entry = ChangeEntry(r)
  BY DEF WsLines
<1>17. journalDisk' = append_durable(entry) /\ ~open'
  BY <1>3, <1>16 DEF record
<1>18. PICK disk : disk = append_durable(entry)
  OBVIOUS
<1>19. /\ disk \in Seq(WsLines) /\ Holds(disk, ds, m + 1)
       /\ ~Reread(disk).over => disk = Append(journalDisk, entry)
  <2>1. JournalTypes /\ m + 1 \in Nat /\ m <= m + 1 /\ Holds(Append(journalDisk, entry), ds, m + 1)
    BY <1>14, <1>15, <1>16 DEF JournalInv
  <2>2. QED
    BY <1>7, <1>18, <2>1, Appending
<1>20. ~Unlogged' /\ Below' = m + 1
  BY <1>1, <1>6 DEF Unlogged, AtStep, Below
<1>21. JournalTypes'
  BY <1>1, <1>6, <1>10, <1>17, <1>18, <1>19 DEF JournalInv, JournalTypes, record
<1>22. ~Reread(disk).over => Reread(disk).turn <= turn
  <2>1. ASSUME ~Reread(disk).over PROVE Reread(disk).turn = turn
    <3>1. disk = Append(lines, ChangeEntry(r))
      BY <1>14, <1>16, <1>19, <2>1
    <3>2. ~Reread(Append(lines, ChangeEntry(r))).over
      BY <2>1, <3>1, Zenon
    <3>3. Reread(Append(lines, ChangeEntry(r))).turn = r.turn
      BY <1>15, <3>2, Zenon
    <3>4. QED
      BY <1>3, <3>1, <3>3, Zenon
  <2>2. QED
    BY <1>12, <2>1
<1>23. JournalFits'
  BY <1>1, <1>6, <1>10, <1>11, <1>13, <1>17, <1>18, <1>19, <1>20, <1>22 DEF JournalFits
<1>24. QED
  BY <1>21, <1>23 DEF JournalInv

LEMMA JournalTurn == ASSUME JournalInv, FilesInv, advance_turn PROVE JournalInv'
<1>1. /\ process = "idle" /\ turn' = turn + 1 /\ journalDisk' = append_durable(TurnEntry(turn + 1)) /\ ~open'
      /\ open' \in BOOLEAN /\ rewinding' = NoRewind /\ UNCHANGED <<records, fileCall, changes>>
  BY DEF advance_turn, Idle
<1>2. fileCall = NoCall
  BY <1>1 DEF FilesInv, CallFits
<1>3. ~Unlogged /\ ~Unlogged' /\ Below' = Below
  BY <1>1, <1>2 DEF Unlogged, AtStep, Below
<1>4. PICK m \in Nat : m = Below
  BY BelowTyped
<1>5. PICK lines \in Seq(WsLines) : lines = journalDisk /\ (Reread(lines).over \/ Reread(lines).turn <= turn + 1)
  <2>1. /\ Reread(journalDisk) \in Reading /\ journalDisk \in Seq(WsLines) /\ turn \in Nat
        /\ Reread(journalDisk).over \/ Reread(journalDisk).turn <= turn
    BY <1>1, ReadTurn
  <2>2. Reread(journalDisk).turn \in Nat
    BY <2>1 DEF Reading
  <2>3. QED
    BY <2>1, <2>2
<1>6. Holds(lines, changes, m) /\ Told(records, changes, m) /\ InTurns(records, turn)
      /\ (open => lines # <<>> /\ Holds(Front(lines), changes, m))
  BY <1>4, <1>5 DEF JournalInv, JournalFits
<1>7. turn + 1 \in Nat /\ turn \in Nat
  BY DEF JournalInv, JournalTypes
<1>8. /\ Holds(Append(lines, TurnEntry(turn + 1)), changes, m)
      /\ ~Reread(Append(lines, TurnEntry(turn + 1))).over => Reread(Append(lines, TurnEntry(turn + 1))).turn = turn + 1
  BY <1>5, <1>6, <1>7, HoldsNext
<1>9. PICK entry \in WsLines : entry = TurnEntry(turn + 1)
  BY <1>7 DEF WsLines
<1>10. PICK disk : disk = append_durable(entry)
  OBVIOUS
<1>11. disk \in Seq(WsLines) /\ Holds(disk, changes, m) /\ (~Reread(disk).over => disk = Append(journalDisk, entry))
  <2>1. JournalTypes /\ m <= m /\ Holds(Append(journalDisk, entry), changes, m)
    BY <1>5, <1>8, <1>9 DEF JournalInv
  <2>2. QED
    BY <1>5, <1>6, <1>10, <2>1, Appending
<1>12. journalDisk' = disk
  BY <1>1, <1>9, <1>10
<1>13. NoRewind \in AnyRewind
  <2>1. \A S : <<>> \in Seq(S)
    OBVIOUS
  <2>2. QED
    BY <2>1 DEF NoRewind, AnyRewind
<1>14. JournalTypes'
  BY <1>1, <1>7, <1>11, <1>12, <1>13 DEF JournalInv, JournalTypes, AnyRewind
<1>15. InTurns(records, turn + 1)
  <2>1. \A x \in WsRecs : x.turn \in Nat
    BY DEF WsRecs
  <2>2. \A i \in 1..Len(records) : records[i].turn \in Nat
    BY <2>1, ElementOfSeq DEF JournalInv, JournalTypes
  <2>3. QED
    BY <1>6, <1>7, <2>2 DEF InTurns
<1>16. ~Reread(disk).over => Reread(disk).turn <= turn + 1
  <2>1. ASSUME ~Reread(disk).over PROVE Reread(disk).turn = turn + 1
    <3>1. disk = Append(lines, TurnEntry(turn + 1))
      BY <1>5, <1>9, <1>11, <2>1
    <3>2. ~Reread(Append(lines, TurnEntry(turn + 1))).over
      BY <2>1, <3>1, Zenon
    <3>3. Reread(Append(lines, TurnEntry(turn + 1))).turn = turn + 1
      BY <1>8, <3>2, Zenon
    <3>4. QED
      BY <3>1, <3>3, Zenon
  <2>2. QED
    BY <1>7, <2>1
<1>17. JournalFits'
  BY <1>1, <1>3, <1>4, <1>6, <1>11, <1>12, <1>15, <1>16 DEF JournalFits
<1>18. QED
  BY <1>14, <1>17 DEF JournalInv

\* What /rewind keeps and what it takes, of records or of mutations.
LEMMA Parted ==
  ASSUME NEW T, NEW s \in Seq(T), NEW n
  PROVE  /\ Kept(s, n) \in Seq(T) /\ \E h : Picks(h, Kept(s, n), s, {r \in Range(s) : r.turn <= turn - n}, Len(s))
         /\ Window(s, n) \in Seq(T) /\ Len(Kept(s, n)) <= Len(s)
<1>1. Kept(s, n) \in Seq(T) /\ \E h : Picks(h, Kept(s, n), s, {r \in Range(s) : r.turn <= turn - n}, Len(s))
  <2>1. PICK S : S = {r \in Range(s) : r.turn <= turn - n}
    OBVIOUS
  <2>2. Those(s, S) \in Seq(T) /\ \E h : Picks(h, Those(s, S), s, S, Len(s))
    BY ThoseAre
  <2>3. Kept(s, n) = Those(s, S)
    BY <2>1 DEF Kept
  <2>4. QED
    BY <2>1, <2>2, <2>3
<1>2. Window(s, n) \in Seq(T)
  <2>1. PICK S : S = {r \in Range(s) : r.turn > turn - n}
    OBVIOUS
  <2>2. Those(s, S) \in Seq(T)
    BY ThoseAre
  <2>3. Window(s, n) = Those(s, S)
    BY <2>1 DEF Window
  <2>4. QED
    BY <2>2, <2>3
<1>3. Len(Kept(s, n)) <= Len(s)
  BY <1>1, PicksFewer
<1>4. QED
  BY <1>1, <1>2, <1>3

LEMMA Reversed == ASSUME NEW T, NEW s \in Seq(T) PROVE Reverse(s) \in Seq(T)
<1>1. Len(s) \in Nat /\ \A i \in 1..Len(s) : s[i] \in T
  BY ElementOfSeq
<1>2. \A i \in 1..Len(s) : (Len(s) - i) + 1 \in 1..Len(s)
  BY <1>1
<1>3. [i \in 1..Len(s) |-> s[(Len(s) - i) + 1]] \in Seq(T)
  BY <1>1, <1>2
<1>4. QED
  BY <1>3 DEF Reverse

LEMMA JournalRewind == ASSUME JournalInv, FilesInv, NEW n \in Nat \ {0}, rewind(n) PROVE JournalInv'
<1>1. /\ process = "idle" /\ records' = Kept(records, n) /\ turn' = (IF n < turn THEN turn - n ELSE 0) /\ open' = FALSE
      /\ journalDisk' = <<TurnEntry(turn')>> \o [i \in DOMAIN records' |-> ChangeEntry(records'[i])]
      /\ changes' = Kept(changes, n) /\ UNCHANGED fileCall
  BY DEF rewind, Idle
<1>2. fileCall = NoCall /\ fileCall' = NoCall
  BY <1>1 DEF FilesInv, CallFits
<1>3. ~Unlogged /\ ~Unlogged' /\ Below = Len(changes) /\ Below' = Len(changes')
  BY <1>2 DEF Unlogged, AtStep, Below
<1>4. turn \in Nat /\ turn' \in Nat
  BY <1>1 DEF JournalInv, JournalTypes
<1>5. PICK rs \in Seq(WsRecs) : rs = records
  BY DEF JournalInv, JournalTypes
<1>6. PICK cs \in Seq(WsChanges) : cs = changes
  BY DEF JournalInv, JournalTypes
<1>7. Told(rs, cs, Len(cs)) /\ InTurns(rs, turn)
  BY <1>3, <1>5, <1>6 DEF JournalInv, JournalFits
<1> DEFINE R == {r \in Range(rs) : r.turn <= turn - n}
           C == {c \in Range(cs) : c.turn <= turn - n}
<1>8. PICK ro \in Seq(WsRecs) : ro = records' /\ \E h : Picks(h, ro, rs, R, Len(rs))
  <2>1. Kept(rs, n) \in Seq(WsRecs) /\ \E h : Picks(h, Kept(rs, n), rs, R, Len(rs))
    BY Parted
  <2>2. QED
    BY <1>1, <1>5, <2>1
<1>9. PICK co \in Seq(WsChanges) : co = changes' /\ \E h : Picks(h, co, cs, C, Len(cs))
  <2>1. Kept(cs, n) \in Seq(WsChanges) /\ \E h : Picks(h, Kept(cs, n), cs, C, Len(cs))
    BY Parted
  <2>2. QED
    BY <1>1, <1>6, <2>1
<1>10. PICK hr : Picks(hr, ro, rs, R, Len(rs))
  BY <1>8
<1>11. PICK hc : Picks(hc, co, cs, C, Len(cs))
  BY <1>9
<1>12. \A i \in 1..Len(rs), j \in 1..Len(cs) : rs[i] \in R /\ rs[i].turn = cs[j].turn => cs[j] \in C
  BY DEF Range
<1>13. \A i \in 1..Len(ro) : ro[i].turn <= turn'
  <2>1. ASSUME NEW i \in 1..Len(ro) PROVE ro[i].turn <= turn'
    <3>1. ro[i].turn <= turn - n
      BY <1>10 DEF Picks
    <3>2. ro[i].turn \in Nat
      <4>1. \A x \in WsRecs : x.turn \in Nat
        BY DEF WsRecs
      <4>2. QED
        BY <4>1, ElementOfSeq
    <3>3. QED
      BY <1>1, <1>4, <3>1, <3>2
  <2>2. QED
    BY <2>1
<1> HIDE DEF R, C
<1>14. Told(ro, co, Len(co))
  BY <1>7, <1>10, <1>11, <1>12, ToldKept
<1>15. InTurns(ro, turn')
  <2>1. Len(cs) \in Nat
    OBVIOUS
  <2>2. InTurns(ro, turn)
    BY <1>7, <1>10, <2>1, ToldPicked
  <2>3. QED
    BY <1>13, <2>2 DEF InTurns
<1>16. PICK t \in Nat : t = turn'
  BY <1>4
<1>17. PICK disk : disk = <<TurnEntry(t)>> \o [i \in DOMAIN ro |-> ChangeEntry(ro[i])]
  OBVIOUS
<1>18. journalDisk' = disk
  BY <1>1, <1>8, <1>16, <1>17
<1>19. /\ disk \in Seq(WsLines) /\ Reread(disk) \in Reading /\ Reread(disk).turn = t
       /\ \E h : Picks(h, Reread(disk).records, ro, Saved, Len(ro))
  BY <1>13, <1>16, <1>17, Rewritten
<1>20. Holds(disk, co, Len(co))
  <2>1. PICK out \in Seq(WsRecs) : out = Reread(disk).records
    BY <1>19 DEF Reading
  <2>2. PICK h : Picks(h, out, ro, Saved, Len(ro))
    BY <1>19, <2>1
  <2>3. Len(co) \in Nat
    OBVIOUS
  <2>4. Told(out, co, Len(co)) /\ InTurns(out, t)
    BY <1>14, <1>15, <1>16, <2>2, <2>3, ToldPicked
  <2>5. QED
    BY <1>19, <2>1, <2>4 DEF Holds
<1>21. rewinding' \in AnyRewind
  <2>1. Window(rs, n) \in Seq(WsRecs) /\ Window(cs, n) \in Seq(WsChanges)
    BY Parted
  <2>2. PICK a \in Seq(WsRecs) : a = Reverse(Window(records, n))
    BY <1>5, <2>1, Reversed
  <2>3. PICK b \in Seq(WsChanges) : b = Window(changes, n)
    BY <1>6, <2>1
  <2>4. rewinding' = [todo |-> a, restored |-> <<>>, asked |-> b]
    BY <2>2, <2>3 DEF rewind
  <2>5. <<>> \in Seq(Files)
    OBVIOUS
  <2>6. QED
    BY <2>4, <2>5 DEF AnyRewind
<1>22. JournalTypes'
  BY <1>1, <1>4, <1>8, <1>9, <1>18, <1>19, <1>21 DEF JournalTypes, AnyRewind
<1>23. JournalFits'
  <2>1. Told(records', changes', Below') /\ InTurns(records', turn') /\ Holds(journalDisk', changes', Below')
    BY <1>3, <1>8, <1>9, <1>14, <1>15, <1>18, <1>20
  <2>2. Reread(journalDisk').turn <= turn'
    BY <1>16, <1>18, <1>19
  <2>3. ~open'
    BY <1>1
  <2>4. QED
    BY <1>3, <2>1, <2>2, <2>3 DEF JournalFits
<1>24. QED
  BY <1>22, <1>23 DEF JournalInv

\* A journal that a dead process left.
LEMMA LeftBehind ==
  ASSUME JournalInv, Down, JournalTypes',
         Holds(journalDisk', changes, Len(changes)),
         open' => journalDisk' # <<>> /\ Holds(Front(journalDisk'), changes, Len(changes))
  PROVE  JournalInv'
<1>1. fileCall' = NoCall /\ records' = <<>> /\ turn' = 0 /\ process' = "down" /\ UNCHANGED changes
  BY DEF Down
<1>2. ~Unlogged' /\ Below' = Len(changes)
  BY <1>1 DEF Unlogged, AtStep, Below
<1>3. Told(<<>>, changes, Len(changes)) /\ InTurns(<<>>, 0)
  BY ToldNone
<1>4. JournalFits'
  BY <1>1, <1>2, <1>3 DEF JournalFits
<1>5. QED
  BY <1>4 DEF JournalInv

LEMMA DownTypes ==
  ASSUME JournalInv, Down, journalDisk' \in Seq(WsLines), open' \in BOOLEAN
  PROVE  JournalTypes'
<1>1. \A S : <<>> \in Seq(S)
  OBVIOUS
<1>2. NoRewind \in AnyRewind
  BY <1>1 DEF NoRewind, AnyRewind
<1>3. QED
  BY <1>1, <1>2 DEF Down, JournalInv, JournalTypes, AnyRewind

LEMMA JournalCrash == ASSUME JournalInv, Crash PROVE JournalInv'
<1>1. Down /\ UNCHANGED <<journalDisk, open>>
  BY DEF Crash
<1>2. JournalTypes'
  <2>1. journalDisk' \in Seq(WsLines) /\ open' \in BOOLEAN
    BY <1>1 DEF JournalInv, JournalTypes
  <2>2. QED
    BY <1>1, <2>1, DownTypes
<1>3. /\ Holds(journalDisk, changes, Len(changes))
      /\ open => journalDisk # <<>> /\ Holds(Front(journalDisk), changes, Len(changes))
  <2>1. Len(changes) \in Nat /\ Below <= Len(changes)
    BY BelowTyped
  <2>2. QED
    BY <2>1, StillTold
<1>4. QED
  BY <1>1, <1>2, <1>3, LeftBehind

LEMMA JournalCrashAppending == ASSUME JournalInv, FilesInv, NEW part \in BOOLEAN, CrashAppending(part) PROVE JournalInv'
<1> DEFINE entry == IF fileCall = NoCall THEN TurnEntry(turn + 1) ELSE ChangeEntry(NewRecord(fileCall.old # Absent))
<1>1. /\ Down /\ journalDisk' = append_durable(IF part THEN Garbled ELSE entry) /\ open' = TRUE
      /\ Idle \/ (fileCall # NoCall /\ fileCall.step = "record")
  BY DEF CrashAppending
<1>2. PICK m \in Nat : m = Below
  BY BelowTyped
<1>3. PICK k \in Nat : k = Len(changes) /\ m <= k
  BY <1>2, BelowTyped
<1>4. PICK lines \in Seq(WsLines) : lines = journalDisk
  BY DEF JournalInv, JournalTypes
<1>5. Holds(lines, changes, m) /\ (open => lines # <<>> /\ Holds(Front(lines), changes, m)) /\ Holds(lines, changes, k)
  <2>1. Holds(lines, changes, m) /\ (open => lines # <<>> /\ Holds(Front(lines), changes, m))
    BY <1>2, <1>4 DEF JournalInv, JournalFits
  <2>2. QED
    BY <1>3, <2>1, HoldsMore
<1>6. process # "down"
  BY <1>1 DEF Down
<1>7. Holds(Append(lines, Garbled), changes, k) /\ Garbled \in WsLines
  BY <1>5, HoldsNext DEF WsLines
<1>8. Holds(Append(lines, entry), changes, k) /\ entry \in WsLines
  <2>1. CASE fileCall = NoCall
    <3>1. entry = TurnEntry(turn + 1) /\ turn + 1 \in Nat
      BY <2>1 DEF JournalInv, JournalTypes
    <3>2. Reread(lines).over \/ Reread(lines).turn <= turn + 1
      <4>1. /\ Reread(journalDisk) \in Reading /\ turn \in Nat
            /\ Reread(journalDisk).over \/ Reread(journalDisk).turn <= turn
        BY <1>6, ReadTurn
      <4>2. Reread(journalDisk).turn \in Nat
        BY <4>1 DEF Reading
      <4>3. QED
        BY <1>4, <4>1, <4>2
    <3> HIDE DEF entry
    <3>3. Holds(Append(lines, TurnEntry(turn + 1)), changes, k) /\ TurnEntry(turn + 1) \in WsLines
      BY <1>5, <3>1, <3>2, HoldsNext DEF WsLines
    <3>4. QED
      BY <3>1, <3>3
  <2>2. CASE fileCall # NoCall
    <3>1. fileCall.step = "record"
      BY <1>1, <2>2 DEF Idle, FilesInv, CallFits
    <3>2. PICK cas \in BOOLEAN : cas = (fileCall.old # Absent)
      OBVIOUS
    <3>3. entry = ChangeEntry(NewRecord(cas))
      BY <2>2, <3>2
    <3>4. PICK r \in WsRecs : r = NewRecord(cas) /\ r.turn = turn
      BY <2>2, <3>1, NewTells
    <3>5. TellsOf(r, changes[m + 1]) /\ m + 1 = k
      BY <1>2, <1>3, <2>2, <3>1, <3>4, NewTells
    <3>6. Reread(lines).over \/ Reread(lines).turn <= r.turn
      BY <1>4, <1>6, <3>4, ReadTurn
    <3> HIDE DEF entry
    <3>7. Holds(Append(lines, ChangeEntry(r)), changes, m + 1) /\ ChangeEntry(r) \in WsLines
      BY <1>5, <3>5, <3>6, HoldsNext DEF WsLines
    <3>8. QED
      BY <3>3, <3>4, <3>5, <3>7
  <2>3. QED
    BY <2>1, <2>2
<1> HIDE DEF entry
<1>9. PICK l \in WsLines : l = (IF part THEN Garbled ELSE entry) /\ Holds(Append(lines, l), changes, k)
  BY <1>7, <1>8
<1>10. PICK disk : disk = append_durable(l)
  OBVIOUS
<1>11. disk \in Seq(WsLines) /\ disk # <<>> /\ Holds(disk, changes, k) /\ Holds(Front(disk), changes, k)
  <2>1. JournalTypes
    BY DEF JournalInv
  <2>2. QED
    BY <1>3, <1>4, <1>5, <1>9, <1>10, <2>1, Appending
<1>12. journalDisk' = disk
  BY <1>1, <1>9, <1>10
<1>13. JournalTypes'
  BY <1>1, <1>11, <1>12, DownTypes
<1>14. QED
  BY <1>1, <1>3, <1>11, <1>12, <1>13, LeftBehind

LEMMA JournalDurable == ASSUME JournalInv, FilesInv, durable PROVE JournalInv'
<1>1. /\ process = "down" /\ records' = Reread(journalDisk).records /\ turn' = Reread(journalDisk).turn
      /\ UNCHANGED <<journalDisk, open, changes, rewinding, fileCall>>
  BY DEF durable
<1>2. fileCall = NoCall
  BY <1>1 DEF FilesInv, CallFits
<1>3. ~Unlogged /\ ~Unlogged' /\ Below' = Below
  BY <1>1, <1>2 DEF Unlogged, AtStep, Below
<1>4. PICK p \in Reading : p = Reread(journalDisk)
  <2>1. Garbled \in WsLines /\ journalDisk \in Seq(WsLines)
    BY DEF WsLines, JournalInv, JournalTypes
  <2>2. QED
    BY <2>1, RereadNext
<1>5. p.records \in Seq(WsRecs) /\ p.turn \in Nat
  BY DEF Reading
<1>6. JournalTypes'
  BY <1>1, <1>4, <1>5 DEF JournalInv, JournalTypes
<1>7. Holds(journalDisk, changes, Below)
  BY DEF JournalInv, JournalFits
<1>8. Told(records', changes, Below) /\ InTurns(records', turn')
  BY <1>1, <1>7 DEF Holds
<1>9. JournalFits'
  BY <1>1, <1>3, <1>4, <1>5, <1>8 DEF JournalInv, JournalFits
<1>10. QED
  BY <1>6, <1>9 DEF JournalInv

WsInv == FilesInv /\ JournalInv

LEMMA WsSteps == ASSUME WsInv, ~ExternalDuringCalls, [WsNext]_wsVars PROVE WsInv'
<1> USE DEF WsInv
<1>1. FilesInv'
  BY FilesSteps DEF JournalInv
<1>2. CASE UNCHANGED wsVars
  <2>1. UNCHANGED <<records, turn, journalDisk, open, changes, rewinding, process, fileCall>>
    BY <1>2 DEF wsVars, journal
  <2>2. rewinding' \in AnyRewind
    BY <2>1 DEF JournalInv, JournalTypes, AnyRewind
  <2>3. Unlogged' <=> Unlogged
    BY <2>1 DEF Unlogged, AtStep
  <2>4. QED
    BY <1>1, <2>1, <2>2, <2>3, JournalRest
<1>3. CASE \/ \E f \in Files, data \in FileContents : External(f, data)
           \/ \E f \in Files : ReadBytes(f) \/ \E tool \in Mutators : Check(tool, f)
           \/ ReadRecord \/ (\E new \in Text : Load(new)) \/ CallFails \/ Register \/ TurnEnds
  BY <1>1, <1>3, QuietSteps
<1>4. CASE Persist \/ advance_turn \/ \E cas \in BOOLEAN : record(cas)
  BY <1>1, <1>4, JournalPersist, JournalTurn, JournalRecord
<1>5. CASE \E n \in 1..(MaxTurn + 1) : rewind(n)
  <2>1. \A n \in 1..(MaxTurn + 1) : n \in Nat \ {0}
    BY WorkspaceAssumption
  <2>2. QED
    BY <1>1, <1>5, <2>1, JournalRewind
<1>6. CASE \E ok \in BOOLEAN : Restore(ok)
  BY <1>1, <1>6, JournalRestore
<1>7. CASE Crash \/ (\E part \in BOOLEAN : CrashAppending(part)) \/ durable
  BY <1>1, <1>7, JournalCrash, JournalCrashAppending, JournalDurable
<1>8. QED
  BY <1>2, <1>3, <1>4, <1>5, <1>6, <1>7 DEF WsNext, Mutators

LEMMA TellsFaithfully == ASSUME WsInv PROVE RecordsFaithful
<1>1. Told(records, changes, Below) /\ InTurns(records, turn) /\ records \in Seq(WsRecs) /\ changes \in Seq(WsChanges)
  BY DEF WsInv, JournalInv, JournalFits, JournalTypes
<1>2. Below \in Nat /\ Len(changes) \in Nat /\ Below <= Len(changes)
  BY BelowTyped DEF WsInv
<1>3. PICK rs \in Seq(WsRecs) : rs = records
  BY <1>1
<1>4. Told(rs, changes, Len(changes))
  BY <1>1, <1>2, <1>3, ToldMore
<1>5. PICK e : Tells(e, rs, changes, Len(changes))
  BY <1>4 DEF Told
<1>6. DOMAIN records = 1..Len(rs) /\ DOMAIN changes = 1..Len(changes)
  BY <1>1, <1>3
<1>7. /\ e \in [DOMAIN records -> DOMAIN changes]
      /\ \A i, j \in DOMAIN records : i < j => e[i] < e[j]
      /\ \A i \in DOMAIN records : TellsOf(records[i], changes[e[i]])
  BY <1>3, <1>5, <1>6 DEF Tells
<1>8. \A i, j \in DOMAIN records : i < j => records[i].turn <= records[j].turn
  BY <1>1, <1>3, <1>6 DEF InTurns
<1>9. QED
  BY <1>7, <1>8 DEF RecordsFaithful, TellsOf

\* However the process dies, the journal names real mutations, in the order they were made, with the
\* text each replaced (ChangeJournal::durable, append_durable and rewind), for any number of files,
\* turns, lines and crashes.
THEOREM RecordsFaithfulAlways == ~ExternalDuringCalls => (WsSpec => []RecordsFaithful)
<1> SUFFICES ASSUME ~ExternalDuringCalls PROVE WsSpec => []RecordsFaithful
  OBVIOUS
<1>1. WsInit => WsInv
  BY FilesStart, JournalStart DEF WsInv
<1>2. WsInv /\ [WsNext]_wsVars => WsInv'
  BY WsSteps
<1>3. WsInv => RecordsFaithful
  BY TellsFaithfully
<1>4. QED
  BY <1>1, <1>2, <1>3, PTL DEF WsSpec

\* Only a call's write lengthens the list of mutations.
LEMMA OnlyPersistMutates ==
  ASSUME WsInv, [WsNext]_wsVars, Len(changes') = Len(changes) + 1
  PROVE  Persist
<1>1. Len(changes) \in Nat /\ changes \in Seq(WsChanges)
  BY DEF WsInv, JournalInv, JournalTypes
<1>2. changes' # changes
  BY <1>1
<1>3. ASSUME NEW cas \in BOOLEAN, record(cas) PROVE FALSE
  <2>1. changes # <<>>
    BY <1>3, NewTells DEF record, WsInv
  <2>2. Len(changes') = Len(changes)
    BY <1>1, <1>3, <2>1 DEF record
  <2>3. QED
    BY <1>1, <2>2
<1>4. ASSUME NEW n, rewind(n) PROVE FALSE
  <2>1. Len(Kept(changes, n)) <= Len(changes)
    BY <1>1, Parted
  <2>2. QED
    BY <1>1, <1>4, <2>1 DEF rewind
<1>5. UNCHANGED wsVars => UNCHANGED changes
  BY DEF wsVars
<1>6. QED
  BY <1>2, <1>3, <1>4, <1>5
     DEF WsNext, External, ReadBytes, Check, ReadRecord, Load, CallFails, Register, advance_turn, TurnEnds, Restore,
         Crash, CrashAppending, Down, durable

LEMMA OverwritesKnown ==
  ASSUME WsInv, [WsNext]_wsVars, NEW f \in Files, Overwrites(f), shown[f].data # Absent, shown[f].run = crashes
  PROVE  files[f] = shown[f].data
<1>1. Persist
  BY OnlyPersistMutates DEF Overwrites
<1>2. fileCall # NoCall /\ fileCall.step = "persist"
  BY <1>1 DEF Persist
<1>3. fileCall.path \in Files /\ files[fileCall.path] \in FileContents /\ turn \in Nat /\ changes \in Seq(WsChanges)
  BY <1>2, CallTyped DEF WsInv, FilesInv, FileTypes, JournalInv, JournalTypes
<1>4. PICK c \in WsChanges : c = [path |-> fileCall.path, prior |-> files[fileCall.path], turn |-> turn, logged |-> FALSE]
  BY <1>3 DEF WsChanges
<1>5. changes' = Append(changes, c) /\ c.path = fileCall.path
  BY <1>1, <1>4 DEF Persist
<1>6. Last(changes') = c
  BY <1>3, <1>5, Appended DEF Last
<1>7. fileCall.path = f /\ files[f] # Absent
  BY <1>5, <1>6 DEF Overwrites
<1>8. QED
  BY <1>2, <1>7 DEF WsInv, FilesInv, SeenFits, AtStep, Known

\* A tool overwrites a file the model has seen in this process only while it is what the model saw:
\* the check against the registry (current_read_state of util.rs) still holds at the write.
THEOREM OverwritesOnlyKnownAlways == ~ExternalDuringCalls => (WsSpec => OverwritesOnlyKnown)
<1> SUFFICES ASSUME ~ExternalDuringCalls PROVE WsSpec => OverwritesOnlyKnown
  OBVIOUS
<1>1. WsInit => WsInv
  BY FilesStart, JournalStart DEF WsInv
<1>2. WsInv /\ [WsNext]_wsVars => WsInv'
  BY WsSteps
<1>3. WsInv /\ [WsNext]_wsVars =>
        [\A f \in Files : (Overwrites(f) /\ shown[f].data # Absent /\ shown[f].run = crashes) => files[f] = shown[f].data]_wsVars
  BY OverwritesKnown
<1>4. QED
  BY <1>1, <1>2, <1>3, PTL DEF WsSpec, OverwritesOnlyKnown

-----------------------------------------------------------------------------
(* /rewind.  It took the records W, which tell of the mutations asked about; *)
(* those from k + 1 on are behind it.  As long as none failed, each file     *)
(* behind it holds what the first of them says.                              *)

Restored(W, k, fs) ==
  \A j \in (k + 1)..Len(W) : (\A i \in (k + 1)..(j - 1) : W[i].path # W[j].path) => fs[W[j].path] = W[j].prior
Rewound(W, rw, fs) ==
  /\ W \in Seq(WsRecs) /\ Told(W, rw.asked, Len(rw.asked))
  /\ Len(rw.todo) + Len(rw.restored) <= Len(W)
  /\ \A i \in 1..Len(rw.todo) : rw.todo[i] = W[(Len(rw.todo) - i) + 1]
  /\ Len(rw.todo) + Len(rw.restored) = Len(W) => Restored(W, Len(rw.todo), fs)
RewindFits == rewinding.todo # <<>> => process = "idle" /\ \E W : Rewound(W, rewinding, files)

\* Records that tell of mutations are no more than these, and tell of each when they are as many.
ToldEach(e, rs, m) == Len(rs) <= m /\ (Len(rs) = m => \A i \in 1..m : e[i] = i)
LEMMA ToldFewer ==
  ASSUME NEW rs \in Seq(WsRecs), NEW cs, NEW m \in Nat, NEW e, Tells(e, rs, cs, m)
  PROVE  ToldEach(e, rs, m)
<1>1. PICK K \in Nat : K = Len(rs)
  OBVIOUS
<1>2. /\ \A k \in 1..K : e[k] \in 1..m /\ e[k] \in Nat
      /\ \A i, j \in 1..K : i < j => e[i] < e[j]
  BY <1>1 DEF Tells
<1> DEFINE Up == {k \in 0..K : k = 0 \/ k <= e[k]}
           Dn == {k \in 0..K : k = 0 \/ e[(K - k) + 1] <= m - (k - 1)}
<1>3. 0 \in Up /\ 0 \in Dn
  OBVIOUS
<1>4. ASSUME NEW k \in 1..K, k - 1 \in Up PROVE k \in Up
  <2>1. CASE k = 1
    BY <1>2, <2>1
  <2>2. CASE k # 1
    <3>1. k - 1 \in 1..K /\ k - 1 < k /\ k - 1 <= e[k - 1]
      BY <1>4, <2>2
    <3>2. e[k - 1] < e[k] /\ e[k - 1] \in Nat /\ e[k] \in Nat
      BY <1>2, <3>1
    <3>3. QED
      BY <3>1, <3>2
  <2>3. QED
    BY <2>1, <2>2
<1>5. ASSUME NEW k \in 1..K, k - 1 \in Dn PROVE k \in Dn
  <2>1. (K - k) + 1 \in 1..K
    OBVIOUS
  <2>2. PICK x : x = e[(K - k) + 1] /\ x \in 1..m
    BY <1>2, <2>1
  <2>3. CASE k = 1
    BY <2>2, <2>3
  <2>4. CASE k # 1
    <3>1. (K - (k - 1)) + 1 \in 1..K /\ (K - k) + 1 < (K - (k - 1)) + 1
      BY <2>4
    <3>2. PICK y : y = e[(K - (k - 1)) + 1] /\ y \in 1..m /\ x < y
      BY <1>2, <2>1, <2>2, <3>1
    <3>3. y <= m - ((k - 1) - 1)
      BY <1>5, <2>4, <3>2
    <3>4. x <= m - (k - 1)
      BY <2>2, <3>2, <3>3
    <3>5. QED
      BY <2>2, <3>4
  <2>5. QED
    BY <2>3, <2>4
<1>6. 0..K \subseteq Up /\ 0..K \subseteq Dn
  <2> HIDE DEF Up, Dn
  <2>1. QED
    BY <1>3, <1>4, <1>5, Climb
<1>7. K <= m
  <2>1. CASE K = 0
    BY <2>1
  <2>2. CASE K # 0
    <3>1. K \in 1..K /\ K \in Up
      BY <1>6, <2>2
    <3>2. QED
      BY <1>2, <3>1
  <2>3. QED
    BY <2>1, <2>2
<1>8. ASSUME K = m, NEW i \in 1..m PROVE e[i] = i
  <2>1. i \in 1..K /\ i \in Up /\ (K - i) + 1 \in 1..K /\ (K - i) + 1 \in Dn
    BY <1>6, <1>8
  <2>2. (K - ((K - i) + 1)) + 1 = i /\ m - (((K - i) + 1) - 1) = i
    BY <1>8
  <2>3. e[i] <= i
    BY <2>1, <2>2
  <2>4. i <= e[i] /\ e[i] \in Nat
    BY <1>2, <2>1
  <2>5. QED
    BY <2>3, <2>4
<1>9. QED
  BY <1>1, <1>7, <1>8 DEF ToldEach

LEMMA RewoundNext ==
  ASSUME NEW W, NEW rw \in AnyRewind, NEW fs \in [Files -> FileContents], Rewound(W, rw, fs), rw.todo # <<>>,
         NEW ok \in BOOLEAN, NEW gs \in [Files -> FileContents],
         IF ok THEN gs = [fs EXCEPT ![Head(rw.todo).path] = Head(rw.todo).prior] ELSE gs = fs
  PROVE  Rewound(W, [todo |-> Tail(rw.todo), asked |-> rw.asked,
                     restored |-> IF ok THEN Append(rw.restored, Head(rw.todo).path) ELSE rw.restored], gs)
<1>1. PICK td \in Seq(WsRecs), rd \in Seq(Files) : td = rw.todo /\ rd = rw.restored
  BY DEF AnyRewind
<1>2. PICK k \in Nat \ {0}, L \in Nat, m \in Nat : k = Len(td) /\ L = Len(W) /\ m = Len(rd)
  BY <1>1 DEF Rewound
<1>3. k + m <= L /\ k \in 1..L
  <2>1. k + m <= L
    BY <1>1, <1>2 DEF Rewound
  <2>2. QED
    BY <2>1
<1>4. \A i \in 1..k : td[i] = W[(k - i) + 1]
  BY <1>1, <1>2 DEF Rewound
<1>5. PICK tl \in Seq(WsRecs) : tl = Tail(td)
  <2>1. Tail(td) \in Seq(WsRecs)
    BY <1>1, HeadTailProperties
  <2>2. QED
    BY <2>1
<1>6. Len(tl) = k - 1 /\ \A i \in 1..(k - 1) : tl[i] = td[i + 1]
  BY <1>1, <1>2, <1>5
<1>7. PICK r \in WsRecs : r = Head(td) /\ r = W[k] /\ r.path \in Files
  <2>1. Head(td) = td[1] /\ 1 \in 1..k /\ (k - 1) + 1 = k
    BY <1>1, <1>2
  <2>2. td[1] = W[k]
    BY <1>4, <2>1
  <2>3. td[1] \in WsRecs
    BY <1>2, <2>1, ElementOfSeq
  <2>4. QED
    BY <2>1, <2>2, <2>3 DEF WsRecs
<1>8. PICK new \in Seq(Files) : new = IF ok THEN Append(rd, r.path) ELSE rd
  BY <1>7, Appended
<1>9. PICK n \in Nat : n = Len(new) /\ n = IF ok THEN m + 1 ELSE m
  BY <1>2, <1>7, <1>8, Appended
<1>10. PICK rv : rv = [todo |-> tl, asked |-> rw.asked, restored |-> new]
  OBVIOUS
<1>11. rv.todo = tl /\ rv.asked = rw.asked /\ rv.restored = new
  BY <1>10
<1>12. ASSUME NEW i \in 1..(k - 1) PROVE tl[i] = W[((k - 1) - i) + 1]
  <2>1. i + 1 \in 1..k /\ (k - (i + 1)) + 1 = ((k - 1) - i) + 1
    OBVIOUS
  <2>2. QED
    BY <1>4, <1>6, <2>1
<1>13. (k - 1) + n <= L
  BY <1>3, <1>9
<1>14. ASSUME (k - 1) + n = L PROVE Restored(W, k - 1, gs)
  <2>1. ok /\ k + m = L
    BY <1>3, <1>9, <1>14
  <2>2. gs = [fs EXCEPT ![r.path] = r.prior]
    BY <1>1, <1>7, <2>1
  <2>3. Restored(W, k, fs)
    BY <1>1, <1>2, <2>1 DEF Rewound
  <2>4. ASSUME NEW j \in k..L, \A i \in k..(j - 1) : W[i].path # W[j].path PROVE gs[W[j].path] = W[j].prior
    <3>1. CASE j = k
      BY <1>7, <2>2, <3>1
    <3>2. CASE j # k
      <4>1. j \in (k + 1)..L /\ k \in k..(j - 1) /\ j \in 1..L
        BY <1>3, <3>2
      <4>2. W[j] \in WsRecs
        BY <1>2, <4>1, ElementOfSeq DEF Rewound
      <4>3. W[j].path \in Files /\ W[j].path # r.path
        BY <1>7, <2>4, <4>1, <4>2 DEF WsRecs
      <4>4. \A i \in (k + 1)..(j - 1) : W[i].path # W[j].path
        <5>1. \A i \in (k + 1)..(j - 1) : i \in k..(j - 1)
          BY <1>3
        <5>2. QED
          BY <2>4, <5>1
      <4>5. fs[W[j].path] = W[j].prior
        BY <1>2, <2>3, <4>1, <4>4 DEF Restored
      <4>6. QED
        BY <2>2, <4>3, <4>5
    <3>3. QED
      BY <3>1, <3>2
  <2>5. (k - 1) + 1 = k
    OBVIOUS
  <2>6. QED
    BY <1>2, <2>4, <2>5 DEF Restored
<1>15. Rewound(W, rv, gs)
  BY <1>2, <1>6, <1>9, <1>11, <1>12, <1>13, <1>14 DEF Rewound
<1>16. QED
  BY <1>1, <1>5, <1>7, <1>8, <1>10, <1>15

\* What /rewind takes tells of what it was asked to undo.
LEMMA WindowTold ==
  ASSUME NEW rs \in Seq(WsRecs), NEW cs \in Seq(WsChanges), NEW n, Told(rs, cs, Len(cs))
  PROVE  Window(rs, n) \in Seq(WsRecs) /\ Told(Window(rs, n), Window(cs, n), Len(Window(cs, n)))
<1>1. PICK R, C : R = {r \in Range(rs) : r.turn > turn - n} /\ C = {c \in Range(cs) : c.turn > turn - n}
  OBVIOUS
<1>2. PICK ro \in Seq(WsRecs) : ro = Window(rs, n) /\ \E h : Picks(h, ro, rs, R, Len(rs))
  <2>1. Those(rs, R) \in Seq(WsRecs) /\ \E h : Picks(h, Those(rs, R), rs, R, Len(rs))
    BY ThoseAre
  <2>2. Window(rs, n) = Those(rs, R)
    BY <1>1 DEF Window
  <2>3. QED
    BY <2>1, <2>2
<1>3. PICK co \in Seq(WsChanges) : co = Window(cs, n) /\ \E h : Picks(h, co, cs, C, Len(cs))
  <2>1. Those(cs, C) \in Seq(WsChanges) /\ \E h : Picks(h, Those(cs, C), cs, C, Len(cs))
    BY ThoseAre
  <2>2. Window(cs, n) = Those(cs, C)
    BY <1>1 DEF Window
  <2>3. QED
    BY <2>1, <2>2
<1>4. PICK hr, hc : Picks(hr, ro, rs, R, Len(rs)) /\ Picks(hc, co, cs, C, Len(cs))
  BY <1>2, <1>3
<1>5. \A i \in 1..Len(rs), j \in 1..Len(cs) : rs[i] \in R /\ rs[i].turn = cs[j].turn => cs[j] \in C
  BY <1>1 DEF Range
<1>6. Told(ro, co, Len(co))
  BY <1>4, <1>5, ToldKept
<1>7. QED
  BY <1>2, <1>3, <1>6

LEMMA RewindBegins == ASSUME WsInv, NEW n, rewind(n) PROVE RewindFits'
<1>1. process' = "idle" /\ fileCall = NoCall
  BY DEF rewind, Idle, WsInv, FilesInv, CallFits
<1>2. Below = Len(changes)
  BY <1>1 DEF Unlogged, AtStep, Below
<1>3. PICK rs \in Seq(WsRecs), cs \in Seq(WsChanges) : rs = records /\ cs = changes
  BY DEF WsInv, JournalInv, JournalTypes
<1>4. Told(rs, cs, Len(cs))
  BY <1>2, <1>3 DEF WsInv, JournalInv, JournalFits
<1>5. PICK W : W = Window(rs, n) /\ W \in Seq(WsRecs) /\ Told(W, Window(cs, n), Len(Window(cs, n)))
  BY <1>4, WindowTold
<1>6. PICK rw : rw = [todo |-> Reverse(W), restored |-> <<>>, asked |-> Window(cs, n)]
  OBVIOUS
<1>7. rewinding' = rw
  BY <1>3, <1>5, <1>6 DEF rewind
<1>8. PICK td, L : td = Reverse(W) /\ L = Len(W) /\ L \in Nat
  BY <1>5
<1>9. Len(td) = L /\ \A i \in 1..L : td[i] = W[(L - i) + 1]
  <2>1. td = [i \in 1..L |-> W[(L - i) + 1]]
    BY <1>8 DEF Reverse
  <2>2. QED
    BY <1>8, <2>1
<1>10. rw.todo = td /\ rw.asked = Window(cs, n) /\ rw.restored = <<>> /\ Len(<<>>) = 0
  BY <1>6, <1>8
<1>11. Restored(W, L, files')
  BY <1>8 DEF Restored
<1>12. Rewound(W, rw, files')
  BY <1>5, <1>8, <1>9, <1>10, <1>11 DEF Rewound
<1>13. QED
  BY <1>1, <1>7, <1>12 DEF RewindFits

LEMMA RewindRestoring ==
  ASSUME WsInv, RewindFits, NEW ok \in BOOLEAN, Restore(ok)
  PROVE  process' = "idle" /\ \E W : Rewound(W, rewinding', files')
<1>1. process = "idle" /\ process' = "idle" /\ rewinding.todo # <<>>
  BY DEF Restore
<1>2. PICK W : Rewound(W, rewinding, files)
  BY <1>1 DEF RewindFits
<1>3. PICK rw \in AnyRewind, fs \in [Files -> FileContents] : rw = rewinding /\ fs = files
  BY DEF WsInv, JournalInv, JournalTypes, FilesInv, FileTypes, AnyRewind
<1>4. PICK gs \in [Files -> FileContents] : gs = files'
  <2>1. Head(rw.todo) \in WsRecs
    <3>1. rw.todo \in Seq(WsRecs) /\ rw.todo # <<>>
      BY <1>1, <1>3 DEF AnyRewind
    <3>2. QED
      BY <3>1, HeadTailProperties
  <2>2. Head(rw.todo).path \in Files /\ Head(rw.todo).prior \in FileContents
    BY <2>1, Contents DEF WsRecs
  <2>3. files' \in [Files -> FileContents]
    BY <1>3, <2>2 DEF Restore, Change
  <2>4. QED
    BY <2>3
<1>5. IF ok THEN gs = [fs EXCEPT ![Head(rw.todo).path] = Head(rw.todo).prior] ELSE gs = fs
  BY <1>3, <1>4 DEF Restore, Change
<1>6. Rewound(W, [todo |-> Tail(rw.todo), asked |-> rw.asked,
                  restored |-> IF ok THEN Append(rw.restored, Head(rw.todo).path) ELSE rw.restored], gs)
  BY <1>1, <1>2, <1>3, <1>5, RewoundNext
<1>7. rewinding' = [todo |-> Tail(rw.todo), asked |-> rw.asked,
                    restored |-> IF ok THEN Append(rw.restored, Head(rw.todo).path) ELSE rw.restored]
  BY <1>3 DEF Restore
<1>8. QED
  BY <1>1, <1>4, <1>6, <1>7

LEMMA RewindSteps == ASSUME WsInv, RewindFits, ~ExternalDuringCalls, [WsNext]_wsVars PROVE RewindFits'
<1>1. fileCall # NoCall => process = "turn"
  BY DEF WsInv, FilesInv, CallFits
<1>2. ASSUME rewinding' = rewinding, rewinding.todo # <<>> => process' = process /\ files' = files PROVE RewindFits'
  BY <1>2 DEF RewindFits
<1>3. ASSUME rewinding' = NoRewind PROVE RewindFits'
  BY <1>3 DEF RewindFits, NoRewind
<1>4. CASE UNCHANGED wsVars
  BY <1>2, <1>4 DEF wsVars
<1>5. ASSUME NEW f \in Files, NEW data \in FileContents, External(f, data) PROVE RewindFits'
  BY <1>2, <1>5 DEF External
<1>6. ASSUME NEW f \in Files, ReadBytes(f) \/ \E tool \in Mutators : Check(tool, f) PROVE RewindFits'
  BY <1>2, <1>6 DEF ReadBytes, Check
<1>7. CASE ReadRecord \/ (\E new \in Text : Load(new)) \/ CallFails \/ Register \/ \E cas \in BOOLEAN : record(cas)
  BY <1>2, <1>7 DEF ReadRecord, Load, CallFails, Register, record
<1>8. CASE Persist
  <2>1. process = "turn" /\ rewinding' = rewinding
    BY <1>1, <1>8 DEF Persist
  <2>2. rewinding.todo = <<>>
    BY <2>1 DEF RewindFits
  <2>3. QED
    BY <1>2, <2>1, <2>2
<1>9. CASE TurnEnds
  <2>1. process = "turn" /\ rewinding' = rewinding
    BY <1>9 DEF TurnEnds, CanCall
  <2>2. rewinding.todo = <<>>
    BY <2>1 DEF RewindFits
  <2>3. QED
    BY <1>2, <2>1, <2>2
<1>10. CASE advance_turn \/ Crash \/ \E part \in BOOLEAN : CrashAppending(part)
  BY <1>3, <1>10 DEF advance_turn, Crash, CrashAppending, Down
<1>11. CASE durable
  <2>1. process = "down" /\ rewinding' = rewinding
    BY <1>11 DEF durable
  <2>2. rewinding.todo = <<>>
    BY <2>1 DEF RewindFits
  <2>3. QED
    BY <1>2, <2>1, <2>2
<1>12. CASE \E n \in 1..(MaxTurn + 1) : rewind(n)
  BY <1>12, RewindBegins
<1>13. CASE \E ok \in BOOLEAN : Restore(ok)
  BY <1>13, RewindRestoring DEF RewindFits
<1>14. QED
  BY <1>4, <1>5, <1>6, <1>7, <1>8, <1>9, <1>10, <1>11, <1>12, <1>13 DEF WsNext, Mutators

\* Done, and as many restored as were asked for: every file has what its first mutation replaced.
FirstAgain(as, fs, f) ==
  \E i \in DOMAIN as :
    /\ as[i].path = f /\ \A j \in 1 .. i - 1 : as[j].path # f
    /\ as[i].prior # Raw => fs[f] = as[i].prior
LEMMA RewoundAll ==
  ASSUME NEW W, NEW rw \in AnyRewind, NEW fs, Rewound(W, rw, fs), rw.todo = <<>>, Len(rw.restored) = Len(rw.asked),
         NEW f, NEW q \in DOMAIN rw.asked, rw.asked[q].path = f
  PROVE  FirstAgain(rw.asked, fs, f)
<1>1. PICK as \in Seq(WsChanges) : as = rw.asked
  BY DEF AnyRewind
<1>2. PICK N \in Nat : N = Len(as) /\ DOMAIN as = 1..N
  BY <1>1
<1>3. W \in Seq(WsRecs) /\ Told(W, as, N) /\ 0 + N <= Len(W) /\ Len(W) \in Nat
  <2>1. Len(rw.todo) = 0
    OBVIOUS
  <2>2. QED
    BY <1>1, <1>2, <2>1 DEF Rewound
<1>4. PICK e : Tells(e, W, as, N)
  BY <1>3 DEF Told
<1>5. Len(W) = N /\ \A i \in 1..N : e[i] = i
  <2>1. Len(W) <= N /\ (Len(W) = N => \A i \in 1..N : e[i] = i)
    <3>1. PICK rs \in Seq(WsRecs) : rs = W
      BY <1>3
    <3>2. Tells(e, rs, as, N)
      BY <1>4, <3>1
    <3>3. ToldEach(e, rs, N)
      BY <3>2, ToldFewer
    <3>4. QED
      BY <3>1, <3>3 DEF ToldEach
  <2>2. QED
    BY <1>3, <2>1
<1>6. \A i \in 1..N : TellsOf(W[i], as[i])
  BY <1>4, <1>5 DEF Tells
<1>7. Restored(W, 0, fs)
  <2>1. Len(rw.todo) = 0 /\ Len(rw.restored) = N
    BY <1>1, <1>2
  <2>2. QED
    BY <1>5, <2>1 DEF Rewound
<1> DEFINE At == {i \in 1..N : as[i].path = f}
<1>8. At \subseteq Nat /\ At # {}
  BY <1>1, <1>2
<1>9. PICK i \in At : \A y \in At : i <= y
  BY <1>8, Least, Zenon
<1>10. i \in 1..N /\ as[i].path = f
  BY <1>9
<1>11. ASSUME NEW j \in 1..(i - 1) PROVE as[j].path # f /\ j \in 1..N
  <2>1. j \in 1..N /\ ~(i <= j)
    BY <1>10
  <2>2. QED
    BY <1>9, <2>1
<1>12. ASSUME as[i].prior # Raw PROVE fs[f] = as[i].prior
  <2>1. W[i].path = f /\ W[i].prior = as[i].prior
    BY <1>6, <1>10, <1>12 DEF TellsOf
  <2>2. \A j \in 1..(i - 1) : W[j].path # W[i].path
    BY <1>6, <1>11, <2>1 DEF TellsOf
  <2>3. i \in (0 + 1)..Len(W) /\ \A j \in (0 + 1)..(i - 1) : W[j].path # W[i].path
    BY <1>5, <1>10, <2>2
  <2>4. fs[W[i].path] = W[i].prior
    BY <1>7, <2>3 DEF Restored
  <2>5. QED
    BY <2>1, <2>4
<1>13. QED
  BY <1>1, <1>2, <1>10, <1>11, <1>12 DEF FirstAgain

\* Only a restored file ends a /rewind.
LEMMA RewindEnds ==
  ASSUME WsInv, RewindFits, [WsNext]_wsVars, RewindDone PROVE \E ok \in BOOLEAN : Restore(ok)
<1>1. rewinding' # rewinding /\ rewinding.todo # <<>> /\ process' = "idle"
  BY DEF RewindDone
<1>2. UNCHANGED wsVars => UNCHANGED rewinding
  BY DEF wsVars
<1>3. \A n : ~rewind(n)
  BY <1>1 DEF rewind, Idle
<1>4. ~advance_turn
  BY <1>1 DEF advance_turn, Idle
<1>5. ~Down
  BY <1>1 DEF Down
<1>6. QED
  BY <1>1, <1>2, <1>3, <1>4, <1>5
     DEF WsNext, External, ReadBytes, Check, ReadRecord, Load, CallFails, Persist, Register, TurnEnds, record, Crash,
         CrashAppending, durable

LEMMA RewindRestoresAll ==
  ASSUME WsInv, WsInv', RewindFits, [WsNext]_wsVars, RewindDone, NEW f \in Touched, First(f).prior # Raw
  PROVE  files'[f] = First(f).prior
<1>1. PICK ok \in BOOLEAN : Restore(ok)
  BY RewindEnds
<1>2. PICK rw \in AnyRewind, fs \in {files'} : rw = rewinding'
  BY DEF WsInv, JournalInv, JournalTypes, AnyRewind
<1>3. PICK W : Rewound(W, rw, fs)
  BY <1>1, <1>2, RewindRestoring
<1>4. PICK q \in DOMAIN rw.asked : rw.asked[q].path = f
  BY <1>2 DEF Touched
<1>5. rw.todo = <<>> /\ Len(rw.restored) = Len(rw.asked)
  BY <1>2 DEF RewindDone
<1>6. FirstAgain(rw.asked, fs, f)
  BY <1>3, <1>4, <1>5, RewoundAll
<1>7. PICK i \in DOMAIN rw.asked :
        /\ rw.asked[i].path = f /\ \A j \in 1 .. i - 1 : rw.asked[j].path # f
        /\ rw.asked[i].prior # Raw => fs[f] = rw.asked[i].prior
  BY <1>6 DEF FirstAgain
<1>8. PICK k : k = CHOOSE x \in DOMAIN rw.asked : rw.asked[x].path = f /\ \A j \in 1 .. x - 1 : rw.asked[j].path # f
  OBVIOUS
<1>9. k \in DOMAIN rw.asked /\ rw.asked[k].path = f /\ \A j \in 1 .. k - 1 : rw.asked[j].path # f
  BY <1>7, <1>8, Zenon
<1>10. k = i
  <2>1. DOMAIN rw.asked \subseteq Nat \ {0}
    BY DEF AnyRewind
  <2>2. ~(k < i) /\ ~(i < k)
    <3>1. k < i => k \in 1 .. i - 1
      BY <1>9, <2>1
    <3>2. i < k => i \in 1 .. k - 1
      BY <1>7, <1>9, <2>1
    <3>3. QED
      BY <1>7, <1>9, <3>1, <3>2
  <2>3. QED
    BY <1>7, <1>9, <2>1, <2>2
<1>11. First(f) = rw.asked[k]
  BY <1>2, <1>8, Zenon DEF First
<1>12. QED
  BY <1>2, <1>7, <1>10, <1>11

\* When /rewind reports every record restored, each text file it touched holds what it held before the
\* first mutation of the turns undone (ChangeJournal::rewind and restore_files), for any number of
\* mutations, turns and files, after any crashes, as long as no other program writes during a call or
\* a /rewind.
THEOREM RewindRestoresAlways == ~ExternalDuringCalls => (WsSpec => RewindRestores)
<1> SUFFICES ASSUME ~ExternalDuringCalls PROVE WsSpec => RewindRestores
  OBVIOUS
<1>1. WsInit => WsInv /\ RewindFits
  <2>1. WsInit => RewindFits
    BY DEF WsInit, RewindFits, NoRewind
  <2>2. QED
    BY <2>1, FilesStart, JournalStart DEF WsInv
<1>2. WsInv /\ RewindFits /\ [WsNext]_wsVars => WsInv' /\ RewindFits'
  BY WsSteps, RewindSteps
<1>3. WsInv /\ WsInv' /\ RewindFits /\ [WsNext]_wsVars =>
        [RewindDone => \A f \in Touched : First(f).prior # Raw => files'[f] = First(f).prior]_wsVars
  BY RewindRestoresAll
<1>4. QED
  BY <1>1, <1>2, <1>3, PTL DEF WsSpec, RewindRestores
=============================================================================
