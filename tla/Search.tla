------------------------------- MODULE Search -------------------------------
(* The search and reading tools of rc-tools: Grep, Glob, List, and the batches  *)
(* ReadMany and GrepMany, which answer many requests within one output budget   *)
(* while other programs change the files between two of them.                   *)
(*                                                                              *)
(* Abstracted: paths are numbers, in the order the walker visits and List sorts *)
(* them; a line has no foo, is foo ("whole") or has two amid other text         *)
(* ("twice"), and ends in a line break; the patterns are "plain" (foo), "start"  *)
(* (^foo) and "span" (foo\nfoo); an output is a sequence of tokens of one        *)
(* character each, a label or a sentinel included.                              *)
EXTENDS Integers, Sequences, FiniteSets, SequencesExt, FiniteSetsExt

CONSTANTS SearchPaths,  \* 1 .. n
          FileTexts,     \* the texts a file may have: sequences of "none", "whole", "twice"
          Requests,     \* the requests considered, see grep, glob, list and the batches
          Allow,        \* bytes of a batch's budget set aside for labels (1024)
          Slack,        \* bytes past the cap at which Grep stops scanning (4096)
          MaxParts,     \* MAX_FILES and MAX_QUERIES
          MaxTouch      \* bound: changes made by other programs

VARIABLES searchDisk,         \* disk[p]: kind ("text", "binary" or "gone"), the lines of a text, time
          job           \* the call: request, parts left, output, cut, status, texts seen (ghost)
searchVars == <<searchDisk, job>>

Tok(k, p, n) == <<k, p, n>>
Take(s, n) == SubSeq(s, 1, IF n < Len(s) THEN n ELSE Len(s))
Skip(s, n) == SubSeq(s, n + 1, Len(s))
Half(n) == [head |-> n \div 3, tail |-> n - n \div 3]
Scannable == {p \in SearchPaths : searchDisk[p].kind = "text"}
InOrder(S) == SetToSortSeq(S, <)

-----------------------------------------------------------------------------
(* Bounding an output                                                           *)
cap_output(s, cap, head, tail) ==
  IF cap = 0 \/ Len(s) <= cap THEN [text |-> s, cut |-> FALSE]
  ELSE [text |-> Take(s, head) \o <<Tok("elided", 0, 0)>> \o Skip(s, Len(s) - tail), cut |-> TRUE]

\* the start of the text and, when there is room, a sentinel
truncate_utf8_bytes(s, cap) ==
  IF Len(s) <= cap THEN [text |-> s, cut |-> FALSE]
  ELSE [text |-> IF cap = 0 THEN <<>> ELSE Append(Take(s, cap - 1), Tok("elided", 0, 0)), cut |-> TRUE]

-----------------------------------------------------------------------------
(* The tools                                                                    *)
\* is_match on one line, its line break taken off
LineMatch(pat, l) ==
  CASE pat = "plain" -> l # "none"
    [] pat = "start" -> l = "whole"
    [] pat = "span" -> FALSE

\* find_iter over the text: without multi_line ^ is the start of the text, and matches
\* do not overlap
TextMatches(pat, lines) ==
  LET pair(acc, l) == IF l = "whole" THEN [n |-> IF acc.open THEN acc.n + 1 ELSE acc.n, open |-> ~acc.open]
                      ELSE [acc EXCEPT !.open = FALSE]
  IN CASE pat = "plain" -> FoldLeft(LAMBDA n, l : n + (CASE l = "none" -> 0 [] l = "whole" -> 1 [] l = "twice" -> 2),
                                    0, lines)
       [] pat = "start" -> IF lines # <<>> /\ lines[1] = "whole" THEN 1 ELSE 0
       [] pat = "span" -> FoldLeft(pair, [n |-> 0, open |-> FALSE], lines).n

\* one file in one of the three modes, the whole text or line by line: the tokens and how
\* many matches they stand for
grep_file(r, p) ==
  LET lines == searchDisk[p].lines
      count == TextMatches(r.pat, lines)
      hits  == {i \in DOMAIN lines : LineMatch(r.pat, lines[i])}
      shown == InOrder({j \in DOMAIN lines : \E i \in hits : i - r.before <= j /\ j <= i + r.after})
      gap(k) == IF k > 1 /\ shown[k - 1] + 1 # shown[k] THEN <<Tok("gap", 0, 0)>> ELSE <<>>
  IN CASE r.mode = "files" /\ count > 0 -> [text |-> <<Tok("file", p, 0)>>, hits |-> 1]
       [] r.mode = "count" /\ count > 0 -> [text |-> <<Tok("count", p, count)>>, hits |-> count]
       [] r.mode = "content" /\ hits # {} ->
            [text |-> FlattenSeq([k \in DOMAIN shown |-> gap(k) \o <<Tok("line", p, shown[k])>>])
                        \o <<Tok("end", 0, 0)>>,
             hits |-> Cardinality(hits)]
       [] OTHER -> [text |-> <<>>, hits |-> 0]

\* Mutant of scan: the scan stops at the cap instead of past it
scan_early(r, walk, cap) ==
  LET step(acc, p) ==
        IF acc.done \/ p \notin Scannable THEN acc
        ELSE LET f == grep_file(r, p)
                 out == acc.out \o f.text
             IN [out |-> out, total |-> acc.total + f.hits,
                 done |-> \/ r.limit >= 0 /\ acc.total + f.hits >= r.limit
                          \/ cap # 0 /\ Len(out) >= cap]
  IN FoldLeft(step, [out |-> <<>>, total |-> 0, done |-> FALSE], walk)

\* the walk, until head_limit is reached or the output is well past the cap
scan(r, walk, cap) ==
  LET step(acc, p) ==
        IF acc.done \/ p \notin Scannable THEN acc
        ELSE LET f == grep_file(r, p)
                 out == acc.out \o f.text
             IN [out |-> out, total |-> acc.total + f.hits,
                 done |-> \/ r.limit >= 0 /\ acc.total + f.hits >= r.limit
                          \/ cap # 0 /\ Len(out) > cap + Slack]
  IN FoldLeft(step, [out |-> <<>>, total |-> 0, done |-> FALSE], walk)

grep(r, walk, cap) == cap_output(scan(r, walk, cap).out, cap, Half(cap).head, Half(cap).tail)

\* newest first, the walker's order among equals; a note counts what was left out
glob(cap) ==
  LET hits == {p \in SearchPaths : searchDisk[p].kind # "gone"}
      s == SetToSortSeq(hits, LAMBDA p, q : \/ searchDisk[p].time > searchDisk[q].time
                                            \/ searchDisk[p].time = searchDisk[q].time /\ p < q)
      keep == IF cap = 0 \/ cap > Len(s) THEN Len(s) ELSE cap
  IN [text |-> [i \in 1 .. keep |-> Tok("file", s[i], 0)]
               \o (IF keep < Len(s) THEN <<Tok("more", 0, Len(s) - keep)>> ELSE <<>>),
      cut |-> keep < Len(s)]

\* rows by path behind one heading, within entry_cap rows and output_cap bytes
list(entry_cap, output_cap) ==
  LET s == InOrder({p \in SearchPaths : searchDisk[p].kind # "gone"})
      rows == IF entry_cap = 0 \/ entry_cap > Len(s) THEN Len(s) ELSE entry_cap
      keep == IF output_cap = 0 THEN rows
              ELSE CHOOSE k \in 0 .. rows : /\ k = 0 \/ 1 + k <= output_cap
                                            /\ k = rows \/ 1 + k + 1 > output_cap
  IN [text |-> [i \in 1 .. keep |-> Tok("file", s[i], 0)]
               \o (IF keep < Len(s) THEN <<Tok("more", 0, Len(s) - keep)>> ELSE <<>>),
      cut |-> keep < Len(s)]

\* Read's numbered lines from the first on; what a batch says of a file it cannot show
render_lines(p, limit) ==
  CASE searchDisk[p].kind = "gone" -> <<Tok("missing", p, 0)>>
    [] searchDisk[p].kind = "binary" -> <<Tok("error", p, 0)>>
    [] searchDisk[p].lines = <<>> -> <<Tok("empty", p, 0)>>
    [] OTHER -> LET n == IF limit = 0 \/ limit > Len(searchDisk[p].lines) THEN Len(searchDisk[p].lines) ELSE limit
                IN [i \in 1 .. n |-> Tok("line", p, i)]

-----------------------------------------------------------------------------
(* A call                                                                       *)
NoSearch == [tool |-> "none"]
NoJob == [req |-> NoSearch, todo |-> <<>>, n |-> 0, out |-> <<>>, cut |-> FALSE, at |-> "idle", seen |-> <<>>]

SearchInit ==
  /\ searchDisk \in [SearchPaths -> [kind : {"text", "binary", "gone"}, lines : FileTexts, time : {0, 1}]]
  /\ \A p \in SearchPaths : searchDisk[p].kind = "text" \/ searchDisk[p].lines = <<>>
  /\ job = NoJob

Answered(r, a) ==
  job' = [NoJob EXCEPT !.req = r, !.out = a.text, !.cut = a.cut, !.at = "answered"]

Grep(r) ==
  /\ job.at = "idle" /\ r.tool = "Grep"
  /\ Answered(r, grep(r, InOrder(SearchPaths), r.cap)) /\ UNCHANGED searchDisk
Glob(r) == job.at = "idle" /\ r.tool = "Glob" /\ Answered(r, glob(r.cap)) /\ UNCHANGED searchDisk
List(r) == job.at = "idle" /\ r.tool = "List" /\ Answered(r, list(r.cap, r.bytes)) /\ UNCHANGED searchDisk

\* duplicates are dropped by ReadMany, parts past the limit by both
BeginSearch(r) ==
  /\ job.at = "idle" /\ r.tool \in {"ReadMany", "GrepMany"}
  /\ LET once == FoldLeft(LAMBDA s, p : IF Contains(s, p) THEN s ELSE Append(s, p), <<>>, r.parts)
         all == IF r.tool = "ReadMany" THEN once ELSE r.parts
     IN IF all = <<>> THEN job' = [NoJob EXCEPT !.req = r, !.at = "error"]
        ELSE job' = [NoJob EXCEPT !.req = r, !.todo = Take(all, MaxParts), !.at = "running",
                                  !.n = Len(Take(all, MaxParts)), !.cut = Len(all) > MaxParts]
  /\ UNCHANGED searchDisk

\* the budget of one part
Share == (IF job.req.cap > Allow THEN job.req.cap - Allow ELSE 0) \div job.n

\* one part: its label, then what the tool below says of it
Part ==
  /\ job.at = "running" /\ job.todo # <<>>
  /\ LET p == Head(job.todo)
         i == job.n - Len(job.todo) + 1
         a == IF job.req.tool = "ReadMany"
              THEN truncate_utf8_bytes(render_lines(p, job.req.limit), Share)
              ELSE grep(job.req, <<p>>, Share)
     IN job' = [job EXCEPT !.todo = Tail(@), !.out = @ \o <<Tok("label", p, i)>> \o a.text,
                           !.cut = @ \/ a.cut, !.seen = Append(@, searchDisk[p].lines)]
  /\ UNCHANGED searchDisk

\* the hard cap over everything
FinishSearch ==
  /\ job.at = "running" /\ job.todo = <<>>
  /\ LET cap == job.req.cap
         a == IF job.req.tool = "ReadMany" THEN truncate_utf8_bytes(job.out, cap)
              ELSE cap_output(job.out, cap, (cap * 3) \div 4, cap \div 4)
     IN job' = [job EXCEPT !.out = a.text, !.cut = @ \/ a.cut, !.at = "answered"]
  /\ UNCHANGED searchDisk

\* the turn is cancelled: noticed before the next part
Interrupt ==
  /\ job.at = "running" /\ job.todo # <<>>
  /\ job' = [job EXCEPT !.out = <<>>, !.at = "interrupted"] /\ UNCHANGED searchDisk

\* another program writes, truncates or removes a file
Touch(p, kind, lines) ==
  /\ job.at = "running" /\ searchDisk[p].time < MaxTouch /\ (kind = "text" \/ lines = <<>>)
  /\ searchDisk' = [searchDisk EXCEPT ![p] = [kind |-> kind, lines |-> lines, time |-> @.time + 1]]
  /\ UNCHANGED job

SearchNext ==
  \/ \E r \in Requests : Grep(r) \/ Glob(r) \/ List(r) \/ BeginSearch(r)
  \/ Part \/ FinishSearch \/ Interrupt
  \/ \E p \in SearchPaths, k \in {"text", "binary", "gone"}, t \in FileTexts : Touch(p, k, t)

-----------------------------------------------------------------------------
\* An answer not marked as cut accounts for everything: Grep's content mode shows exactly the
\* lines within reach of a match, once and in order, unless its own head_limit stopped it;
\* for a pattern that means the same in a line and in a text (no anchor, no line break) its
\* files and count modes name exactly the files content mode shows lines of, counting at
\* least one match for each such line, and for an anchored one no others; Glob and List name
\* every file; a batch has all lines of every part as they were when it came to it; and
\* however large the other parts are, every part of a batch keeps its label while the
\* labels fit in what was set aside for them ("one large source file cannot crowd every
\* later file out of the batch").
Lines(out, k) == LET s == SelectSeq(out, LAMBDA t : t[1] = k) IN [i \in DOMAIN s |-> <<s[i][2], s[i][3]>>]
Ordered(s) == \A i, j \in DOMAIN s : i < j =>
                \/ s[i][1] < s[j][1]
                \/ s[i][1] = s[j][1] /\ s[i][2] < s[j][2]
WithinReach(r) ==
  {x \in SearchPaths \X (1 .. 4) :
     LET lines == searchDisk[x[1]].lines IN
     x[1] \in Scannable /\ x[2] \in DOMAIN lines
     /\ \E i \in DOMAIN lines : LineMatch(r.pat, lines[i]) /\ i - r.before <= x[2] /\ x[2] <= i + r.after}
ShowingFiles(r) == {x[1] : x \in WithinReach(r)}
MatchingLines(r, p) == {i \in DOMAIN searchDisk[p].lines : LineMatch(r.pat, searchDisk[p].lines[i])}
ModesAgreeOn(r, told, named, counted) ==
  /\ r.mode = "content" => Ordered(told) /\ Range(told) = WithinReach(r)
  /\ r.mode = "files" /\ r.pat = "plain" => named = {<<p, 0>> : p \in ShowingFiles(r)}
  /\ r.mode = "files" /\ r.pat = "start" => named \subseteq {<<p, 0>> : p \in ShowingFiles(r)}
  /\ r.mode = "count" /\ r.pat = "plain" =>
       /\ {c[1] : c \in counted} = ShowingFiles(r)
       /\ \A c \in counted : c[2] >= Cardinality(MatchingLines(r, c[1]))
AnswersAccountForAll ==
  job.at = "answered" =>
    LET r == job.req
        told == Lines(job.out, "line")
        named == Range(Lines(job.out, "file"))
        labels == Lines(job.out, "label")
        batch == r.tool \in {"ReadMany", "GrepMany"}
    IN /\ r.tool = "Grep" /\ ~job.cut /\ r.limit = -1 =>
            ModesAgreeOn(r, told, named, Range(Lines(job.out, "count")))
       /\ r.tool \in {"Glob", "List"} /\ ~job.cut =>
            named = {<<p, 0>> : p \in {q \in SearchPaths : searchDisk[q].kind # "gone"}}
       /\ r.tool = "ReadMany" /\ ~job.cut /\ r.limit = 0 =>
            \A i \in DOMAIN labels : LET p == labels[i][1] IN
              {x \in Range(told) : x[1] = p} = {<<p, j>> : j \in DOMAIN job.seen[i]}
              \/ \E t \in Range(job.out) : t[2] = p /\ t[1] \in {"missing", "error"}
       /\ batch /\ r.cap > Allow + job.n /\ job.n * 2 <= Allow =>
            Len(labels) = job.n
=============================================================================
