------------------------------- MODULE RepoMap --------------------------------
(***************************************************************************)
(* The repository map of a prompt, src/pico/repo_map.py: the incremental   *)
(* refresh with its two caches, the symbol graph, and the selection that   *)
(* is rendered within a token budget, against the user, the tools and the  *)
(* Sub-agents that edit the files meanwhile.                               *)
(*                                                                         *)
(* Simplifications.  What parsing a text yields is a constant of the text. *)
(* Names are atoms: the last part of one, and that one ends with or        *)
(* contains another, is given.  The scan is one step, and every directory  *)
(* can be listed.  Edges carry no weight, and the score of a symbol (its   *)
(* lexical match and its page rank, in floating point) is any number.  A   *)
(* text costs the sum of the tokens of its lines.                          *)
(***************************************************************************)
EXTENDS Selection, FiniteSets, SequencesExt

CONSTANTS
    Files,         \* the paths of Python files
    ScanOrder,     \* the files in the order the scan meets them
    PathOrder,     \* the files in the order of their paths
    TestFiles,     \* those of a test directory or a test module
    Texts,         \* what a file may hold
    May,           \* May[f]: the texts f is ever given
    Size,          \* Size[t]: bytes of a text
    Large,         \* the texts above REPO_MAP_MAX_FILE_BYTES
    Deep,          \* the texts nested too deep for visit (RecursionError)
    Defs,          \* Defs[t]: [name, of, line]: a definition, and what it is inside of
    Uses,          \* Uses[t]: [by, kind, name]: a reference
    Names,         \* the qualified names of definitions
    ModuleName,    \* ModuleName[f]: that of the module f
    LastName,      \* LastName[n]: the last part of a qualified name or a reference
    Ends,          \* <<m, n>>: m ends with n
    TestNames,     \* the last names that begin like those of tests
    Tests,         \* <<m, n>>: last name m contains last name n, and n is not too short
    MaxFiles,      \* REPO_MAP_MAX_FILES
    MaxTargets,    \* four: the targets of one reference
    Scores,        \* functions from symbols to Nat: what a query may score
    Budgets,       \* the token budgets of a rendering
    MaxResults,    \* the symbols of a rendering
    HeaderTokens, PathTokens, LineTokens,
    MaxTick, MaxEdits, MaxRefreshes      \* bounds

ASSUME OrderAssumption ==
    /\ ScanOrder \in Seq(Files) /\ PathOrder \in Seq(Files)
    /\ {ScanOrder[i] : i \in DOMAIN ScanOrder} = Files /\ Len(ScanOrder) = Cardinality(Files)
    /\ {PathOrder[i] : i \in DOMAIN PathOrder} = Files /\ Len(PathOrder) = Cardinality(Files)

ASSUME TextAssumption ==
    /\ May \in [Files -> SUBSET Texts] /\ Size \in [Texts -> Nat]
    /\ Large \subseteq Texts /\ Deep \subseteq Texts /\ TestFiles \subseteq Files
    /\ "none" \notin Texts \cup Files
    /\ MaxFiles \in Nat /\ MaxTargets \in Nat /\ MaxResults \in Nat \ {0} /\ MaxTick \in Nat

ASSUME NameAssumption ==
    /\ \A t \in Texts : \A d \in Defs[t] : d.name \in Names
    /\ \A t \in Texts : \A d, g \in Defs[t] : d.name = g.name => d = g

ASSUME ScoreAssumption ==
    /\ \A score \in Scores : \A f \in Files, n \in Names : score[<<f, n>>] \in Nat
    /\ \A t \in Texts : IsFiniteSet(Defs[t]) /\ \A d \in Defs[t] : d.line \in Nat
    /\ Budgets \subseteq Nat /\ {HeaderTokens, PathTokens, LineTokens} \subseteq Nat
    /\ HeaderTokens > 0

None == "none"      \* no such file, entry or snapshot
Module == "module"  \* the definition every file begins with

VARIABLES
    disk,      \* disk[f]: what f holds, and when it was written
    tick,      \* the clock of the file system
    edits,
    \* refresh
    pc, cache, snapshot, todo, mark, changed, parsed, cut, answer, refreshes,
    \* rendering
    shown,
    \* history: what each file held since the refresh began, the files rewritten under
    \* the mark of their entry, and whether a refresh that changed the cache was left
    during, racy, lost

world == <<disk, tick, edits>>
vars == <<disk, tick, edits, pc, cache, snapshot, todo, mark, changed, parsed, cut,
          answer, refreshes, shown, during, racy, lost>>

\* (st_mtime_ns, st_ctime_ns, st_size)
Fingerprint(f) == <<disk[f].at, Size[disk[f].text]>>

Exists(f) == disk[f].text # None

First(n, s) == SubSeq(s, 1, IF Len(s) < n THEN Len(s) ELSE n)

(* ------------------------------ the graph ------------------------------ *)

\* files: what each file of a snapshot held.  A symbol is its file and its name.
Symbols(files) ==
    UNION {{<<f, d.name>> : d \in Defs[files[f]]} \cup {<<f, Module>>} : f \in DOMAIN files}

Line(files, s) == (CHOOSE d \in Defs[files[s[1]]] : d.name = s[2]).line
PathRank(f) == CHOOSE i \in DOMAIN PathOrder : PathOrder[i] = f

Title(s) == IF s[2] = Module THEN ModuleName[s[1]] ELSE s[2]

IsTest(s) == s[1] \in TestFiles \/ LastName[Title(s)] \in TestNames

\* Symbols are in the order of their files and lines, the module first.
Earlier(files, u, s) ==
    \/ PathRank(u[1]) < PathRank(s[1])
    \/ u[1] = s[1] /\ s[2] # Module /\ (u[2] = Module \/ Line(files, u) < Line(files, s))

\* Symbols by name, the names in the order of their first symbols.
Grouped(files, S, name) ==
    {p \in S \X S :
        IF name[p[1]] = name[p[2]] THEN Earlier(files, p[1], p[2])
        ELSE \E u \in S : name[u] = name[p[1]] /\
                 \A s \in S : name[s] = name[p[2]] => Earlier(files, u, s)}

\* The first n of S; less holds the pairs of S in order.
Foremost(n, S, less) == {s \in S : Cardinality({u \in S : <<u, s>> \in less}) < n}

\* _reference_candidates of an imported module: those of its name, else those whose
\* name ends with it or is its end.
Modules(files, target) ==
    LET modules == {<<g, Module>> : g \in DOMAIN files}
        exact == {s \in modules : Title(s) = target}
        near  == {s \in modules : {<<Title(s), target>>, <<target, Title(s)>>} \cap Ends # {}}
        found == IF exact # {} THEN exact ELSE near
    IN  Foremost(2, found, Grouped(files, found, [s \in found |-> Title(s)]))

\* Of any other reference: by the full name or else by the last part of it, those of
\* the own file alone if there are any, and none when a call could mean too many.
Candidates(files, f, use) ==
    LET symbols == Symbols(files)
        exact == {s \in symbols : Title(s) = use.name}
        near  == {s \in symbols : LastName[Title(s)] = LastName[use.name]}
        found == IF exact # {} THEN exact ELSE near
        own   == {s \in found : s[1] = f}
        whole(s) == <<Title(s), use.name>> \in Ends
        among == IF own # {} THEN own ELSE found
        less  == {p \in among \X among :
                     IF whole(p[1]) <=> whole(p[2]) THEN Earlier(files, p[1], p[2])
                     ELSE whole(p[1])}
    IN  IF use.kind = "import_module" THEN Modules(files, use.name)
        ELSE IF own = {} /\ use.kind = "call" /\ Cardinality(found) > MaxTargets THEN {}
        ELSE Foremost(MaxTargets, among, less)

\* What the symbol of a test speaks of: production symbols of the names it contains.
Tested(files, s) ==
    LET named == {u \in Symbols(files) :
                     /\ u[2] # Module /\ ~IsTest(u)
                     /\ <<LastName[Title(s)], LastName[Title(u)]>> \in Tests}
    IN  Foremost(MaxTargets, named, Grouped(files, named, [u \in named |-> LastName[Title(u)]]))

\* _resolve_graph and _add_edge: no loop, no end that is not a symbol, and an edge back
\* for every edge.
Edges(files) ==
    LET contains == UNION {{<<<<f, d.of>>, <<f, d.name>>>> : d \in Defs[files[f]]} : f \in DOMAIN files}
        uses  == UNION {UNION {{<<<<f, u.by>>, c>> : c \in Candidates(files, f, u)}
                                : u \in Uses[files[f]]} : f \in DOMAIN files}
        tests == UNION {{<<s, u>> : u \in Tested(files, s)} :
                          s \in {x \in Symbols(files) : x[2] # Module /\ IsTest(x)}}
        out   == {e \in contains \cup uses \cup tests :
                     e[1] # e[2] /\ {e[1], e[2]} \subseteq Symbols(files)}
    IN  out \cup {<<e[2], e[1]>> : e \in out}

(* ------------------------------- refresh ------------------------------- *)

Empty == [f \in {} |-> None]
NoEntry == [mark |-> <<>>, text |-> None]
NoSnapshot == [built |-> FALSE, files |-> Empty, edges |-> {}]
NoAnswer == [files |-> Empty, edges |-> {}, parsed |-> {}, cut |-> FALSE]

Init ==
    /\ \E held \in [Files -> Texts \cup {None}] :
          /\ \A f \in Files : held[f] \in May[f] \cup {None}
          /\ disk = [f \in Files |-> [text |-> held[f], at |-> 0]]
    /\ tick = 0 /\ edits = 0 /\ pc = "idle"
    /\ cache = [f \in Files |-> NoEntry]
    /\ snapshot = NoSnapshot
    /\ todo = <<>> /\ mark = <<>> /\ changed = FALSE /\ parsed = Empty /\ cut = FALSE
    /\ answer = NoAnswer /\ refreshes = 0 /\ shown = {}
    /\ during = [f \in Files |-> {}] /\ racy = {} /\ lost = FALSE

Cached(f) == cache[f] # NoEntry
Drop(S) == [f \in Files |-> IF f \in S THEN NoEntry ELSE cache[f]]

\* _python_paths: the scan ends with its entries, or is cut at its limit of entries or
\* of time; a file too large, and a file too many, is left out.
Scanned(n) == {f \in ToSet(First(n, ScanOrder)) : Exists(f) /\ disk[f].text \notin Large}

Listed(n) == ToSet(First(MaxFiles, InOrder(ScanOrder, Scanned(n))))

Purge(listed) ==
    LET gone == {f \in Files : Cached(f) /\ f \notin listed}
    IN  cache' = Drop(gone) /\ changed' = (gone # {})

Refresh ==
    \E n \in 0 .. Len(ScanOrder) :
        /\ pc = "idle" /\ refreshes < MaxRefreshes
        /\ pc' = "stat" /\ refreshes' = refreshes + 1
        /\ todo' = InOrder(PathOrder, Listed(n))
        /\ cut' = (n < Len(ScanOrder) \/ Cardinality(Scanned(n)) > MaxFiles)
        /\ Purge(Listed(n))
        /\ parsed' = Empty /\ mark' = <<>> /\ shown' = {} /\ answer' = NoAnswer
        /\ during' = [f \in Files |-> {disk[f].text}]
        /\ UNCHANGED <<world, snapshot, racy, lost>>

Add(f, text) == parsed' = [g \in DOMAIN parsed \cup {f} |-> IF g = f THEN text ELSE parsed[g]]

\* A file that went away, or cannot be read, is skipped and forgotten.
Skip(f) ==
    /\ cache' = Drop({f}) /\ changed' = TRUE
    /\ todo' = Tail(todo) /\ pc' = "stat"
    /\ UNCHANGED <<parsed, mark>>

Stat ==
    LET f == Head(todo) IN
    /\ pc = "stat" /\ todo # <<>>
    /\ \/ ~Exists(f) /\ Skip(f)
       \/ /\ Exists(f) /\ Cached(f) /\ cache[f].mark = Fingerprint(f)
          /\ Add(f, cache[f].text) /\ todo' = Tail(todo)
          /\ UNCHANGED <<pc, cache, changed, mark>>
       \/ /\ Exists(f) /\ ~(Cached(f) /\ cache[f].mark = Fingerprint(f))
          /\ mark' = Fingerprint(f) /\ pc' = "read"
          /\ UNCHANGED <<todo, cache, changed, parsed>>
    /\ UNCHANGED <<world, snapshot, cut, answer, refreshes, shown, during, racy, lost>>

\* A slip: a miss is not noted as a change.
ReadUnnoted ==
    LET f == Head(todo) IN
    /\ pc = "read"
    /\ \/ ~Exists(f) /\ Skip(f)
       \/ /\ Exists(f) /\ disk[f].text \notin Deep
          /\ cache' = [cache EXCEPT ![f] = [mark |-> mark, text |-> disk[f].text]]
          /\ Add(f, disk[f].text)
          /\ todo' = Tail(todo) /\ pc' = "stat"
          /\ UNCHANGED <<mark, changed>>
    /\ racy' = racy \ {f}
    /\ UNCHANGED <<world, snapshot, cut, answer, refreshes, shown, during, lost>>

\* _parse_file reads what the file holds now, and the entry has the mark taken before.
Read ==
    LET f == Head(todo) IN
    /\ pc = "read"
    /\ \/ ~Exists(f) /\ Skip(f)
       \/ /\ Exists(f) /\ disk[f].text \notin Deep
          /\ cache' = [cache EXCEPT ![f] = [mark |-> mark, text |-> disk[f].text]]
          /\ changed' = TRUE
          /\ Add(f, disk[f].text)
          /\ todo' = Tail(todo) /\ pc' = "stat"
          /\ UNCHANGED mark
    /\ racy' = racy \ {f}
    /\ UNCHANGED <<world, snapshot, cut, answer, refreshes, shown, during, lost>>

\* The local variables of a refresh that is over.
Forgotten ==
    /\ todo' = <<>> /\ mark' = <<>> /\ changed' = FALSE /\ parsed' = Empty /\ cut' = FALSE
    /\ during' = [f \in Files |-> {}]

\* The refresh is left: a text nested too deep, or an interrupt.  The entries made
\* so far stay, the snapshot is the one of before.
Leave ==
    /\ pc \in {"stat", "read"}
    /\ pc' = "idle"
    /\ lost' = (lost \/ changed)
    /\ Forgotten
    /\ UNCHANGED <<world, cache, snapshot, answer, refreshes, shown, racy>>

\* A slip: the edges of the snapshot before are taken over.
AnswerAddingEdges ==
    /\ pc = "stat" /\ todo = <<>>
    /\ pc' = "answered"
    /\ LET edges == Edges(parsed) \cup snapshot.edges
       IN  /\ snapshot' = [built |-> TRUE, files |-> parsed, edges |-> edges]
           /\ answer' = [files |-> parsed, edges |-> edges, parsed |-> DOMAIN parsed, cut |-> cut]
    /\ lost' = FALSE
    /\ UNCHANGED <<world, cache, todo, mark, changed, parsed, cut, refreshes, shown, during, racy>>

\* The snapshot is built, or the one before is handed out with the new counts.
Answer ==
    /\ pc = "stat" /\ todo = <<>>
    /\ pc' = "answered"
    /\ IF ~changed /\ snapshot.built
       THEN /\ answer' = [files |-> snapshot.files, edges |-> snapshot.edges,
                          parsed |-> DOMAIN parsed, cut |-> cut]
            /\ UNCHANGED <<snapshot, lost>>
       ELSE /\ snapshot' = [built |-> TRUE, files |-> parsed, edges |-> Edges(parsed)]
            /\ answer' = [files |-> parsed, edges |-> Edges(parsed),
                          parsed |-> DOMAIN parsed, cut |-> cut]
            /\ lost' = FALSE
    /\ UNCHANGED <<world, cache, todo, mark, changed, parsed, cut, refreshes, shown, during, racy>>

(* ------------------------------ rendering ------------------------------ *)

Ranked(files, score) == {s \in Symbols(files) : s[2] # Module /\ score[s] > 0}

\* _select_diverse compares score / (1 + 0.35 * chosen of the same file), then the
\* score itself, then the earlier line, then the later path.
Preferred(files, score, chosen, s, u) ==
    LET count(x) == Cardinality({i \in DOMAIN chosen : chosen[i][1] = x[1]})
        mine   == score[s] * (100 + 35 * count(u))
        theirs == score[u] * (100 + 35 * count(s))
    IN  \/ mine > theirs
        \/ mine = theirs /\ score[s] > score[u]
        \/ mine = theirs /\ score[s] = score[u] /\ Line(files, s) < Line(files, u)
        \/ mine = theirs /\ score[s] = score[u] /\ Line(files, s) = Line(files, u)
           /\ PathRank(s[1]) >= PathRank(u[1])

Selected(files, score) ==
    LET total == LET n == Cardinality(Ranked(files, score))
                 IN IF n < MaxResults THEN n ELSE MaxResults
        pick[n \in 0 .. total] ==
            IF n = 0 THEN <<>>
            ELSE LET chosen == pick[n - 1]
                     left == Ranked(files, score) \ ToSet(chosen)
                 IN  Append(chosen, CHOOSE s \in left :
                         \A u \in left : Preferred(files, score, chosen, s, u))
    IN  pick[total]

\* A slip: the path is remembered although its line was left out.
LinesForgetting(chosen, budget) ==
    LET go[n \in 0 .. Len(chosen)] ==
          IF n = 0 THEN [lines |-> <<>>, cost |-> HeaderTokens, path |-> None]
          ELSE LET r == go[n - 1]  s == chosen[n]
                   new == s[1] # r.path
                   cost == r.cost + LineTokens + (IF new THEN PathTokens ELSE 0)
               IN  IF cost > budget THEN [r EXCEPT !.path = s[1]]
                   ELSE [lines |-> r.lines \o (IF new THEN <<<<s[1]>>, s>> ELSE <<s>>),
                         cost |-> cost, path |-> s[1]]
    IN  go[Len(chosen)]

\* The lines of the text: a path when it differs from that of the line before, and
\* the symbol, both or neither.
Lines(chosen, budget) ==
    LET go[n \in 0 .. Len(chosen)] ==
          IF n = 0 THEN [lines |-> <<>>, cost |-> HeaderTokens, path |-> None]
          ELSE LET r == go[n - 1]  s == chosen[n]
                   new == s[1] # r.path
                   cost == r.cost + LineTokens + (IF new THEN PathTokens ELSE 0)
               IN  IF cost > budget THEN r
                   ELSE [lines |-> r.lines \o (IF new THEN <<<<s[1]>>, s>> ELSE <<s>>),
                         cost |-> cost, path |-> s[1]]
    IN  go[Len(chosen)]

\* The text of some files, with its estimate and the word that symbols are missing.
Text(files, score, budget) ==
    LET r == Lines(Selected(files, score), budget)
        symbols == {r.lines[i] : i \in {j \in DOMAIN r.lines : Len(r.lines[j]) = 2}}
    IN  [lines |-> r.lines, score |-> score, budget |-> budget,
         cost |-> IF budget = 0 THEN 0
                  ELSE IF symbols = {} THEN (IF budget < HeaderTokens THEN budget ELSE HeaderTokens)
                  ELSE r.cost,
         truncated |-> Cardinality(symbols) < Cardinality(Ranked(files, score))]

\* RepoMapQuery.render.
Render ==
    /\ pc = "answered"
    /\ pc' = "drawn"
    /\ \E score \in Scores, budget \in Budgets : shown' = {Text(answer.files, score, budget)}
    /\ UNCHANGED <<world, cache, snapshot, todo, mark, changed, parsed, cut, answer,
                   refreshes, during, racy, lost>>

Done ==
    /\ pc = "drawn"
    /\ pc' = "idle" /\ shown' = {} /\ answer' = NoAnswer
    /\ Forgotten
    /\ UNCHANGED <<world, cache, snapshot, refreshes, racy, lost>>

(* ------------------------------ the world ------------------------------ *)

\* Somebody writes or removes a file, at any moment at which refresh could notice, in
\* the same tick of the clock of the file system as the last write or in a later one.
Edit(f) ==
    \E text \in May[f] \cup {None}, now \in tick .. MaxTick :
        /\ pc \in {"idle", "stat", "read"} /\ edits < MaxEdits /\ text # disk[f].text
        /\ tick' = now /\ edits' = edits + 1
        /\ disk' = [disk EXCEPT ![f] = [text |-> text, at |-> now]]
        /\ during' = IF pc = "idle" THEN during ELSE [during EXCEPT ![f] = @ \cup {text}]
        /\ racy' = IF Cached(f) /\ text # None /\ cache[f].mark = <<now, Size[text]>>
                      /\ cache[f].text # text
                   THEN racy \cup {f} ELSE racy
        /\ UNCHANGED <<pc, cache, snapshot, todo, mark, changed, parsed, cut, answer,
                       refreshes, shown, lost>>

Step == Stat \/ Read \/ Answer
Next == Refresh \/ Step \/ Leave \/ Render \/ Done \/ \E f \in Files : Edit(f)

Spec == Init /\ [][Next]_vars

(* ------------------------------ properties ----------------------------- *)

TypeOK ==
    /\ pc \in {"idle", "stat", "read", "answered", "drawn"}
    /\ \A f \in Files : disk[f].text \in May[f] \cup {None} /\ disk[f].at \in 0 .. tick
    /\ \A f \in Files : Cached(f) => cache[f].text \in May[f] \ Deep
    /\ pc = "read" => todo # <<>> /\ mark # <<>>
    /\ ToSet(todo) \cap DOMAIN parsed = {}
    /\ Cardinality(DOMAIN parsed) <= MaxFiles

\* A refresh answers with what every file held at some moment while it ran, although
\* files change between the scan, the stat and the read - unless a text was replaced
\* by one of the same size within the same tick, or the refresh before was left after
\* it had changed the cache: then the snapshot handed out is older than the entries.
NeverStale ==
    pc = "answered" /\ ~lost =>
        \A f \in DOMAIN answer.files : answer.files[f] \in during[f] \/ f \in racy

\* A file that was there all the time, small enough to be read, is on the map, unless
\* the scan is reported as cut; and the counts handed out are those of the map.
NothingIsMissing ==
    pc = "answered" /\ ~lost =>
        /\ answer.parsed = DOMAIN answer.files
        /\ \A f \in Files :
              answer.cut \/ during[f] \cap (Large \cup {None}) # {} \/ f \in DOMAIN answer.files

\* The map shows the files as they are, all of them or with a word that it does not
\* (RepoMap.refresh).
MapIsTrue == TypeOK /\ NeverStale /\ NothingIsMissing

\* The graph joins symbols of the map only, and can be walked back: page rank looks up
\* every end of an edge, and a target that went away with its file would be a KeyError.
EdgesAreWithin ==
    pc = "answered" =>
        \A e \in answer.edges :
            /\ {e[1], e[2]} \subseteq Symbols(answer.files)
            /\ e[1] # e[2] /\ <<e[2], e[1]>> \in answer.edges

Symbolic(text) == {i \in DOMAIN text.lines : Len(text.lines[i]) = 2}

\* The text stays within its budget, whatever was left out, and no line is drawn twice.
TextFits ==
    \A text \in shown :
        /\ text.cost <= text.budget
        /\ \A i, j \in Symbolic(text) : text.lines[i] = text.lines[j] => i = j

\* Every symbol stands below the path of its own file, also after a symbol of another
\* file was left out for want of tokens.
LinesUnderTheirFile ==
    \A text \in shown : \A i \in Symbolic(text) :
        \E h \in 1 .. i - 1 : /\ text.lines[h] = <<text.lines[i][1]>>
                              /\ h + 1 .. i \subseteq Symbolic(text)

\* The best symbol is drawn whenever its file and its line fit, and a map that left
\* out a symbol of any score says so.
BestIsShown ==
    \A text \in shown :
        LET ranked == Ranked(answer.files, text.score)
            drawn == {text.lines[i] : i \in Symbolic(text)}
        IN  /\ HeaderTokens + PathTokens + LineTokens <= text.budget =>
                  \A s \in ranked :
                      (\A u \in ranked \ {s} : text.score[s] > text.score[u]) => s \in drawn
            /\ text.truncated <=> ~(ranked \subseteq drawn)

\* The text drawn of a map is within its budget, in order, and of the best symbols
\* (RepoMapQuery.render, _select_diverse).
TextIsRight == TextFits /\ LinesUnderTheirFile /\ BestIsShown

===============================================================================
