------------------------------ MODULE BuildSpec ------------------------------
(***************************************************************************)
(* From DCBUILD to rows: parse_manifest line by line, the task graph that  *)
(* build() makes of the targets, and what submit_build does with a graph   *)
(* before its transaction (module Graph).  A graph may also come from      *)
(* another client than dcc (Foreign).                                      *)
(*                                                                         *)
(* A line is a directive and the words after it.  What a word stands for as*)
(* a source is Expand: itself, the files a pattern matches, or nothing.    *)
(***************************************************************************)
EXTENDS Graph

CONSTANTS
  Lines, MaxLines,      \* the lines a manifest may have, and how many
  Expand,               \* the sources a word stands for, in glob's order
  Colon,
  Cxx,                  \* the C++ sources
  PpFlags, Separate,    \* flags of the preprocessor; those with a word to follow
  Text, NoText,         \* keys of preprocessed sources; no hash at all
  Cost,                 \* length of a text
  ArchiveCost, LinkCost,
  Foreign,              \* graphs of other clients
  Parts                 \* partition counts: --partitions or live_partitions()

ASSUME SpecAssumption ==
  /\ MaxLines \in Nat
  /\ NoText \notin Text
  /\ Cost \in [Text -> Nat] /\ ArchiveCost \in Nat /\ LinkCost \in Nat
  /\ Parts \subseteq Nat \ {0}
  /\ \A x \in Foreign : IsGraph(x)
  /\ \A l \in Lines : l.w \in Seq(ToSet(l.w))
  /\ \A w \in DOMAIN Expand : Expand[w] \in Seq(ToSet(Expand[w]))

VARIABLES
  phase,    \* parse, graph, submit, then accepted, invalid, unavailable or error
  lines,    \* lines read
  m,        \* the Manifest
  key,      \* the key of each source
  g,        \* the BuildSpec's tasks
  answer    \* what submit_build computed

vars == <<phase, lines, m, key, g, answer>>

Empty == [cc |-> "gcc", cxx |-> "g++", cflags |-> <<>>, ldflags |-> <<>>, targets |-> <<>>]
NoAnswer == [parts |-> 1, order |-> <<>>, rank |-> <<>>, part |-> <<>>]

Init ==
  /\ lines = 0 /\ m = Empty /\ key = <<>> /\ answer = NoAnswer
  /\ \/ phase = "parse" /\ g = <<>>
     \/ phase = "submit" /\ g \in Foreign

\* The entries of s at the positions in K, in order.
Chosen(s, K) ==
  LET at == Ascending(Len(s), K) IN [j \in DOMAIN at |-> s[at[j]]]

\* The first of equal entries: insert(...).second.
Dedup(s) == Chosen(s, {k \in DOMAIN s : \A j \in 1 .. k - 1 : s[j] # s[k]})

\* One list after the other.
Joined(lists) ==
  LET Join[k \in 0 .. Len(lists)] == IF k = 0 THEN <<>> ELSE Join[k - 1] \o lists[k]
  IN Join[Len(lists)]

-----------------------------------------------------------------------------
(* parse_manifest *)

Libs == Chosen(m.targets, {k \in DOMAIN m.targets : m.targets[k].lib})
Bins == Chosen(m.targets, {k \in DOMAIN m.targets : ~m.targets[k].lib})

\* The words after a target's name, up to the colon and after it.
ColonAt(w) == Min({k \in 2 .. Len(w) : w[k] = Colon} \cup {Len(w) + 1})
SourceWords(w) == SubSeq(w, 2, ColonAt(w) - 1)
LibWords(w) == Chosen(w, {k \in ColonAt(w) .. Len(w) : w[k] # Colon})

\* What a word stands for is known wherever it may name sources.
ASSUME WordsAssumption ==
  \A l \in Lines : l.d \in {"lib", "bin"} => ToSet(SourceWords(l.w)) \subseteq DOMAIN Expand

Target(l) ==
  [lib |-> l.d = "lib", name |-> l.w[1], libs |-> LibWords(l.w),
   sources |-> Joined([k \in DOMAIN SourceWords(l.w) |-> Expand[SourceWords(l.w)[k]]])]

\* names.insert
Taken(l) == \E t \in ToSet(m.targets) : t.name = l.w[1]

TargetOk(l) ==
  /\ Len(l.w) >= 2
  /\ ~Taken(l)
  /\ l.d = "lib" => ColonAt(l.w) > Len(l.w)
  /\ \A k \in DOMAIN SourceWords(l.w) : Expand[SourceWords(l.w)[k]] # <<>>
  /\ Target(l).sources # <<>>

LineOk(l) ==
  \/ l.d \in {"cc", "cxx"} /\ Len(l.w) = 1
  \/ l.d \in {"cflags", "ldflags"}
  \/ l.d \in {"lib", "bin"} /\ TargetOk(l)

Applied(l) ==
  CASE l.d \in {"cc", "cxx"} -> [m EXCEPT ![l.d] = l.w[1]]
    [] l.d \in {"cflags", "ldflags"} -> [m EXCEPT ![l.d] = @ \o l.w]
    [] OTHER -> [m EXCEPT !.targets = Append(@, Target(l))]

ParseLine(l) ==
  /\ phase = "parse" /\ lines < MaxLines
  /\ lines' = lines + 1
  /\ \/ LineOk(l) /\ m' = Applied(l) /\ UNCHANGED phase
     \/ ~LineOk(l) /\ phase' = "error" /\ UNCHANGED m
  /\ UNCHANGED <<key, g, answer>>

\* Every lib that is linked is one of the file, before or after its binary.
LinksKnown == \A t \in ToSet(m.targets) : \A l \in ToSet(t.libs) :
                \E u \in ToSet(Libs) : u.name = l

EndOfFile ==
  /\ phase = "parse"
  /\ phase' = IF LinksKnown THEN "graph" ELSE "error"
  /\ UNCHANGED <<lines, m, key, g, answer>>

-----------------------------------------------------------------------------
(* build(): make_config and the graph *)

\* Mutation: the word after a flag is looked at by itself.
PpPositionsAlone(cflags) == {i \in DOMAIN cflags : cflags[i] \in PpFlags}

\* The positions of cflags that go to the preprocessor; take is set while the
\* next word belongs to the flag before it.
PpStep(cflags, r, i) ==
  [pos |-> IF r.take \/ cflags[i] \in PpFlags THEN r.pos \cup {i} ELSE r.pos,
   take |-> ~r.take /\ cflags[i] \in Separate]

PpPositions(cflags) ==
  LET Read[k \in 0 .. Len(cflags)] ==
        IF k = 0 THEN [pos |-> {}, take |-> FALSE] ELSE PpStep(cflags, Read[k - 1], k)
  IN Read[Len(cflags)].pos

Sources == UNION {ToSet(t.sources) : t \in ToSet(m.targets)}

\* One unit per distinct source, in the order the targets name them.
UnitSeq == Dedup(Joined([k \in DOMAIN m.targets |-> m.targets[k].sources]))

\* Units with the same key compile once.
CompileKeys(ks) == Dedup([i \in DOMAIN UnitSeq |-> ks[UnitSeq[i]]])

\* unit_task[unit_of[s]]
UnitTask(ks, s) == SelectInSeq(CompileKeys(ks), LAMBDA k : k = ks[s])

Task(id, kind, what, cost, deps, driver) ==
  [id |-> id, kind |-> kind, what |-> what, cost |-> cost, deps |-> deps, driver |-> driver]

\* Mutation: an object that is shared by two sources is named twice.
ObjectDepsTwice(ks, t) == [k \in DOMAIN t.sources |-> UnitTask(ks, t.sources[k])]

\* seen.insert(...).second
ObjectDeps(ks, t) == Dedup([k \in DOMAIN t.sources |-> UnitTask(ks, t.sources[k])])

LibTask(ks, l) == Len(CompileKeys(ks)) + SelectInSeq(Libs, LAMBDA t : t.name = l)

\* Mutation: only the binary's own sources are looked at.
NeedsCxxOwn(t) == ToSet(t.sources) \cap Cxx # {}

\* A C++ source in the binary or in a library it links.
NeedsCxx(t) ==
  \/ ToSet(t.sources) \cap Cxx # {}
  \/ \E u \in ToSet(Libs) : u.name \in ToSet(t.libs) /\ ToSet(u.sources) \cap Cxx # {}

Tasks(ks) ==
  LET nc == Len(CompileKeys(ks)) IN
  [j \in 1 .. nc |-> LET k == CompileKeys(ks)[j] IN
     Task(j, "compile", k, Cost[k], <<>>, IF \E s \in Sources \cap Cxx : ks[s] = k THEN m.cxx ELSE m.cc)]
  \o [j \in DOMAIN Libs |->
       Task(nc + j, "archive", Libs[j].name, ArchiveCost, ObjectDeps(ks, Libs[j]), "ar")]
  \o [j \in DOMAIN Bins |->
       Task(nc + Len(Libs) + j, "link", Bins[j].name, LinkCost,
            ObjectDeps(ks, Bins[j]) \o [k \in DOMAIN Bins[j].libs |-> LibTask(ks, Bins[j].libs[k])],
            IF NeedsCxx(Bins[j]) THEN m.cxx ELSE m.cc)]

\* Which sources have the same key is up to their texts, but the language is part
\* of the key.
MakeTasks ==
  /\ phase = "graph"
  /\ \E ks \in [Sources -> Text] :
       /\ \A s \in Sources \cap Cxx, u \in Sources \ Cxx : ks[s] # ks[u]
       /\ key' = ks /\ g' = Tasks(ks)
  /\ phase' = "submit"
  /\ UNCHANGED <<lines, m, answer>>

-----------------------------------------------------------------------------
(* submit_build *)

Hashed == \A i \in DOMAIN g : g[i].kind = "compile" => g[i].what # NoText

\* PRIMARY KEY (build_id, dep, task) of task_deps
RowsDistinct == \A i \in DOMAIN g : IsInjective(g[i].deps)

\* A DbError becomes UNAVAILABLE, whatever its cause.
SubmitBuild(parts) ==
  /\ phase = "submit"
  /\ IF Hashed /\ (TopoOrder(g) # <<>> \/ g = <<>>)
     THEN /\ answer' = [parts |-> parts, order |-> TopoOrder(g), rank |-> UpwardRank(g),
                        part |-> Partition(g, parts)]
          /\ phase' = IF RowsDistinct THEN "accepted" ELSE "unavailable"
     ELSE phase' = "invalid" /\ UNCHANGED answer
  /\ UNCHANGED <<lines, m, key, g>>

Over == phase \in {"accepted", "invalid", "unavailable", "error"} /\ UNCHANGED vars

Next ==
  \/ \E l \in Lines : ParseLine(l)
  \/ EndOfFile
  \/ MakeTasks
  \/ \E parts \in Parts : SubmitBuild(parts)
  \/ Over

Spec == Init /\ [][Next]_vars

-----------------------------------------------------------------------------
(* Properties *)

Ordered == phase \in {"accepted", "unavailable"}

\* Some tasks wait for each other in a ring, directly or not.
Cyclic == \E S \in (SUBSET DOMAIN g) \ {{}} : \A i \in S : ToSet(g[i].deps) \cap S # {}

\* topo_order against its meaning: a graph is refused exactly when a number is bad
\* or tasks wait for each other; otherwise every task comes once, after its deps.
OrderRight ==
  /\ phase = "invalid" => ~Hashed \/ ~WellFormed(g) \/ Cyclic
  /\ Ordered =>
       /\ WellFormed(g) /\ ~Cyclic
       /\ Len(answer.order) = Len(g) /\ IsInjective(answer.order)
       /\ \A i, j \in DOMAIN g : answer.order[i] \in ToSet(g[answer.order[j]].deps) => i < j

\* upward_rank is the cost of the longest chain of dependents: the one function
\* with rank = cost + the highest rank of a dependent, so a dep is claimed first.
RankRight ==
  Ordered => \A i \in DOMAIN g :
    LET up == {answer.rank[j] : j \in {k \in DOMAIN g : i \in ToSet(g[k].deps)}} IN
    answer.rank[i] = g[i].cost + Max({0} \cup up)

Holders(kind, d) == {a \in DOMAIN g : g[a].kind = kind /\ d \in ToSet(g[a].deps)}

\* partition keeps an object with the first archive that has it, or with the first
\* binary if no archive has it.
ObjectsTogether ==
  Ordered => \A d \in DOMAIN g : g[d].kind = "compile" =>
    LET A == Holders("archive", d) L == Holders("link", d) IN
    /\ A # {} => answer.part[d] = answer.part[Min(A)]
    /\ A = {} /\ L # {} => answer.part[d] = answer.part[Min(L)]

Load(p) == SumOver(Len(g), Weights(g), {i \in DOMAIN g : answer.part[i] = p})

\* partition is balanced: without its smallest unit no partition has more than any
\* other, so the loads differ by at most one unit.
LoadsBalanced ==
  Ordered =>
    LET unit == Units(g).unit IN
    \A p, q \in 0 .. answer.parts - 1 :
      \A i \in DOMAIN g : answer.part[i] = p =>
        \E j \in DOMAIN g : answer.part[j] = p
          /\ UnitCost(g, unit, unit[j]) <= UnitCost(g, unit, unit[i])
          /\ Load(p) - UnitCost(g, unit, unit[j]) <= Load(q)

\* The tasks of dcc are the targets of the file: one compile per key, one task per
\* target, fed by exactly its sources' objects and its libraries, and linked by
\* the C++ driver when anything in it is C++.
TargetsCovered ==
  phase \in {"submit", "accepted"} /\ key # <<>> =>
    LET Of(kind) == {i \in DOMAIN g : g[i].kind = kind}
        Fed(i, kind) == {g[d].what : d \in {x \in ToSet(g[i].deps) : g[x].kind = kind}} IN
    /\ {g[i].what : i \in Of("compile")} = {key[s] : s \in Sources}
    /\ Cardinality(Of("compile")) = Cardinality({key[s] : s \in Sources})
    /\ Cardinality(Of("archive") \cup Of("link")) = Len(m.targets)
    /\ \A t \in ToSet(m.targets) :
         \E i \in Of(IF t.lib THEN "archive" ELSE "link") :
           /\ g[i].what = t.name
           /\ Fed(i, "compile") = {key[s] : s \in ToSet(t.sources)}
           /\ Fed(i, "archive") = ToSet(t.libs)
           /\ \A u \in ToSet(m.targets) :
                (u = t \/ u.name \in ToSet(t.libs)) /\ ~t.lib /\ ToSet(u.sources) \cap Cxx # {}
                  => g[i].driver = m.cxx

\* A manifest that parses is never refused as invalid, and submit() fails on it
\* only when a binary names a library twice (the rows of task_deps then collide).
ManifestSubmits ==
  key # <<>> =>
    /\ phase # "invalid"
    /\ phase = "unavailable" => \E t \in ToSet(m.targets) : ~IsInjective(t.libs)

\* make_config against a closed form: a word is the argument of the flag before it
\* when the run of separate flags that ends there has odd length; arguments and
\* flags of the preprocessor go to it, all else stays in the compiler's key.
FlagsSplit ==
  LET f == m.cflags
      Argument(i) == \E a \in 1 .. i - 1 :
        /\ \A k \in a .. i - 1 : f[k] \in Separate
        /\ a > 1 => f[a - 1] \notin Separate
        /\ (i - a) % 2 = 1
  IN PpPositions(f) = {i \in DOMAIN f : Argument(i) \/ f[i] \in PpFlags}
=============================================================================
