------------------------- MODULE IncrementalProofs -------------------------
(***************************************************************************)
(* Proofs about Incremental: for any units, headers and search paths, any  *)
(* number of edits at any moment and any number of builds.                 *)
(***************************************************************************)
EXTENDS Incremental, NaturalsInduction, WellFoundedInduction, TLAPS

\* A text of the unit: of its source, and of a header if the unit includes one.
TextOf(u, text) ==
  /\ text = [src |-> text.src, from |-> text.from, inc |-> text.inc]
  /\ text.src # 0
  /\ IF Search[u] = <<>> THEN text.from = "" /\ text.inc = 0 ELSE text.from \in Header

\* The content that a text has from one of its files.
Part(u, text, f) == IF f = u THEN text.src ELSE text.inc

\* Content c had stamp m in file f: a stamp is never used again, so that a file with
\* that stamp has that content.
Knows(f, m, c) == m \in Nat /\ m <= disk[f].m /\ (disk[f].m = m => disk[f].c = c)

IsUnit(e) ==
  /\ e = [at |-> e.at, key |-> e.key, digest |-> e.digest, deps |-> e.deps, read |-> e.read,
          raced |-> e.raced, fresh |-> e.fresh, error |-> e.error, opened |-> e.opened]
  /\ e.raced \in BOOLEAN /\ e.fresh \in BOOLEAN /\ e.error \in BOOLEAN

\* Key and digest are of one text of the unit.
Keyed(cfg, u, e) == TextOf(u, e.digest) /\ e.key = CompileKey(cfg, u, e.digest)

\* An entry that was not raced knows the stamps of every file its text is made of.
Remembers(u, e) ==
  ~e.raced =>
    /\ DOMAIN e.deps = Deps(u, e.digest)
    /\ \A f \in DOMAIN e.deps : Knows(f, e.deps[f], Part(u, e.digest, f))

DiskType ==
  /\ edits \in Nat
  /\ disk \in [File -> [c : Content \cup {0}, m : Nat]]
  /\ \A f \in File : disk[f].m <= edits

\* What .dcstate says of a unit is worth as much as what dcc knew of it.
StateKept ==
  /\ DOMAIN dcstate.of \subseteq Unit
  /\ DOMAIN dcstate.of # {} => dcstate.config \in Config
  /\ \A u \in DOMAIN dcstate.of :
       LET e == dcstate.of[u] IN
       IsUnit(e) /\ ~e.error /\ Keyed(dcstate.config, u, e) /\ Remembers(u, e)

\* The key is that of the unit on a disk of this build, or the unit is one of the
\* exceptions.
Rooted(u, e) ==
  \/ \E d \in past : TextOn(u, d[u].c, d) # None
       /\ e.key = CompileKey(config, u, TextOn(u, d[u].c, d))
  \/ e.raced
  \/ ~e.fresh /\ \E d \in past : TextOn(u, d[u].c, d).from # e.digest.from

Ats == {"look", "preprocess", "include", "stamp", "set"}
Phases == {"idle", "keys", "again", "upload", "refused", "remote", "saving"}

\* A unit with a key, but for the stamps of a text that has just been made.
HasKey(u, e) ==
  e.key # NoKey =>
    /\ Keyed(config, u, e)
    /\ e.at # "stamp" => Remembers(u, e) /\ Rooted(u, e)

\* The source that gcc has opened.
Opened(u, e) == e.at = "include" => Knows(u, e.opened.m, e.opened.c)

\* The text that gcc has just made: of the disk as it was then, unless the source has
\* changed, which the stamps will tell.
JustMade(u, e) ==
  e.at = "stamp" =>
    /\ e.key # NoKey /\ e.fresh
    /\ DOMAIN e.read = Deps(u, e.digest)
    /\ \A f \in DOMAIN e.read : Knows(f, e.read[f], Part(u, e.digest, f))
    /\ \/ \E d \in past : TextOn(u, d[u].c, d) = e.digest
       \/ disk[u].m > e.read[u]

\* How far a unit is in each phase.
Stage(u, e) ==
  /\ phase = "idle" => e.at = "look"
  /\ phase \in {"again", "refused", "remote", "saving"} => e.at = "set"
  /\ phase = "keys" /\ e.at = "set" => e.key # NoKey \/ e.error
  /\ phase \notin {"idle", "keys"} => e.key # NoKey

\* What is not needed is cached; what is needed is made anew or in error; and what is
\* submitted is there.
Needed(u, e) ==
  /\ phase \notin {"idle", "keys"} /\ u \notin need => e.at = "set" /\ e.key \in cache
  /\ phase = "upload" /\ u \in need /\ ~e.fresh /\ e.at = "set" => e.error
  /\ phase \in {"remote", "saving"} /\ u \in need => e.digest \in blobs

UnitRight(u, e) ==
  /\ IsUnit(e) /\ e.at \in Ats
  /\ HasKey(u, e) /\ Opened(u, e) /\ JustMade(u, e) /\ Stage(u, e) /\ Needed(u, e)

Build ==
  /\ phase \in Phases
  /\ phase # "idle" => config \in Config /\ disk \in past
  /\ unit = [u \in Unit |-> unit[u]] /\ need \subseteq Unit

IncInv ==
  DiskType /\ StateKept /\ Build /\ (\A u \in Unit : UnitRight(u, unit[u])) /\ RefusalExplained

-----------------------------------------------------------------------------
(* Texts and keys *)

\* gcc finds a header on the search path, if there is one.
LEMMA IncludedHeader ==
  ASSUME NEW u \in Unit, NEW d, Search[u] # <<>>, Found(u, d) # {}
  PROVE  Included(u, d) \in Header
<1>1. Search[u] \in Seq(Header)
  BY IncrementalAssumption
<1>2. Found(u, d) \subseteq Nat /\ Found(u, d) \subseteq DOMAIN Search[u]
  BY <1>1 DEF Found
<1>3. PICK i \in Found(u, d) : \A j \in Found(u, d) : ~(<<j, i>> \in OpToRel(<, Nat))
  BY <1>2, NatLessThanWellFounded, WFMin
<1>4. ASSUME NEW j \in Found(u, d) PROVE i <= j
  <2>1. i \in Nat /\ j \in Nat
    BY <1>2
  <2>2. ~(j < i)
    BY <1>3, <2>1 DEF OpToRel
  <2> QED
    BY <2>1, <2>2
<1>5. Min(Found(u, d)) \in Found(u, d)
  BY <1>3, <1>4 DEF Min
<1> QED
  BY <1>1, <1>2, <1>5 DEF Included

\* text is of source c and the headers of disk d, or gcc -E fails.
MadeOf(u, c, d, text) ==
  /\ text = None => c = 0 \/ (Search[u] # <<>> /\ text.from = "")
  /\ text # None => /\ TextOf(u, text) /\ text.src = c
                    /\ Search[u] # <<>> => text.inc = d[text.from].c

\* What gcc -E makes.
LEMMA TextMade ==
  ASSUME NEW u \in Unit, NEW c, NEW d
  PROVE  MadeOf(u, c, d, TextOn(u, c, d))
<1> SUFFICES ASSUME NEW text, text = TextOn(u, c, d) PROVE MadeOf(u, c, d, text)
  OBVIOUS
<1> USE DEF MadeOf
<1>0. None.from = "" /\ None.src = 0 /\ None.inc = 0
  BY DEF None
<1>1. CASE c = 0 \/ (Search[u] # <<>> /\ Found(u, d) = {})
  <2>1. text = None
    BY <1>1 DEF TextOn
  <2> QED
    BY <1>0, <1>1, <2>1
<1>2. CASE c # 0 /\ Search[u] = <<>>
  <2>1. text = [src |-> c, from |-> "", inc |-> 0]
    BY <1>2 DEF TextOn, None
  <2>2. text.src = c /\ text.from = "" /\ text.inc = 0
    BY ONLY <2>1
  <2> QED
    BY <1>0, <1>2, <2>1, <2>2 DEF TextOf
<1>3. CASE c # 0 /\ Search[u] # <<>> /\ Found(u, d) # {}
  <2>1. text = [src |-> c, from |-> Included(u, d), inc |-> d[Included(u, d)].c]
    BY <1>3 DEF TextOn
  <2>2. text.src = c /\ text.from = Included(u, d) /\ text.inc = d[Included(u, d)].c
    BY <2>1
  <2> QED
    BY <1>0, <1>3, <2>1, <2>2, IncludedHeader DEF TextOf
<1> QED
  BY <1>1, <1>2, <1>3

\* The text of a unit is a text, and its files are files.
LEMMA TextFiles ==
  ASSUME NEW u \in Unit, NEW text, TextOf(u, text)
  PROVE  /\ text # None
         /\ Deps(u, text) \subseteq File /\ u \in Deps(u, text)
         /\ Search[u] # <<>> => text.from \in Deps(u, text) /\ text.from # u
<1>1. text.src # 0 /\ None.src = 0
  BY DEF TextOf, None
<1>2. Search[u] # <<>> => text.from \in Header /\ text.from # "" /\ text.from # u
  BY IncrementalAssumption DEF TextOf, File
<1>3. Search[u] = <<>> => text.from = ""
  BY DEF TextOf
<1> QED
  BY <1>1, <1>2, <1>3 DEF Deps, File

\* Two texts of a unit with the same header are the same if their files are.
LEMMA TextsEqual ==
  ASSUME NEW u \in Unit, NEW s, NEW t, TextOf(u, s), TextOf(u, t),
         s.src = t.src, s.from = t.from, Search[u] # <<>> => s.inc = t.inc
  PROVE  s = t
<1>1. s = [src |-> s.src, from |-> s.from, inc |-> s.inc] /\ t = [src |-> t.src, from |-> t.from, inc |-> t.inc]
  BY DEF TextOf
<1>2. s.inc = t.inc
  BY DEF TextOf
<1> QED
  BY <1>1, <1>2

\* A key has the flags of its build.
LEMMA KeyThere ==
  ASSUME NEW cfg \in Config, NEW u, NEW text
  PROVE  CompileKey(cfg, u, text) # NoKey
<1>1. CompileKey(cfg, u, text).cfg = cfg /\ NoKey.cfg = 0
  BY DEF CompileKey, NoKey
<1> QED
  BY <1>1, IncrementalAssumption

\* still_valid: an entry whose files have their stamps has the text of now, if it was
\* not raced and the same header is found.
LEMMA ValidText ==
  ASSUME DiskType, NEW u \in Unit, NEW e, NEW cfg, Keyed(cfg, u, e), Remembers(u, e),
         StillValid(e), ~e.raced, ~Shadowed(u, e)
  PROVE  TextOn(u, disk[u].c, disk) = e.digest
<1>0. PICK now : now = TextOn(u, disk[u].c, disk)
  OBVIOUS
<1>m. MadeOf(u, disk[u].c, disk, now)
  BY <1>0, TextMade, Zenon
<1>1. /\ DOMAIN e.deps = Deps(u, e.digest) /\ TextOf(u, e.digest)
      /\ \A f \in DOMAIN e.deps : disk[f].c # 0 /\ disk[f].c = Part(u, e.digest, f)
  BY DEF Keyed, Remembers, StillValid, Knows
<1>2. u \in DOMAIN e.deps /\ (Search[u] # <<>> => e.digest.from \in DOMAIN e.deps /\ e.digest.from # u)
  BY <1>1, TextFiles
<1>3. now.from = e.digest.from
  BY <1>0 DEF Shadowed
<1>4. now # None
  <2>1. disk[u].c # 0
    BY <1>1, <1>2
  <2>2. Search[u] # <<>> => e.digest.from # ""
    BY <1>1, IncrementalAssumption DEF TextOf, File
  <2> QED
    BY <1>m, <1>3, <2>1, <2>2 DEF MadeOf
<1>5. /\ TextOf(u, now) /\ now.src = disk[u].c
      /\ Search[u] # <<>> => now.inc = disk[now.from].c
  BY <1>m, <1>4 DEF MadeOf
<1>6. now.src = e.digest.src /\ (Search[u] # <<>> => now.inc = e.digest.inc)
  BY <1>1, <1>2, <1>3, <1>5 DEF Part
<1>7. now = e.digest
  BY <1>1, <1>3, <1>5, <1>6, TextsEqual
<1> QED
  BY <1>0, <1>7

\* .dcstate is as good as the invariant says.
LEMMA KeptIsSound == DiskType /\ StateKept => StateSound
<1> SUFFICES ASSUME DiskType, StateKept, NEW u \in DOMAIN dcstate.of,
                    StillValid(dcstate.of[u]), ~dcstate.of[u].raced, ~Shadowed(u, dcstate.of[u])
             PROVE  dcstate.of[u].key = CompileKey(dcstate.config, u, TextOn(u, disk[u].c, disk))
  BY DEF StateSound
<1>1. u \in Unit /\ Keyed(dcstate.config, u, dcstate.of[u]) /\ Remembers(u, dcstate.of[u])
  BY DEF StateKept
<1>2. TextOn(u, disk[u].c, disk) = dcstate.of[u].digest
  BY <1>1, ValidText
<1> QED
  BY <1>1, <1>2 DEF Keyed

-----------------------------------------------------------------------------
(* The steps of one unit *)

\* The fields of a unit nothing is known of.
LEMMA BlankFields ==
  /\ IsUnit(Blank) /\ Blank.at = "look" /\ Blank.key = NoKey
  /\ Blank.raced = FALSE /\ Blank.fresh = FALSE /\ Blank.error = FALSE
<1>1. PICK e : e = Blank
  OBVIOUS
<1>2. e = [at |-> "look", key |-> NoKey, digest |-> None, deps |-> <<>>, read |-> <<>>,
           raced |-> FALSE, fresh |-> FALSE, error |-> FALSE, opened |-> Closed]
  BY <1>1 DEF Blank
<1>3. /\ e.at = "look" /\ e.key = NoKey /\ e.digest = None /\ e.deps = <<>> /\ e.read = <<>>
      /\ e.raced = FALSE /\ e.fresh = FALSE /\ e.error = FALSE /\ e.opened = Closed
  BY ONLY <1>2
<1>4. IsUnit(e)
  BY <1>2, <1>3, Zenon DEF IsUnit
<1> QED
  BY <1>1, <1>3, <1>4

\* Such a unit is right before the keys are known.
LEMMA BlankRight ==
  ASSUME NEW u, phase \in {"idle", "keys"}
  PROVE  UnitRight(u, Blank)
BY BlankFields DEF UnitRight, Ats, HasKey, Opened, JustMade, Stage, Needed

\* Nothing is known at first.
LEMMA InitInc == Init => IncInv
<1> SUFFICES ASSUME Init PROVE IncInv
  OBVIOUS
<1>1. DiskType
  BY DEF Init, DiskType
<1>2. StateKept
  <2>1. dcstate.of = <<>>
    BY DEF Init
  <2>2. DOMAIN dcstate.of = {}
    BY <2>1
  <2> QED
    BY <2>2 DEF StateKept
<1>3. Build /\ RefusalExplained
  BY DEF Init, Build, Phases, RefusalExplained
<1>4. ASSUME NEW u \in Unit PROVE UnitRight(u, unit[u])
  <2>1. unit[u] = Blank /\ phase \in {"idle", "keys"}
    BY DEF Init
  <2> QED
    BY <2>1, BlankRight
<1> QED
  BY <1>1, <1>2, <1>3, <1>4 DEF IncInv

\* A step that changes one unit only has to leave that one right.
LEMMA UnitStep ==
  ASSUME IncInv, NEW u \in Unit, NEW e, UnitRight(u, e), unit' = [unit EXCEPT ![u] = e],
         phase # "refused",
         UNCHANGED <<disk, dcstate, config, phase, need, coordinator, past, edits, builds>>
  PROVE  IncInv'
<1>1. UNCHANGED <<disk, dcstate, config, phase, need, cache, blobs, past, edits>>
  BY DEF coordinator
<1>2. unit' \in [Unit -> {unit'[v] : v \in Unit}] /\ DOMAIN unit' = Unit
  BY DEF IncInv, Build
<1>3. DiskType' /\ StateKept'
  BY <1>1 DEF IncInv, DiskType, StateKept, IsUnit, Keyed, Remembers, Knows
<1>4. Build' /\ RefusalExplained'
  BY <1>1, <1>2 DEF IncInv, Build, RefusalExplained
<1>5. ASSUME NEW v \in Unit PROVE UnitRight(v, unit[v])'
  <2>1. UnitRight(v, unit'[v])
    <3>1. CASE v = u
      <4>1. unit'[v] = e
        BY <3>1 DEF IncInv, Build
      <4> QED
        BY <3>1, <4>1
    <3>2. CASE v # u
      <4>1. unit'[v] = unit[v]
        BY <3>2 DEF IncInv, Build
      <4> QED
        BY <4>1 DEF IncInv
    <3> QED
      BY <3>1, <3>2
  <2>2. PICK w : w = unit'[v]
    OBVIOUS
  <2>3. UnitRight(v, w) => UnitRight(v, w)'
    BY <1>1 DEF UnitRight, HasKey, Opened, JustMade, Stage, Needed, Keyed, Remembers, Rooted, Knows
  <2> QED
    BY <2>1, <2>2, <2>3
<1> QED
  BY <1>3, <1>4, <1>5 DEF IncInv

\* A unit that is given to gcc, or that gcc has opened, has what it had.
LEMMA UnitToGcc ==
  ASSUME NEW u, NEW o, UnitRight(u, o), phase \in {"keys", "upload"},
         o.at \in {"look", "preprocess"}, NEW e, e = [o EXCEPT !.at = "preprocess"]
  PROVE  UnitRight(u, e)
<1>1. o = [at |-> o.at, key |-> o.key, digest |-> o.digest, deps |-> o.deps, read |-> o.read,
           raced |-> o.raced, fresh |-> o.fresh, error |-> o.error, opened |-> o.opened]
      /\ o.raced \in BOOLEAN /\ o.fresh \in BOOLEAN /\ o.error \in BOOLEAN
  BY DEF UnitRight, IsUnit
<1>2. e = [at |-> "preprocess", key |-> o.key, digest |-> o.digest, deps |-> o.deps, read |-> o.read,
           raced |-> o.raced, fresh |-> o.fresh, error |-> o.error, opened |-> o.opened]
  BY ONLY <1>1, e = [o EXCEPT !.at = "preprocess"]
<1>3. /\ e.at = "preprocess" /\ e.key = o.key /\ e.digest = o.digest /\ e.deps = o.deps
      /\ e.read = o.read /\ e.raced = o.raced /\ e.fresh = o.fresh /\ e.error = o.error
      /\ e.opened = o.opened
  BY ONLY <1>2
<1>4. IsUnit(e)
  BY ONLY <1>1, <1>2, <1>3 DEF IsUnit
<1> QED
  BY <1>3, <1>4 DEF UnitRight, Ats, HasKey, Keyed, Remembers, Rooted, Opened, JustMade, Stage, Needed

\* A unit that is reused has the key of an entry that still_valid has taken.
LEMMA LookStep ==
  ASSUME IncInv, NEW u \in Unit, Look(u)
  PROVE  IncInv'
<1>1. /\ phase = "keys" /\ unit[u].at = "look"
      /\ UNCHANGED <<disk, dcstate, config, phase, need, coordinator, past, edits, builds>>
  BY DEF Look
<1>2. UnitRight(u, unit[u]) /\ DiskType /\ StateKept /\ DOMAIN unit = Unit
  BY DEF IncInv, Build
<1>3. CASE u \in DOMAIN Loaded /\ StillValid(Loaded[u])
  <2>1. Loaded = dcstate.of /\ dcstate.config = config
    <3>1. DOMAIN << >> = {}
      OBVIOUS
    <3> QED
      BY <1>3, <3>1 DEF Loaded
  <2>2. PICK o : o = dcstate.of[u]
    OBVIOUS
  <2>3. IsUnit(o) /\ ~o.error /\ Keyed(config, u, o) /\ Remembers(u, o) /\ StillValid(o)
    BY <1>2, <1>3, <2>1, <2>2 DEF StateKept
  <2>4. PICK e : e = [o EXCEPT !.at = "set", !.fresh = FALSE]
    OBVIOUS
  <2>5. unit' = [unit EXCEPT ![u] = e]
    BY <1>3, <2>1, <2>2, <2>4 DEF Look
  <2>6. o = [at |-> o.at, key |-> o.key, digest |-> o.digest, deps |-> o.deps, read |-> o.read,
             raced |-> o.raced, fresh |-> o.fresh, error |-> o.error, opened |-> o.opened]
        /\ o.raced \in BOOLEAN /\ o.error \in BOOLEAN
    BY <2>3 DEF IsUnit
  <2>7. e = [at |-> "set", key |-> o.key, digest |-> o.digest, deps |-> o.deps, read |-> o.read,
             raced |-> o.raced, fresh |-> FALSE, error |-> o.error, opened |-> o.opened]
    BY ONLY <2>4, <2>6
  <2>8. /\ e.at = "set" /\ e.key = o.key /\ e.digest = o.digest /\ e.deps = o.deps /\ e.read = o.read
        /\ e.raced = o.raced /\ e.fresh = FALSE /\ e.error = o.error /\ e.opened = o.opened
    BY ONLY <2>7
  <2>9. IsUnit(e)
    BY ONLY <2>6, <2>7, <2>8 DEF IsUnit
  <2>10. Keyed(config, u, e) /\ Remembers(u, e)
    BY <2>3, <2>8 DEF Keyed, Remembers
  <2>11. config \in Config /\ disk \in past
    BY <1>1 DEF IncInv, Build
  <2>12. o.key # NoKey
    BY <2>3, <2>11, KeyThere DEF Keyed
  <2>13. Rooted(u, e)
    <3>1. CASE o.raced
      BY <2>8, <3>1 DEF Rooted
    <3>2. CASE Shadowed(u, o)
      BY <2>8, <2>11, <3>2 DEF Rooted, Shadowed
    <3>3. CASE ~o.raced /\ ~Shadowed(u, o)
      <4>1. TextOn(u, disk[u].c, disk) = o.digest
        BY <1>2, <2>3, <3>3, ValidText
      <4>2. o.digest # None /\ o.key = CompileKey(config, u, o.digest)
        BY <2>3, TextFiles DEF Keyed
      <4> QED
        BY <2>8, <2>11, <4>1, <4>2 DEF Rooted
    <3> QED
      BY <3>1, <3>2, <3>3
  <2>14. UnitRight(u, e)
    BY <1>1, <2>8, <2>9, <2>10, <2>12, <2>13
       DEF UnitRight, Ats, HasKey, Opened, JustMade, Stage, Needed
  <2> QED
    BY <1>1, <2>5, <2>14, UnitStep
<1>4. CASE ~(u \in DOMAIN Loaded /\ StillValid(Loaded[u]))
  <2>1. PICK o : o = unit[u]
    OBVIOUS
  <2>2. PICK e : e = [o EXCEPT !.at = "preprocess"]
    OBVIOUS
  <2>3. unit' = [unit EXCEPT ![u] = e]
    BY <1>2, <1>4, <2>1, <2>2 DEF Look
  <2>4. UnitRight(u, o) /\ o.at = "look"
    BY <1>1, <1>2, <2>1
  <2>5. UnitRight(u, e)
    BY <1>1, <2>2, <2>4, UnitToGcc
  <2> QED
    BY <1>1, <2>3, <2>5, UnitStep
<1> QED
  BY <1>3, <1>4

\* gcc runs while keys are made or made again, and nothing else happens to the unit.
LEMMA GccPhase ==
  ASSUME IncInv, NEW u \in Unit, unit[u].at \in {"preprocess", "include", "stamp"}
  PROVE  /\ phase \in {"keys", "upload"} /\ config \in Config /\ disk \in past
         /\ phase = "upload" => u \in need
         /\ DiskType /\ DOMAIN unit = Unit /\ UnitRight(u, unit[u])
<1>1. UnitRight(u, unit[u]) /\ phase \in Phases
  BY DEF IncInv, Build
<1>2. phase \in {"keys", "upload"} /\ (phase = "upload" => u \in need)
  BY <1>1 DEF UnitRight, Stage, Needed, Phases
<1> QED
  BY <1>1, <1>2 DEF IncInv, Build

\* gcc reads the source.
LEMMA ReadSourceStep ==
  ASSUME IncInv, NEW u \in Unit, ReadSource(u)
  PROVE  IncInv'
<1>1. /\ unit[u].at = "preprocess"
      /\ UNCHANGED <<disk, dcstate, config, phase, need, coordinator, past, edits, builds>>
  BY DEF ReadSource
<1>2. PICK o : o = unit[u]
  OBVIOUS
<1>3. PICK e : e = [o EXCEPT !.at = "include", !.opened = disk[u]]
  OBVIOUS
<1>4. phase \in {"keys", "upload"} /\ UnitRight(u, o) /\ o.at = "preprocess" /\ DiskType /\ DOMAIN unit = Unit
  BY <1>1, <1>2, GccPhase
<1>5. unit' = [unit EXCEPT ![u] = e]
  BY <1>2, <1>3, <1>4 DEF ReadSource
<1>6. o = [at |-> o.at, key |-> o.key, digest |-> o.digest, deps |-> o.deps, read |-> o.read,
           raced |-> o.raced, fresh |-> o.fresh, error |-> o.error, opened |-> o.opened]
      /\ o.raced \in BOOLEAN /\ o.fresh \in BOOLEAN /\ o.error \in BOOLEAN
  BY <1>4 DEF UnitRight, IsUnit
<1>7. e = [at |-> "include", key |-> o.key, digest |-> o.digest, deps |-> o.deps, read |-> o.read,
           raced |-> o.raced, fresh |-> o.fresh, error |-> o.error, opened |-> disk[u]]
  BY ONLY <1>3, <1>6
<1>8. /\ e.at = "include" /\ e.key = o.key /\ e.digest = o.digest /\ e.deps = o.deps
      /\ e.read = o.read /\ e.raced = o.raced /\ e.fresh = o.fresh /\ e.error = o.error
      /\ e.opened = disk[u]
  BY ONLY <1>7
<1>9. IsUnit(e)
  <2>1. e = [at |-> e.at, key |-> e.key, digest |-> e.digest, deps |-> e.deps, read |-> e.read,
             raced |-> e.raced, fresh |-> e.fresh, error |-> e.error, opened |-> e.opened]
    BY ONLY <1>7, <1>8
  <2> QED
    BY ONLY <1>6, <1>8, <2>1 DEF IsUnit
<1>10. Opened(u, e)
  <2>1. u \in File /\ disk[u].m \in Nat
    BY <1>4 DEF DiskType, File
  <2> QED
    BY <1>8, <2>1 DEF Opened, Knows
<1>11. UnitRight(u, e)
  BY <1>4, <1>8, <1>9, <1>10 DEF UnitRight, Ats, HasKey, Keyed, Remembers, Rooted, JustMade, Stage, Needed
<1> QED
  BY <1>1, <1>4, <1>5, <1>11, UnitStep

\* The text that gcc has made is of files that it has read.
LEMMA ReadsKnown ==
  ASSUME DiskType, NEW u \in Unit, NEW o, Knows(u, o.m, o.c),
         NEW text, text = TextOn(u, o.c, disk), text # None,
         NEW read, read = [f \in Deps(u, text) |-> IF f = u THEN o.m ELSE disk[f].m]
  PROVE  /\ TextOf(u, text) /\ DOMAIN read = Deps(u, text)
         /\ \A f \in DOMAIN read : Knows(f, read[f], Part(u, text, f))
         /\ TextOn(u, disk[u].c, disk) = text \/ disk[u].m > read[u]
<1>1. MadeOf(u, o.c, disk, text)
  BY TextMade
<1>2. /\ TextOf(u, text) /\ text.src = o.c
      /\ Search[u] # <<>> => text.inc = disk[text.from].c
  BY <1>1 DEF MadeOf
<1>3. Deps(u, text) \subseteq File /\ u \in Deps(u, text) /\ DOMAIN read = Deps(u, text) /\ read[u] = o.m
  BY <1>2, TextFiles
<1>4. ASSUME NEW f \in DOMAIN read PROVE Knows(f, read[f], Part(u, text, f))
  <2>1. CASE f = u
    BY <1>2, <1>3, <2>1 DEF Part
  <2>2. CASE f # u
    <3>1. f = text.from /\ Search[u] # <<>>
      BY <1>2, <1>3, <2>2 DEF Deps, TextOf
    <3>2. disk[f].m \in Nat /\ read[f] = disk[f].m
      BY <1>3, <2>2 DEF DiskType
    <3> QED
      BY <1>2, <2>2, <3>1, <3>2 DEF Knows, Part
  <2> QED
    BY <2>1, <2>2
<1>5. TextOn(u, disk[u].c, disk) = text \/ disk[u].m > read[u]
  <2>1. disk[u].m \in Nat /\ o.m \in Nat /\ o.m <= disk[u].m /\ (disk[u].m = o.m => disk[u].c = o.c)
    BY <1>3 DEF DiskType, Knows
  <2>2. CASE disk[u].m = o.m
    <3>1. disk[u].c = o.c
      BY <2>1, <2>2
    <3> QED
      BY <3>1
  <2>3. CASE disk[u].m # o.m
    BY <1>3, <2>1, <2>3
  <2> QED
    BY <2>2, <2>3
<1> QED
  BY <1>2, <1>3, <1>4, <1>5

\* gcc has the text, or fails.
LEMMA ReadHeadersStep ==
  ASSUME IncInv, NEW u \in Unit, ReadHeaders(u)
  PROVE  IncInv'
<1>1. /\ unit[u].at = "include"
      /\ UNCHANGED <<disk, dcstate, config, phase, need, coordinator, past, edits, builds>>
  BY DEF ReadHeaders
<1>2. PICK o : o = unit[u]
  OBVIOUS
<1>3. /\ phase \in {"keys", "upload"} /\ UnitRight(u, o) /\ o.at = "include" /\ DiskType
      /\ DOMAIN unit = Unit /\ config \in Config /\ disk \in past
      /\ phase = "upload" => u \in need
  BY <1>1, <1>2, GccPhase
<1>4. PICK text : text = TextOn(u, o.opened.c, disk)
  OBVIOUS
<1>5. o = [at |-> o.at, key |-> o.key, digest |-> o.digest, deps |-> o.deps, read |-> o.read,
           raced |-> o.raced, fresh |-> o.fresh, error |-> o.error, opened |-> o.opened]
      /\ o.raced \in BOOLEAN /\ o.fresh \in BOOLEAN /\ o.error \in BOOLEAN
  BY <1>3 DEF UnitRight, IsUnit
<1>6. CASE text = None
  <2>1. PICK e : e = [o EXCEPT !.at = "set", !.error = TRUE, !.opened = Closed]
    OBVIOUS
  <2>2. unit' = [unit EXCEPT ![u].at = "set", ![u].error = TRUE, ![u].opened = Closed]
    BY <1>2, <1>4, <1>6 DEF ReadHeaders
  <2>3. unit' = [unit EXCEPT ![u] = e]
    BY <1>2, <1>3, <2>1, <2>2
  <2>4. e = [at |-> "set", key |-> o.key, digest |-> o.digest, deps |-> o.deps, read |-> o.read,
             raced |-> o.raced, fresh |-> o.fresh, error |-> TRUE, opened |-> Closed]
    BY ONLY <1>5, <2>1
  <2>5. /\ e.at = "set" /\ e.key = o.key /\ e.digest = o.digest /\ e.deps = o.deps
        /\ e.read = o.read /\ e.raced = o.raced /\ e.fresh = o.fresh /\ e.error = TRUE
        /\ e.opened = Closed
    BY ONLY <2>4
  <2>6. IsUnit(e)
    <3>1. e = [at |-> e.at, key |-> e.key, digest |-> e.digest, deps |-> e.deps, read |-> e.read,
               raced |-> e.raced, fresh |-> e.fresh, error |-> e.error, opened |-> e.opened]
      BY ONLY <2>4, <2>5
    <3> QED
      BY ONLY <1>5, <2>5, <3>1 DEF IsUnit
  <2>7. UnitRight(u, e)
    BY <1>3, <2>5, <2>6
       DEF UnitRight, Ats, HasKey, Keyed, Remembers, Rooted, Opened, JustMade, Stage, Needed
  <2> QED
    BY <1>1, <1>3, <2>3, <2>7, UnitStep
<1>7. CASE text # None
  <2>1. PICK read : read = [f \in Deps(u, text) |-> IF f = u THEN o.opened.m ELSE disk[f].m]
    OBVIOUS
  <2>2. PICK key : key = CompileKey(config, u, text)
    OBVIOUS
  <2>3. PICK e : e = [o EXCEPT !.at = "stamp", !.key = key, !.digest = text, !.read = read,
                        !.fresh = TRUE, !.opened = Closed]
    OBVIOUS
  <2>4. unit' = [unit EXCEPT ![u] = [@ EXCEPT !.at = "stamp", !.key = key, !.digest = text,
                   !.read = read, !.fresh = TRUE, !.opened = Closed]]
    BY <1>2, <1>4, <1>7, <2>1, <2>2 DEF ReadHeaders, Rekeyed
  <2>5. unit' = [unit EXCEPT ![u] = e]
    BY <1>2, <1>3, <2>3, <2>4
  <2>6. e = [at |-> "stamp", key |-> key, digest |-> text, deps |-> o.deps, read |-> read,
             raced |-> o.raced, fresh |-> TRUE, error |-> o.error, opened |-> Closed]
    BY ONLY <1>5, <2>3
  <2>7. /\ e.at = "stamp" /\ e.key = key /\ e.digest = text /\ e.deps = o.deps
        /\ e.read = read /\ e.raced = o.raced /\ e.fresh = TRUE /\ e.error = o.error
        /\ e.opened = Closed
    BY ONLY <2>6
  <2>8. IsUnit(e)
    <3>1. e = [at |-> e.at, key |-> e.key, digest |-> e.digest, deps |-> e.deps, read |-> e.read,
               raced |-> e.raced, fresh |-> e.fresh, error |-> e.error, opened |-> e.opened]
      BY ONLY <2>6, <2>7
    <3> QED
      BY ONLY <1>5, <2>7, <3>1 DEF IsUnit
  <2>9. Knows(u, o.opened.m, o.opened.c)
    BY <1>3 DEF UnitRight, Opened
  <2>10. /\ TextOf(u, text) /\ DOMAIN read = Deps(u, text)
         /\ \A f \in DOMAIN read : Knows(f, read[f], Part(u, text, f))
         /\ TextOn(u, disk[u].c, disk) = text \/ disk[u].m > read[u]
    BY <1>3, <1>4, <1>7, <2>1, <2>9, ReadsKnown
  <2>11. key # NoKey
    BY <1>3, <2>2, KeyThere
  <2>12. JustMade(u, e)
    BY <1>3, <2>7, <2>10, <2>11 DEF JustMade
  <2>13. HasKey(u, e)
    BY <2>2, <2>7, <2>10 DEF HasKey, Keyed
  <2>14. UnitRight(u, e)
    BY <1>3, <2>7, <2>8, <2>11, <2>12, <2>13 DEF UnitRight, Ats, Opened, Stage, Needed
  <2> QED
    BY <1>1, <1>3, <2>5, <2>14, UnitStep
<1> QED
  BY <1>6, <1>7

\* run_preprocess looks at the stamps: a unit that is not raced knows its files.
LEMMA StampStep ==
  ASSUME IncInv, NEW u \in Unit, Stamp(u)
  PROVE  IncInv'
<1>1. /\ unit[u].at = "stamp"
      /\ UNCHANGED <<disk, dcstate, config, phase, need, coordinator, past, edits, builds>>
  BY DEF Stamp
<1>2. PICK o : o = unit[u]
  OBVIOUS
<1>3. /\ phase \in {"keys", "upload"} /\ UnitRight(u, o) /\ o.at = "stamp" /\ DiskType
      /\ DOMAIN unit = Unit /\ (phase = "upload" => u \in need)
  BY <1>1, <1>2, GccPhase
<1>4. PICK deps : deps = Stamps(Deps(u, o.digest))
  OBVIOUS
<1>5. PICK raced \in BOOLEAN :
        raced = (\E f \in DOMAIN o.read : disk[f].c = 0 \/ disk[f].m # o.read[f])
  OBVIOUS
<1>6. PICK e : e = [o EXCEPT !.at = "set", !.deps = deps, !.read = << >>, !.raced = raced]
  OBVIOUS
<1>7. unit' = [unit EXCEPT ![u] = [@ EXCEPT !.at = "set", !.deps = deps, !.read = << >>, !.raced = raced]]
  BY <1>2, <1>4, <1>5 DEF Stamp, Stamped
<1>8. unit' = [unit EXCEPT ![u] = e]
  BY <1>2, <1>3, <1>6, <1>7
<1>9. o = [at |-> o.at, key |-> o.key, digest |-> o.digest, deps |-> o.deps, read |-> o.read,
           raced |-> o.raced, fresh |-> o.fresh, error |-> o.error, opened |-> o.opened]
      /\ o.raced \in BOOLEAN /\ o.fresh \in BOOLEAN /\ o.error \in BOOLEAN
  BY <1>3 DEF UnitRight, IsUnit
<1>10. e = [at |-> "set", key |-> o.key, digest |-> o.digest, deps |-> deps, read |-> << >>,
            raced |-> raced, fresh |-> o.fresh, error |-> o.error, opened |-> o.opened]
  BY ONLY <1>6, <1>9
<1>11. /\ e.at = "set" /\ e.key = o.key /\ e.digest = o.digest /\ e.deps = deps
       /\ e.read = << >> /\ e.raced = raced /\ e.fresh = o.fresh /\ e.error = o.error
       /\ e.opened = o.opened
  BY ONLY <1>10
<1>12. IsUnit(e)
  <2>1. e = [at |-> e.at, key |-> e.key, digest |-> e.digest, deps |-> e.deps, read |-> e.read,
             raced |-> e.raced, fresh |-> e.fresh, error |-> e.error, opened |-> e.opened]
    BY ONLY <1>10, <1>11
  <2> QED
    BY ONLY <1>5, <1>9, <1>11, <2>1 DEF IsUnit
<1>13. /\ o.key # NoKey /\ o.fresh /\ DOMAIN o.read = Deps(u, o.digest)
       /\ \A f \in DOMAIN o.read : Knows(f, o.read[f], Part(u, o.digest, f))
       /\ (\E d \in past : TextOn(u, d[u].c, d) = o.digest) \/ disk[u].m > o.read[u]
  BY <1>3 DEF UnitRight, JustMade
<1>14. Keyed(config, u, o) /\ TextOf(u, o.digest)
  BY <1>3, <1>13 DEF UnitRight, HasKey, Keyed
<1>15. u \in DOMAIN o.read /\ Deps(u, o.digest) \subseteq File /\ o.digest # None
  BY <1>13, <1>14, TextFiles
<1>16. ASSUME ~raced
       PROVE  /\ DOMAIN deps = Deps(u, o.digest)
              /\ \A f \in DOMAIN deps : deps[f] = o.read[f]
              /\ \E d \in past : TextOn(u, d[u].c, d) = o.digest
  <2>1. \A f \in Deps(u, o.digest) : disk[f].c # 0 /\ disk[f].m = o.read[f]
    BY <1>5, <1>13, <1>16
  <2>2. deps = [f \in {g \in Deps(u, o.digest) : disk[g].c # 0} |-> disk[f].m]
    BY <1>4 DEF Stamps
  <2>3. {g \in Deps(u, o.digest) : disk[g].c # 0} = Deps(u, o.digest)
    BY <2>1
  <2>4. disk[u].m = o.read[u] /\ disk[u].m \in Nat
    BY <1>3, <1>13, <1>15, <2>1 DEF DiskType
  <2> QED
    BY <1>13, <2>1, <2>2, <2>3, <2>4
<1>17. Remembers(u, e)
  BY <1>11, <1>13, <1>16 DEF Remembers
<1>18. Rooted(u, e)
  <2>1. CASE raced
    BY <1>11, <2>1 DEF Rooted
  <2>2. CASE ~raced
    <3>1. PICK d \in past : TextOn(u, d[u].c, d) = o.digest
      BY <1>16, <2>2
    <3> QED
      BY <1>11, <1>14, <1>15, <3>1 DEF Rooted, Keyed
  <2> QED
    BY <2>1, <2>2
<1>19. UnitRight(u, e)
  BY <1>3, <1>11, <1>12, <1>13, <1>14, <1>17, <1>18
     DEF UnitRight, Ats, HasKey, Keyed, Opened, JustMade, Stage, Needed
<1> QED
  BY <1>1, <1>3, <1>8, <1>19, UnitStep

-----------------------------------------------------------------------------
(* The user, and the steps of the whole build *)

\* A new stamp is later than every stamp that is known.
LEMMA EditStep ==
  ASSUME IncInv, NEW x \in Edits, Edit(x[1], x[2])
  PROVE  IncInv'
<1>1. PICK f \in File, c \in Content \cup {0} : x[1] = f /\ x[2] = c
  BY IncrementalAssumption
<1>2. /\ edits' = edits + 1 /\ disk' = [disk EXCEPT ![f] = [c |-> c, m |-> edits + 1]]
      /\ past' = IF phase = "idle" THEN past ELSE past \cup {disk'}
      /\ UNCHANGED <<dcstate, config, phase, unit, need, cache, blobs, builds>>
  BY <1>1 DEF Edit, coordinator
<1>3. /\ edits \in Nat /\ disk \in [File -> [c : Content \cup {0}, m : Nat]]
      /\ \A g \in File : disk[g].m <= edits
  BY DEF IncInv, DiskType
<1>4. /\ disk' \in [File -> [c : Content \cup {0}, m : Nat]]
      /\ \A g \in File : g # f => disk'[g] = disk[g]
      /\ disk'[f] = [c |-> c, m |-> edits + 1] /\ disk'[f].m = edits + 1
  BY <1>2, <1>3
<1>5. \A g \in File : disk'[g].m \in Nat /\ disk[g].m \in Nat /\ disk[g].m <= disk'[g].m /\ disk'[g].m <= edits'
  BY <1>2, <1>3, <1>4
<1>6. ASSUME NEW g \in File, NEW m, NEW k, Knows(g, m, k) PROVE Knows(g, m, k)'
  BY <1>3, <1>4, <1>5, <1>6 DEF Knows
<1>7. DiskType'
  BY <1>2, <1>3, <1>4, <1>5 DEF DiskType
<1>8. past \subseteq past' /\ (phase # "idle" => disk' \in past')
  BY <1>2
<1>9. ASSUME NEW u \in Unit, NEW e, TextOf(u, e.digest), Remembers(u, e) PROVE Remembers(u, e)'
  <2>1. Deps(u, e.digest) \subseteq File
    BY <1>9, TextFiles
  <2> QED
    BY <1>6, <1>9, <2>1 DEF Remembers
<1>10. StateKept'
  <2> SUFFICES ASSUME NEW u \in DOMAIN dcstate.of
               PROVE  Remembers(u, dcstate.of[u])'
    BY <1>2 DEF IncInv, StateKept, IsUnit, Keyed
  <2>1. PICK e : e = dcstate.of[u]
    OBVIOUS
  <2>2. u \in Unit /\ TextOf(u, e.digest) /\ Remembers(u, e)
    BY <2>1 DEF IncInv, StateKept, Keyed
  <2>3. Remembers(u, e)' /\ e = dcstate'.of[u]
    BY <1>2, <1>9, <2>1, <2>2
  <2> QED
    BY <2>3
<1>11. Build' /\ RefusalExplained'
  BY <1>2, <1>8 DEF IncInv, Build, RefusalExplained
<1>12. ASSUME NEW u \in Unit PROVE UnitRight(u, unit[u])'
  <2>1. PICK e : e = unit[u]
    OBVIOUS
  <2>2. UnitRight(u, e) /\ u \in File
    BY <2>1 DEF IncInv, File
  <2>3. HasKey(u, e)'
    <3>1. Keyed(config, u, e) => Keyed(config, u, e)'
      BY <1>2 DEF Keyed
    <3>2. Rooted(u, e) => Rooted(u, e)'
      BY <1>2, <1>8 DEF Rooted
    <3>3. Keyed(config, u, e) => TextOf(u, e.digest)
      BY DEF Keyed
    <3> QED
      BY <1>9, <2>2, <3>1, <3>2, <3>3 DEF UnitRight, HasKey
  <2>4. Opened(u, e)'
    BY <1>6, <2>2 DEF UnitRight, Opened
  <2>5. JustMade(u, e)'
    <3> SUFFICES ASSUME e.at = "stamp" PROVE JustMade(u, e)'
      BY DEF JustMade
    <3>1. /\ e.key # NoKey /\ e.fresh /\ DOMAIN e.read = Deps(u, e.digest)
          /\ \A g \in DOMAIN e.read : Knows(g, e.read[g], Part(u, e.digest, g))
          /\ (\E d \in past : TextOn(u, d[u].c, d) = e.digest) \/ disk[u].m > e.read[u]
      BY <2>2 DEF UnitRight, JustMade
    <3>2. TextOf(u, e.digest)
      BY <2>2, <3>1 DEF UnitRight, HasKey, Keyed
    <3>3. Deps(u, e.digest) \subseteq File /\ u \in DOMAIN e.read
      BY <3>1, <3>2, TextFiles
    <3>4. \A g \in DOMAIN e.read : Knows(g, e.read[g], Part(u, e.digest, g))'
      BY <1>6, <3>1, <3>3
    <3>5. (\E d \in past' : TextOn(u, d[u].c, d) = e.digest) \/ disk'[u].m > e.read[u]
      <4>1. e.read[u] \in Nat
        BY <3>1, <3>3 DEF Knows
      <4>2. CASE \E d \in past : TextOn(u, d[u].c, d) = e.digest
        BY <1>8, <4>2
      <4>3. CASE disk[u].m > e.read[u]
        BY <1>5, <2>2, <4>1, <4>3
      <4> QED
        BY <3>1, <4>2, <4>3
    <3> QED
      BY <3>1, <3>4, <3>5 DEF JustMade
  <2>6. (IsUnit(e) /\ e.at \in Ats /\ Stage(u, e) /\ Needed(u, e))'
    BY <1>2, <2>2 DEF UnitRight, IsUnit, Stage, Needed
  <2>7. UnitRight(u, e)' /\ e = unit'[u]
    BY <1>2, <2>1, <2>3, <2>4, <2>5, <2>6 DEF UnitRight
  <2> QED
    BY <2>7
<1> QED
  BY <1>7, <1>10, <1>11, <1>12 DEF IncInv

\* A stutter, and another coordinator between two builds.
LEMMA IdleStep ==
  ASSUME IncInv, UNCHANGED vars \/ Elsewhere
  PROVE  IncInv'
<1>1. /\ UNCHANGED <<disk, dcstate, config, phase, unit, need, past, edits>>
      /\ phase = "idle" \/ UNCHANGED <<cache, blobs>>
  BY DEF vars, Elsewhere
<1>2. DiskType' /\ StateKept'
  BY <1>1 DEF IncInv, DiskType, StateKept, IsUnit, Keyed, Remembers, Knows
<1>3. Build' /\ RefusalExplained'
  BY <1>1 DEF IncInv, Build, RefusalExplained
<1>4. ASSUME NEW u \in Unit PROVE UnitRight(u, unit[u])'
  <2>1. PICK e : e = unit[u]
    OBVIOUS
  <2>2. UnitRight(u, e)
    BY <2>1 DEF IncInv
  <2>3. UnitRight(u, e)'
    BY <1>1, <2>2
       DEF UnitRight, HasKey, Opened, JustMade, Stage, Needed, Keyed, Remembers, Rooted, Knows
  <2> QED
    BY <1>1, <2>1, <2>3
<1> QED
  BY <1>2, <1>3, <1>4 DEF IncInv

\* Before the keys nothing is known of any unit, and a build that ends forgets what it
\* knew.
LEMMA BlankStep ==
  ASSUME IncInv, UNCHANGED <<disk, edits>>, StateKept',
         unit' = [u \in Unit |-> Blank], need' = {}, phase' \in {"idle", "keys"},
         phase' = "keys" => config' \in Config /\ disk' \in past'
  PROVE  IncInv'
<1>1. DiskType'
  BY DEF IncInv, DiskType
<1>2. Build' /\ RefusalExplained'
  BY DEF Build, RefusalExplained, Phases
<1>3. ASSUME NEW u \in Unit PROVE UnitRight(u, unit[u])'
  <2>1. PICK e : e = Blank
    OBVIOUS
  <2>2. UnitRight(u, e)'
    BY <2>1, BlankFields DEF UnitRight, Ats, HasKey, Opened, JustMade, Stage, Needed, IsUnit
  <2>3. unit'[u] = e
    BY <2>1
  <2> QED
    BY <2>2, <2>3
<1> QED
  BY <1>1, <1>2, <1>3 DEF IncInv

\* .dcstate is kept when nobody writes it and no file changes.
LEMMA StateStays ==
  ASSUME StateKept, UNCHANGED <<disk, dcstate>>
  PROVE  StateKept'
BY DEF StateKept, IsUnit, Keyed, Remembers, Knows

\* load_manifest begins with what is on the disk.
LEMMA StartStep == ASSUME IncInv, StartBuild PROVE IncInv'
<1>1. StateKept'
  BY StateStays DEF IncInv, StartBuild
<1> QED
  BY <1>1, BlankStep DEF StartBuild

\* Something goes wrong.
LEMMA AbortStep == ASSUME IncInv, Abort PROVE IncInv'
<1>1. StateKept'
  BY StateStays DEF IncInv, Abort
<1> QED
  BY <1>1, BlankStep DEF Abort, Return

\* save_state writes what is known of the units without an error.
LEMMA SaveStep == ASSUME IncInv, SaveState PROVE IncInv'
<1>1. /\ phase = "saving" /\ UNCHANGED <<disk, edits>>
      /\ unit' = [u \in Unit |-> Blank] /\ need' = {} /\ phase' = "idle"
  BY DEF SaveState, Return
<1>2. PICK S \in SUBSET Unit :
        dcstate' = [config |-> config, of |-> [u \in {v \in S : Savable(v)} |-> unit[u]]]
  BY DEF SaveState
<1>3. /\ dcstate'.config = config /\ DOMAIN dcstate'.of = {v \in S : Savable(v)}
      /\ \A u \in DOMAIN dcstate'.of : dcstate'.of[u] = unit[u]
  BY <1>2
<1>4. config \in Config
  BY <1>1 DEF IncInv, Build
<1>5. ASSUME NEW u \in DOMAIN dcstate'.of, NEW e, e = unit[u]
      PROVE  IsUnit(e) /\ ~e.error /\ Keyed(config, u, e) /\ Remembers(u, e)
  <2>1. u \in Unit /\ Savable(u)
    BY <1>3
  <2>2. UnitRight(u, e) /\ ~e.error /\ e.key # NoKey
    BY <1>5, <2>1 DEF IncInv, Savable
  <2> QED
    BY <1>1, <2>2 DEF UnitRight, HasKey, Stage
<1>6. StateKept'
  <2>1. ASSUME NEW u \in DOMAIN dcstate'.of
        PROVE  /\ IsUnit(dcstate'.of[u]) /\ ~dcstate'.of[u].error
               /\ Keyed(dcstate'.config, u, dcstate'.of[u]) /\ Remembers(u, dcstate.of[u])'
    <3>1. PICK e : e = unit[u]
      OBVIOUS
    <3>2. IsUnit(e) /\ ~e.error /\ Keyed(config, u, e) /\ Remembers(u, e)
      BY <1>5, <3>1
    <3>3. Remembers(u, e)'
      BY <1>1, <3>2 DEF Remembers, Knows
    <3>4. dcstate'.of[u] = e /\ dcstate'.config = config
      BY <1>3, <3>1
    <3> QED
      BY <3>2, <3>3, <3>4
  <2> QED
    BY <1>3, <1>4, <2>1 DEF StateKept, IsUnit, Keyed
<1> QED
  BY <1>1, <1>6, BlankStep

\* A step of the build as a whole that leaves keys and files alone.
LEMMA BuildStep ==
  ASSUME IncInv, UNCHANGED <<disk, dcstate, config, unit, past, edits>>,
         phase # "idle", phase' \in Phases \ {"idle"}, need' \subseteq Unit, RefusalExplained',
         \A u \in Unit : \A e : e = unit[u] /\ UnitRight(u, e) => Stage(u, e)' /\ Needed(u, e)'
  PROVE  IncInv'
<1>1. DiskType' /\ StateKept'
  BY StateStays DEF IncInv, DiskType
<1>2. Build'
  BY DEF IncInv, Build
<1>3. ASSUME NEW u \in Unit PROVE UnitRight(u, unit[u])'
  <2>1. PICK e : e = unit[u]
    OBVIOUS
  <2>2. UnitRight(u, e) /\ Stage(u, e)' /\ Needed(u, e)'
    BY <2>1 DEF IncInv
  <2>3. UnitRight(u, e)'
    BY <2>2 DEF UnitRight, HasKey, Opened, JustMade, Keyed, Remembers, Rooted, Knows
  <2> QED
    BY <2>1, <2>3
<1> QED
  BY <1>1, <1>2, <1>3 DEF IncInv

\* CheckCache: every unit has a key by now, and what is not needed is cached.
LEMMA CheckStep == ASSUME IncInv, CheckCache PROVE IncInv'
<1>1. phase = "keys" /\ AllSet /\ UNCHANGED <<disk, dcstate, cache, blobs, edits>>
  BY DEF CheckCache, coordinator
<1>2. CASE \E u \in Unit : unit[u].error
  <2>1. Return
    BY <1>2 DEF CheckCache
  <2>2. StateKept'
    BY <1>1, StateStays DEF IncInv
  <2> QED
    BY <1>1, <2>1, <2>2, BlankStep DEF Return
<1>3. CASE ~\E u \in Unit : unit[u].error
  <2>1. /\ phase' = "again" /\ need' = {u \in Unit : unit[u].key \notin cache}
        /\ UNCHANGED <<config, unit, past>>
    BY <1>3 DEF CheckCache
  <2>2. ASSUME NEW u \in Unit, NEW e, e = unit[u], UnitRight(u, e)
        PROVE  Stage(u, e)' /\ Needed(u, e)'
    <3>1. e.at = "set" /\ ~e.error
      BY <1>1, <1>3, <2>2 DEF AllSet
    <3>2. e.key # NoKey
      BY <1>1, <2>2, <3>1 DEF UnitRight, Stage
    <3>3. u \notin need' => e.key \in cache'
      BY <1>1, <2>1, <2>2
    <3> QED
      BY <2>1, <3>1, <3>2, <3>3 DEF Stage, Needed
  <2>3. RefusalExplained' /\ need' \subseteq Unit
    BY <2>1 DEF RefusalExplained
  <2> QED
    BY <1>1, <2>1, <2>2, <2>3, BuildStep DEF Phases
<1> QED
  BY <1>2, <1>3

\* The build is done or has failed; the cache only grows.
LEMMA RemoteStep == ASSUME IncInv, Remote PROVE IncInv'
<1>1. /\ phase = "remote" /\ phase' = "saving" /\ cache \subseteq cache'
      /\ UNCHANGED <<disk, dcstate, config, unit, need, blobs, past, edits>>
  BY DEF Remote
<1>2. ASSUME NEW u \in Unit, NEW e, e = unit[u], UnitRight(u, e)
      PROVE  Stage(u, e)' /\ Needed(u, e)'
  BY <1>1, <1>2 DEF UnitRight, Stage, Needed
<1>3. RefusalExplained' /\ need' \subseteq Unit
  BY <1>1 DEF RefusalExplained, IncInv, Build
<1> QED
  BY <1>1, <1>2, <1>3, BuildStep DEF Phases

\* PutBlobs: what is missing is there afterwards, or could not be made.
LEMMA UploadStep == ASSUME IncInv, Upload PROVE IncInv'
<1>1. phase = "upload" /\ AllSet /\ UNCHANGED <<disk, dcstate, config, unit, need, cache, past, edits>>
  BY DEF Upload
<1>2. need \subseteq Unit
  BY DEF IncInv, Build
<1>3. CASE \A u \in FindMissing : unit[u].fresh
  <2>1. blobs' = blobs \cup {unit[u].digest : u \in FindMissing} /\ phase' = "remote"
    BY <1>3 DEF Upload
  <2>2. ASSUME NEW u \in Unit, NEW e, e = unit[u], UnitRight(u, e)
        PROVE  Stage(u, e)' /\ Needed(u, e)'
    <3>1. e.at = "set" /\ e.key # NoKey /\ (u \notin need => e.key \in cache)
      BY <1>1, <2>2 DEF AllSet, UnitRight, Stage, Needed
    <3>2. u \in need => e.digest \in blobs'
      BY <2>1, <2>2 DEF FindMissing
    <3> QED
      BY <1>1, <2>1, <3>1, <3>2 DEF Stage, Needed
  <2>3. RefusalExplained' /\ need' \subseteq Unit
    BY <1>1, <1>2, <2>1 DEF RefusalExplained
  <2> QED
    BY <1>1, <2>1, <2>2, <2>3, BuildStep DEF Phases
<1>4. CASE ~\A u \in FindMissing : unit[u].fresh
  <2>1. phase' = "refused"
    BY <1>4 DEF Upload
  <2>2. ASSUME NEW u \in Unit, NEW e, e = unit[u], UnitRight(u, e)
        PROVE  Stage(u, e)' /\ Needed(u, e)'
    <3>1. e.at = "set" /\ e.key # NoKey /\ (u \notin need => e.key \in cache)
      BY <1>1, <2>2 DEF AllSet, UnitRight, Stage, Needed
    <3> QED
      BY <1>1, <2>1, <3>1 DEF Stage, Needed
  <2>3. PICK u \in FindMissing : ~unit[u].fresh
    BY <1>4
  <2>4. u \in need /\ u \in Unit
    BY <1>2, <2>3 DEF FindMissing
  <2>5. unit[u].error
    <3>1. unit[u].at = "set" /\ Needed(u, unit[u])
      BY <1>1, <2>4 DEF AllSet, IncInv, UnitRight
    <3> QED
      BY <1>1, <2>3, <2>4, <3>1 DEF Needed
  <2>6. RefusalExplained' /\ need' \subseteq Unit
    BY <1>1, <1>2, <2>1, <2>4, <2>5 DEF RefusalExplained
  <2> QED
    BY <1>1, <2>1, <2>2, <2>6, BuildStep DEF Phases
<1> QED
  BY <1>3, <1>4

\* The reused units that are needed are made again.
LEMMA AgainStep == ASSUME IncInv, Again PROVE IncInv'
<1>1. /\ phase = "again" /\ phase' = "upload"
      /\ UNCHANGED <<disk, dcstate, config, need, cache, blobs, past, edits>>
      /\ unit' = [u \in Unit |-> IF LacksText(u) THEN [unit[u] EXCEPT !.at = "preprocess"] ELSE unit[u]]
  BY DEF Again, coordinator
<1>2. DiskType' /\ StateKept' /\ Build' /\ RefusalExplained'
  <2>1. DiskType' /\ StateKept'
    BY <1>1, StateStays DEF IncInv, DiskType
  <2>2. Build' /\ RefusalExplained'
    BY <1>1 DEF IncInv, Build, Phases, RefusalExplained
  <2> QED
    BY <2>1, <2>2
<1>3. ASSUME NEW u \in Unit PROVE UnitRight(u, unit[u])'
  <2>1. PICK o : o = unit[u]
    OBVIOUS
  <2>2. UnitRight(u, o) /\ o.at = "set"
    BY <1>1, <2>1 DEF IncInv, UnitRight, Stage
  <2>3. CASE LacksText(u)
    <3>1. PICK e : e = [o EXCEPT !.at = "preprocess"]
      OBVIOUS
    <3>2. unit'[u] = e /\ u \in need
      BY <1>1, <2>1, <2>3, <3>1 DEF LacksText
    <3>3. o = [at |-> o.at, key |-> o.key, digest |-> o.digest, deps |-> o.deps, read |-> o.read,
               raced |-> o.raced, fresh |-> o.fresh, error |-> o.error, opened |-> o.opened]
          /\ o.raced \in BOOLEAN /\ o.fresh \in BOOLEAN /\ o.error \in BOOLEAN
      BY <2>2 DEF UnitRight, IsUnit
    <3>4. e = [at |-> "preprocess", key |-> o.key, digest |-> o.digest, deps |-> o.deps, read |-> o.read,
               raced |-> o.raced, fresh |-> o.fresh, error |-> o.error, opened |-> o.opened]
      BY ONLY <3>1, <3>3
    <3>5. /\ e.at = "preprocess" /\ e.key = o.key /\ e.digest = o.digest /\ e.deps = o.deps
          /\ e.read = o.read /\ e.raced = o.raced /\ e.fresh = o.fresh /\ e.error = o.error
          /\ e.opened = o.opened
      BY ONLY <3>4
    <3>6. IsUnit(e)
      BY ONLY <3>3, <3>4, <3>5 DEF IsUnit
    <3>7. UnitRight(u, e)'
      BY <1>1, <2>2, <3>2, <3>5, <3>6
         DEF UnitRight, IsUnit, Ats, HasKey, Keyed, Remembers, Knows, Rooted, Opened, JustMade, Stage, Needed
    <3> QED
      BY <3>2, <3>7
  <2>4. CASE ~LacksText(u)
    <3>1. unit'[u] = o /\ (u \notin need \/ o.fresh)
      BY <1>1, <2>1, <2>4 DEF LacksText
    <3>2. UnitRight(u, o)'
      BY <1>1, <2>2, <3>1
         DEF UnitRight, IsUnit, Ats, HasKey, Keyed, Remembers, Knows, Rooted, Opened, JustMade, Stage, Needed
    <3> QED
      BY <3>1, <3>2
  <2> QED
    BY <2>3, <2>4
<1> QED
  BY <1>2, <1>3 DEF IncInv

-----------------------------------------------------------------------------
(* Everything together *)

\* The inductive invariant of the client's build: a stamp that is known belongs to one
\* content, a key and a digest are of one text, and every unit is rooted in a disk of
\* this build.
THEOREM IncrementalInvariant == Spec => []IncInv
<1>1. IncInv /\ [Next]_vars => IncInv'
  BY EditStep, IdleStep, StartStep, LookStep, ReadSourceStep, ReadHeadersStep, StampStep,
     CheckStep, AgainStep, UploadStep, RemoteStep, SaveStep, AbortStep DEF Next, Preprocess
<1> QED
  BY <1>1, InitInc, PTL DEF Spec

\* still_valid is enough: an entry of .dcstate that it takes has the key the unit would
\* get now, if gcc was not raced and no header is found earlier than before.
THEOREM StateIsSound == Spec => []StateSound
<1>1. IncInv => StateSound
  BY KeptIsSound DEF IncInv
<1> QED
  BY <1>1, IncrementalInvariant, PTL

\* What is submitted was on the disk during the build, with the exceptions of
\* FreshEnough, whether the unit was reused, preprocessed, or both.
THEOREM KeysFresh == Spec => []FreshEnough
<1>1. ASSUME IncInv PROVE FreshEnough
  <2> SUFFICES ASSUME Submitted, NEW u \in Unit PROVE Rooted(u, unit[u])
    BY DEF FreshEnough, Rooted
  <2>1. UnitRight(u, unit[u])
    BY <1>1 DEF IncInv
  <2> QED
    BY <2>1 DEF Submitted, UnitRight, Stage, HasKey
<1> QED
  BY <1>1, IncrementalInvariant, PTL

\* The key and the digest that are submitted are of the same text, which is cached or
\* uploaded.
THEOREM PairsRight == Spec => []PairRight
<1>1. ASSUME IncInv PROVE PairRight
  <2> SUFFICES ASSUME Submitted, NEW u \in Unit
               PROVE  /\ unit[u].key = CompileKey(config, u, unit[u].digest)
                      /\ unit[u].key \in cache \/ unit[u].digest \in blobs
    BY DEF PairRight
  <2>1. UnitRight(u, unit[u])
    BY <1>1 DEF IncInv
  <2> QED
    BY <2>1 DEF Submitted, UnitRight, Stage, HasKey, Keyed, Needed
<1> QED
  BY <1>1, IncrementalInvariant, PTL

\* An upload is refused for a unit that could not be preprocessed again, and for no
\* other reason.
THEOREM RefusalsExplained == Spec => []RefusalExplained
<1> QED
  BY IncrementalInvariant, PTL DEF IncInv
=============================================================================
