----------------------------- MODULE Incremental -----------------------------
(***************************************************************************)
(* The keys of a build: dcc reuses what .dcstate says of a unit whose files*)
(* have the stamps of last time, preprocesses the others, asks for cached  *)
(* results, preprocesses a reused unit after all when its result is not    *)
(* there, uploads and submits.  The user edits files and flags meanwhile.  *)
(*                                                                         *)
(* A file is its content and its mtime; content 0 is no file, and every    *)
(* edit has an mtime of its own.  A unit includes one header, the first one*)
(* there is of its search path, or none.  A digest is the text it is of.   *)
(***************************************************************************)
EXTENDS Naturals, Sequences, FiniteSetsExt

CONSTANTS
  Unit, Header,
  Search,        \* the headers each unit looks for, in the order of -I
  Content,       \* contents, without 0
  Meaning,       \* contents that differ in comments only have the same meaning
  Normalized,    \* the units whose key ignores comments: C without debug info
  Config,
  Edits,         \* the files the user may change, and to what
  MaxEdits, MaxBuilds

File == Unit \cup Header

ASSUME IncrementalAssumption ==
  /\ Unit \cap Header = {} /\ "" \notin File /\ Normalized \subseteq Unit
  /\ Search \in [Unit -> Seq(Header)]
  /\ 0 \notin Content /\ 0 \notin Config
  /\ Edits \subseteq File \X (Content \cup {0})
  /\ MaxEdits \in Nat /\ MaxBuilds \in Nat

VARIABLES
  disk,      \* the files
  dcstate,   \* .dcstate: a config and what is known of some units
  config,    \* of the build that runs
  phase,     \* idle, keys, again, upload, refused, remote, saving
  unit,      \* the Units of the build
  need,      \* units without a cached result
  cache,     \* keys the coordinator has results of
  blobs,     \* texts the coordinator has
  past,      \* every disk since the build began
  edits, builds

vars == <<disk, dcstate, config, phase, unit, need, cache, blobs, past, edits, builds>>
coordinator == <<cache, blobs>>

None == [src |-> 0, from |-> "", inc |-> 0]    \* no text

\* What gcc -E makes of a source with content c on disk d.
Found(u, d) == {i \in DOMAIN Search[u] : d[Search[u][i]].c # 0}
Included(u, d) == Search[u][Min(Found(u, d))]
TextOn(u, c, d) ==
  IF c = 0 \/ (Search[u] # <<>> /\ Found(u, d) = {}) THEN None
  ELSE IF Search[u] = <<>> THEN [None EXCEPT !.src = c]
  ELSE [src |-> c, from |-> Included(u, d), inc |-> d[Included(u, d)].c]

\* marker_files
Deps(u, text) == {u} \cup ({text.from} \ {""})

\* strip_line_markers
Stripped(text) == [src |-> Meaning[text.src], from |-> "", inc |-> Meaning[text.inc]]

\* compile_key: the text without blank lines and markers, or all of it.
CompileKey(cfg, u, text) ==
  [cfg |-> cfg, of |-> IF u \in Normalized THEN "" ELSE u,
   text |-> IF u \in Normalized THEN Stripped(text) ELSE text]

NoKey == [cfg |-> 0, of |-> "", text |-> None]
Closed == [c |-> 0, m |-> 0]
Blank == [at |-> "look", key |-> NoKey, digest |-> None, deps |-> <<>>, read |-> <<>>,
          raced |-> FALSE, fresh |-> FALSE, error |-> FALSE, opened |-> Closed]

Init ==
  /\ disk \in [File -> [c : Content \cup {0}, m : {0}]]
  /\ \A f \in File : disk[f].c \in {0, 1} /\ (f \in Unit => disk[f].c = 1)
  /\ dcstate = [config |-> 0, of |-> <<>>] /\ config = 0
  /\ phase = "idle" /\ unit = [u \in Unit |-> Blank] /\ need = {}
  /\ cache = {} /\ blobs = {} /\ past = {}
  /\ edits = 0 /\ builds = 0

\* build() returns.
Return ==
  /\ phase' = "idle" /\ config' = 0
  /\ unit' = [u \in Unit |-> Blank] /\ need' = {} /\ past' = {}

-----------------------------------------------------------------------------
(* The user *)

Edit(f, c) ==
  /\ edits < MaxEdits /\ disk[f].c # c
  /\ edits' = edits + 1
  /\ disk' = [disk EXCEPT ![f] = [c |-> c, m |-> edits + 1]]
  /\ past' = IF phase = "idle" THEN past ELSE past \cup {disk'}
  /\ UNCHANGED <<dcstate, config, phase, unit, need, coordinator, builds>>

\* Another coordinator, or one whose database is new.
Elsewhere ==
  /\ phase = "idle" /\ cache \cup blobs # {}
  /\ cache' = {} /\ blobs' = {}
  /\ UNCHANGED <<disk, dcstate, config, phase, unit, need, past, edits, builds>>

\* load_manifest; the flags may have changed.
StartBuild ==
  /\ phase = "idle" /\ builds < MaxBuilds
  /\ builds' = builds + 1
  /\ config' \in Config
  /\ phase' = "keys" /\ unit' = [u \in Unit |-> Blank] /\ need' = {}
  /\ past' = {disk}
  /\ UNCHANGED <<disk, dcstate, coordinator, edits>>

-----------------------------------------------------------------------------
(* Keys *)

\* Mutation: the state of other flags is good enough.
LoadedAny == dcstate.of

\* load_state
Loaded == IF dcstate.config = config THEN dcstate.of ELSE <<>>

Stamps(F) == [f \in {g \in F : disk[g].c # 0} |-> disk[f].m]

\* still_valid
StillValid(e) ==
  DOMAIN e.deps # {} /\ \A f \in DOMAIN e.deps : disk[f].c # 0 /\ disk[f].m = e.deps[f]

Look(u) ==
  /\ phase = "keys" /\ unit[u].at = "look"
  /\ IF u \in DOMAIN Loaded /\ StillValid(Loaded[u])
     THEN unit' = [unit EXCEPT ![u] = [Loaded[u] EXCEPT !.at = "set", !.fresh = FALSE]]
     ELSE unit' = [unit EXCEPT ![u].at = "preprocess"]
  /\ UNCHANGED <<disk, dcstate, config, phase, need, coordinator, past, edits, builds>>

\* gcc reads the source ...
ReadSource(u) ==
  /\ unit[u].at = "preprocess"
  /\ unit' = [unit EXCEPT ![u].at = "include", ![u].opened = disk[u]]
  /\ UNCHANGED <<disk, dcstate, config, phase, need, coordinator, past, edits, builds>>

\* Mutation: the key of last time stands.
RekeyedNot(u, text) == IF unit[u].key # NoKey THEN unit[u].key ELSE CompileKey(config, u, text)

Rekeyed(u, text) == CompileKey(config, u, text)

\* ... and the headers, and run_preprocess has the text, its digest and its key ...
ReadHeaders(u) ==
  /\ unit[u].at = "include"
  /\ LET text == TextOn(u, unit[u].opened.c, disk)
         read == [f \in Deps(u, text) |-> IF f = u THEN unit[u].opened.m ELSE disk[f].m]
     IN unit' = IF text = None
                THEN [unit EXCEPT ![u].at = "set", ![u].error = TRUE, ![u].opened = Closed]
                ELSE [unit EXCEPT ![u] = [@ EXCEPT !.at = "stamp", !.key = Rekeyed(u, text),
                        !.digest = text, !.read = read, !.fresh = TRUE, !.opened = Closed]]
  /\ UNCHANGED <<disk, dcstate, config, phase, need, coordinator, past, edits, builds>>

\* Mutation: only the source is remembered.
StampedSource(u) == {u}

\* p.deps
Stamped(u) == Deps(u, unit[u].digest)

\* ... and then looks at the files' stamps, leaving out what is gone.  The unit is
\* raced if a file has changed since gcc read it.
Stamp(u) ==
  /\ unit[u].at = "stamp"
  /\ unit' = [unit EXCEPT ![u] = [@ EXCEPT !.at = "set", !.deps = Stamps(Stamped(u)),
                !.read = <<>>,
                !.raced = \E f \in DOMAIN unit[u].read : disk[f].c = 0 \/ disk[f].m # unit[u].read[f]]]
  /\ UNCHANGED <<disk, dcstate, config, phase, need, coordinator, past, edits, builds>>

Preprocess(u) == ReadSource(u) \/ ReadHeaders(u) \/ Stamp(u)

AllSet == \A u \in Unit : unit[u].at = "set"

\* A unit that cannot be preprocessed ends the build; otherwise CheckCache.
CheckCache ==
  /\ phase = "keys" /\ AllSet
  /\ IF \E u \in Unit : unit[u].error
     THEN Return
     ELSE /\ phase' = "again" /\ need' = {u \in Unit : unit[u].key \notin cache}
          /\ UNCHANGED <<config, unit, past>>
  /\ UNCHANGED <<disk, dcstate, coordinator, edits, builds>>

-----------------------------------------------------------------------------
(* Upload and submit *)

\* Mutation: the text is taken to be there.
LacksTextNever(u) == FALSE

LacksText(u) == u \in need /\ ~unit[u].fresh

\* The reused units that are needed after all; a failure is not looked at.
Again ==
  /\ phase = "again"
  /\ phase' = "upload"
  /\ unit' = [u \in Unit |-> IF LacksText(u) THEN [unit[u] EXCEPT !.at = "preprocess"] ELSE unit[u]]
  /\ UNCHANGED <<disk, dcstate, config, need, coordinator, past, edits, builds>>

FindMissing == {u \in need : unit[u].digest \notin blobs}

\* PutBlobs and SubmitBuild: what is sent without its text is refused, and so is
\* what comes after it.
Upload ==
  /\ phase = "upload" /\ AllSet
  /\ IF \A u \in FindMissing : unit[u].fresh
     THEN blobs' = blobs \cup {unit[u].digest : u \in FindMissing} /\ phase' = "remote"
     ELSE /\ \E S \in SUBSET {u \in FindMissing : unit[u].fresh} :
               blobs' = blobs \cup {unit[u].digest : u \in S}
          /\ phase' = "refused"
  /\ UNCHANGED <<disk, dcstate, config, unit, need, cache, past, edits, builds>>

\* The build is done or has failed.
Remote ==
  /\ phase = "remote"
  /\ phase' = "saving"
  /\ cache' = cache \cup {unit[u].key : u \in Unit} \/ UNCHANGED cache
  /\ UNCHANGED <<disk, dcstate, config, unit, need, blobs, past, edits, builds>>

Savable(u) == ~unit[u].error /\ unit[u].key # NoKey

\* save_state, after a failed build too.  On a full disk the file is short, and of
\* a unit that is cut off nothing is left that still_valid would take.
SaveState ==
  /\ phase = "saving"
  /\ Return
  /\ \E S \in SUBSET Unit :
       dcstate' = [config |-> config, of |-> [u \in {v \in S : Savable(v)} |-> unit[u]]]
  /\ UNCHANGED <<disk, coordinator, edits, builds>>

\* dcc throws, is killed or loses its coordinator.
Abort ==
  /\ phase # "idle"
  /\ Return
  /\ UNCHANGED <<disk, dcstate, coordinator, edits, builds>>

Next ==
  \/ \E e \in Edits : Edit(e[1], e[2])
  \/ Elsewhere
  \/ StartBuild
  \/ \E u \in Unit : Look(u) \/ Preprocess(u)
  \/ CheckCache \/ Again \/ Upload \/ Remote \/ SaveState \/ Abort

Spec == Init /\ [][Next]_vars

-----------------------------------------------------------------------------
(* Properties *)

\* The unit would now find another header than it did.
Shadowed(u, e) == e.digest.from # TextOn(u, disk[u].c, disk).from

\* An entry of .dcstate whose files have their stamps has the key the unit would get
\* now, unless it was raced or a header is found earlier than before.
StateSound ==
  \A u \in DOMAIN dcstate.of :
    LET e == dcstate.of[u] IN
    StillValid(e) =>
      \/ e.key = CompileKey(dcstate.config, u, TextOn(u, disk[u].c, disk))
      \/ e.raced \/ Shadowed(u, e)

Submitted == phase \in {"remote", "saving"}

\* The unit as it is submitted is a unit that was on the disk during this build,
\* with these flags, whether its entry was reused, preprocessed or both.  Two kinds
\* of change are missed, also when they were there before dcc began: one that came
\* between gcc's read and the stamps, in this build or in the earlier one whose entry
\* is reused, and a header that a reused unit would find earlier than before.
FreshEnough ==
  Submitted => \A u \in Unit :
    \/ \E d \in past : TextOn(u, d[u].c, d) # None
         /\ unit[u].key = CompileKey(config, u, TextOn(u, d[u].c, d))
    \/ unit[u].raced
    \/ ~unit[u].fresh /\ \E d \in past : TextOn(u, d[u].c, d).from # unit[u].digest.from

\* What a worker gets for a key is a text with that key, although units are
\* preprocessed twice: the digest is of the same run as the key.
PairRight ==
  Submitted => \A u \in Unit :
    /\ unit[u].key = CompileKey(config, u, unit[u].digest)
    /\ unit[u].key \in cache \/ unit[u].digest \in blobs

\* An upload is refused only if a unit could not be preprocessed the second time.
RefusalExplained == phase = "refused" => \E u \in need : unit[u].error
=============================================================================
