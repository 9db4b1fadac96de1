-------------------------- MODULE WorkerExecProofs --------------------------
(***************************************************************************)
(* Proofs about WorkerExec, and with it RunProcess and BlobStore: for any  *)
(* number of threads that run children and write blobs at once, any amount *)
(* of output, any size of pipe, and disks that fill up at any moment.      *)
(***************************************************************************)
EXTENDS WorkerExec, TLAPS

-----------------------------------------------------------------------------
(* run_process *)

Calls == {"idle", "piped", "forked", "polling", "wait", "timedout", "returned"}
Children == {"none", "running", "hung", "ok", "error", "killed", "orphan"}

ProcType ==
  /\ split \in BOOLEAN
  /\ call \in [Thread -> Calls]
  /\ child \in [Thread -> Children]
  /\ todo \in [Thread -> [Stream -> Nat]]
  /\ pipe \in [Thread -> [Stream -> Nat]]
  /\ got \in [Thread -> [Stream -> Nat]]
  /\ holders \in [Thread -> SUBSET Thread]
  /\ open \in [Thread -> SUBSET Stream]
  /\ code \in [Thread -> Int]
  /\ cut \subseteq Thread

\* Before the fork there is no child and nothing is in the pipes; the loop ends by
\* itself when no stream is left.
Fresh(t) ==
  /\ call[t] \in {"idle", "piped"} => child[t] = "none" /\ pipe[t] = Silent /\ got[t] = Silent
  /\ call[t] \in {"forked", "polling", "wait", "timedout"} => child[t] # "none"
  /\ call[t] = "wait" => open[t] = {}

\* No chunk is lost or read twice, and a child that ends by itself has written all
\* unless its caller has dropped a stream.
Conserved(t) ==
  /\ child[t] # "none" => \A k \in Stream : todo[t][k] + pipe[t][k] + got[t][k] = Volume[k]
  /\ child[t] \in {"ok", "error"} /\ t \notin cut => todo[t] = Silent

\* Only live children hold write ends, and a live child that has something to write
\* holds its own: its caller cannot see the end of a stream before it.  A child that
\* outlives the loop is not one that has been killed.
Held(t) ==
  /\ \A h \in holders[t] : child[h] \in Alive \cup {"orphan"}
  /\ child[t] \in Alive => /\ t \in holders[t] \/ todo[t] = Silent
                           /\ call[t] \in {"forked", "polling", "wait"}

\* A stream that has been closed was read to its end, if no poll() or read() failed.
ReadOut(t) ==
  call[t] \in {"polling", "wait", "timedout", "returned"} /\ child[t] # "none" /\ t \notin cut =>
    \A k \in Stream \ open[t] : pipe[t][k] = 0 /\ (child[t] \in Alive => todo[t] = Silent)

\* An exit code is that of a child that ended by itself, with every stream closed.
Coded(t) ==
  code[t] >= 0 => call[t] = "returned" /\ open[t] = {} /\ child[t] \in {"ok", "error"}

ProcInv ==
  ProcType /\ \A t \in Thread : Fresh(t) /\ Conserved(t) /\ Held(t) /\ ReadOut(t) /\ Coded(t)

-----------------------------------------------------------------------------
(* write_file_atomic *)

Content == {"none", "whole", "short"}
PutRecord == [at : {"look", "write", "rename", "stored", "failed"}, store : Store, blob : Blob,
              tmp : Content]

StoreType ==
  /\ file \in [Store -> [Blob -> Content]]
  /\ put \in [Writer -> PutRecord \cup {NoPut}]
  /\ full \subseteq Store
  /\ wasFull \subseteq Store

\* A temporary file is short only if it is small and its disk was full.
TmpWhole ==
  \A w \in Writer : put[w].at = "rename" =>
    \/ put[w].tmp = "whole"
    \/ put[w].tmp = "short" /\ put[w].store \in wasFull /\ put[w].blob \in Buffered

StoreInv == StoreType /\ full \subseteq wasFull /\ TmpWhole /\ WholeUnlessFull

-----------------------------------------------------------------------------
(* execute *)

Stages == {"fetch", "keep", "input", "run", "save", "upload", "report", "over"}

SlotType ==
  /\ stage \in [Thread -> Stages]
  /\ data \in [Thread -> Content]
  /\ hash \in [Thread -> {NoHash, Output, Garbled}]
  /\ accepted \subseteq {Output, Garbled}

\* A slot compiles an input, half of it only if the cache's disk was full, and its
\* output has the wrong name only then.
SlotRight(t) ==
  /\ stage[t] \in {"keep", "input", "run", "save", "upload"} => data[t] # "none" \/ split
  /\ data[t] = "short" => "cache" \in wasFull
  /\ hash[t] \in {NoHash, Output} \/ "cache" \in wasFull

SlotInv == SlotType /\ (split => \A t \in Thread : stage[t] = "run")
             /\ (\A t \in Thread : SlotRight(t)) /\ AcceptedRight /\ AcceptedStored

IInv == ProcInv /\ StoreInv /\ SlotInv

\* The streams of a run are known from the start.
LEMMA SameStreams ==
  ASSUME split' = split
  PROVE  Stream' = Stream /\ Silent' = Silent
BY DEF Stream, Silent

\* A stream is stdout, or stderr: a child has a volume for it.
LEMMA VolumeType == \A k \in Stream : Volume[k] \in Nat
BY ProcAssumption DEF Stream

\* Nothing runs at first.
LEMMA InitProc == ProcInit => ProcInv
<1> SUFFICES ASSUME ProcInit PROVE ProcInv
  OBVIOUS
<1>1. Silent \in [Stream -> Nat]
  BY DEF Silent
<1>2. ProcType
  BY <1>1 DEF ProcInit, ProcType, Calls, Children
<1>3. ASSUME NEW t \in Thread
      PROVE  Fresh(t) /\ Conserved(t) /\ Held(t) /\ ReadOut(t) /\ Coded(t)
  BY DEF ProcInit, Fresh, Conserved, Held, ReadOut, Coded, Alive
<1> QED
  BY <1>2, <1>3 DEF ProcInv

\* A step of nobody in run_process.
LEMMA ProcStutter == ASSUME ProcInv, UNCHANGED procVars PROVE ProcInv'
BY SameStreams DEF procVars, ProcInv, ProcType, Fresh, Conserved, Held, ReadOut, Coded, Alive

\* A call that does not start, or has its pipes, has nothing to keep yet.
LEMMA StartProc ==
  ASSUME ProcInv, NEW t \in Thread, CannotStart(t) \/ MakePipes(t)
  PROVE  ProcInv'
<1>1. UNCHANGED <<split, child, todo, pipe, got, holders, open, code, cut>> /\ call[t] = "idle"
  BY DEF CannotStart, MakePipes
<1>2. PICK c \in {"returned", "piped"} : call' = [call EXCEPT ![t] = c]
  BY DEF CannotStart, MakePipes
<1>3. Stream' = Stream /\ Silent' = Silent
  BY <1>1, SameStreams
<1>4. ProcType'
  BY <1>1, <1>2, <1>3 DEF ProcInv, ProcType, Calls
<1>5. ASSUME NEW u \in Thread
      PROVE  Fresh(u)' /\ Conserved(u)' /\ Held(u)' /\ ReadOut(u)' /\ Coded(u)'
  BY <1>1, <1>2, <1>3 DEF ProcInv, ProcType, Fresh, Conserved, Held, ReadOut, Coded, Alive
<1> QED
  BY <1>4, <1>5 DEF ProcInv

\* The new child holds its own write ends, and those of the calls about to fork or
\* to close theirs, which have not begun to read.
LEMMA ForkProc ==
  ASSUME ProcInv, NEW t \in Thread, Fork(t)
  PROVE  ProcInv'
<1>1. UNCHANGED <<split, pipe, got, open, code, cut>> /\ call[t] = "piped"
  BY DEF Fork
<1>2. call' = [call EXCEPT ![t] = "forked"] /\ child' = [child EXCEPT ![t] = "running"]
  BY DEF Fork
<1>3. Stream' = Stream /\ Silent' = Silent
  BY <1>1, SameStreams
<1>4. todo' = [todo EXCEPT ![t] = [k \in Stream |-> Volume[k]]]
  BY DEF Fork
<1>5. \A u \in Thread : holders'[u] \subseteq holders[u] \cup {t} /\ holders[u] \subseteq holders'[u]
  BY DEF Fork
<1>6. t \in holders'[t]
  BY <1>1 DEF Fork
<1>7. ProcType'
  <2>1. [k \in Stream |-> Volume[k]] \in [Stream -> Nat]
    BY VolumeType
  <2>2. todo' \in [Thread -> [Stream -> Nat]]
    BY <1>4, <2>1 DEF ProcInv, ProcType
  <2>3. holders' \in [Thread -> SUBSET Thread]
    BY DEF Fork, ProcInv, ProcType
  <2> QED
    BY <1>1, <1>2, <1>3, <2>2, <2>3 DEF ProcInv, ProcType, Calls, Children
<1>8. ASSUME NEW u \in Thread
      PROVE  Fresh(u)' /\ Held(u)' /\ ReadOut(u)' /\ Coded(u)'
  <2>1. u # t => todo'[u] = todo[u]
    BY <1>4 DEF ProcInv, ProcType
  <2>2. Fresh(u)' /\ Coded(u)'
    BY <1>1, <1>2, <1>3 DEF ProcInv, ProcType, Fresh, Coded
  <2>3. Held(u)'
    BY <1>1, <1>2, <1>3, <1>5, <1>6, <2>1 DEF ProcInv, ProcType, Held, Alive
  <2>4. ReadOut(u)'
    BY <1>1, <1>2, <1>3, <2>1 DEF ProcInv, ProcType, ReadOut, Alive
  <2> QED
    BY <2>2, <2>3, <2>4
<1>9. ASSUME NEW u \in Thread PROVE Conserved(u)'
  <2>1. pipe[t] = Silent /\ got[t] = Silent
    BY <1>1 DEF ProcInv, Fresh
  <2>2. CASE u = t
    BY <1>1, <1>2, <1>3, <1>4, <2>1, <2>2, VolumeType DEF ProcInv, ProcType, Conserved, Silent
  <2>3. CASE u # t
    BY <1>1, <1>2, <1>3, <1>4, <2>3 DEF ProcInv, ProcType, Conserved
  <2> QED
    BY <2>2, <2>3
<1> QED
  BY <1>7, <1>8, <1>9 DEF ProcInv

\* Every stream is open when the reading begins.
LEMMA CloseProc ==
  ASSUME ProcInv, NEW t \in Thread, CloseWriteEnds(t)
  PROVE  ProcInv'
<1>1. UNCHANGED <<split, child, todo, pipe, got, holders, code, cut>> /\ call[t] = "forked"
  BY DEF CloseWriteEnds
<1>2. call' = [call EXCEPT ![t] = "polling"] /\ open' = [open EXCEPT ![t] = Stream]
  BY DEF CloseWriteEnds
<1>3. Stream' = Stream /\ Silent' = Silent
  BY <1>1, SameStreams
<1>4. ProcType'
  BY <1>1, <1>2, <1>3 DEF ProcInv, ProcType, Calls
<1>5. ASSUME NEW u \in Thread
      PROVE  Fresh(u)' /\ Conserved(u)' /\ Held(u)' /\ ReadOut(u)' /\ Coded(u)'
  BY <1>1, <1>2, <1>3 DEF ProcInv, ProcType, Fresh, Conserved, Held, ReadOut, Coded, Alive
<1> QED
  BY <1>4, <1>5 DEF ProcInv

\* What is read leaves the pipe.
LEMMA ReadProc ==
  ASSUME ProcInv, NEW t \in Thread, NEW k \in Stream, Read(t, k)
  PROVE  ProcInv'
<1>1. UNCHANGED <<split, call, child, todo, holders, open, code, cut>> /\ call[t] = "polling"
  BY DEF Read
<1>2. /\ got' = [got EXCEPT ![t][k] = @ + pipe[t][k]]
      /\ pipe' = [pipe EXCEPT ![t][k] = 0]
  BY DEF Read
<1>3. Stream' = Stream /\ Silent' = Silent
  BY <1>1, SameStreams
<1>4. got' \in [Thread -> [Stream -> Nat]] /\ pipe' \in [Thread -> [Stream -> Nat]]
  BY <1>2 DEF ProcInv, ProcType
<1>5. ProcType'
  BY <1>1, <1>3, <1>4 DEF ProcInv, ProcType
<1>6. ASSUME NEW u \in Thread, NEW j \in Stream
      PROVE  /\ pipe'[u][j] + got'[u][j] = pipe[u][j] + got[u][j]
             /\ pipe[u][j] = 0 => pipe'[u][j] = 0
             /\ u # t => pipe'[u] = pipe[u] /\ got'[u] = got[u]
  BY <1>2 DEF ProcInv, ProcType
<1>7. ASSUME NEW u \in Thread
      PROVE  Fresh(u)' /\ Held(u)' /\ ReadOut(u)' /\ Coded(u)'
  BY <1>1, <1>3, <1>6 DEF ProcInv, ProcType, Fresh, Held, ReadOut, Coded, Alive
<1>8. ASSUME NEW u \in Thread PROVE Conserved(u)'
  <2>1. \A j \in Stream : /\ todo[u][j] \in Nat /\ pipe[u][j] \in Nat /\ got[u][j] \in Nat
                          /\ pipe'[u][j] \in Nat /\ got'[u][j] \in Nat
    BY <1>4 DEF ProcInv, ProcType
  <2> QED
    BY <1>1, <1>3, <1>6, <2>1, VolumeType DEF ProcInv, Conserved
<1> QED
  BY <1>5, <1>7, <1>8 DEF ProcInv

\* A stream is closed when it is empty and no child holds it, the call's own least,
\* unless that has nothing more to say.
LEMMA EndProc ==
  ASSUME ProcInv, NEW t \in Thread, NEW k \in Stream, EndOfStream(t, k)
  PROVE  ProcInv'
<1>1. /\ UNCHANGED <<split, child, todo, pipe, got, holders, code, cut>>
      /\ call[t] = "polling" /\ k \in open[t]
  BY DEF EndOfStream, CloseStream, Polled
<1>2. pipe[t][k] = 0 /\ holders[t] = {}
  BY DEF EndOfStream, AtEnd
<1>3. open' = [open EXCEPT ![t] = @ \ {k}]
  BY DEF EndOfStream, CloseStream
<1>4. PICK c \in {"wait", "polling"} : call' = [call EXCEPT ![t] = c]
  BY <1>1 DEF EndOfStream, CloseStream
<1>o. call'[t] = "wait" => open'[t] = {}
  BY <1>1, <1>3 DEF EndOfStream, CloseStream, ProcInv, ProcType
<1>5. Stream' = Stream /\ Silent' = Silent
  BY <1>1, SameStreams
<1>6. ProcType'
  BY <1>1, <1>3, <1>4, <1>5 DEF ProcInv, ProcType, Calls
<1>7. child[t] \in Alive => todo[t] = Silent
  BY <1>2 DEF ProcInv, Held
<1>8. ASSUME NEW u \in Thread
      PROVE  Fresh(u)' /\ Conserved(u)' /\ Held(u)' /\ Coded(u)'
  BY <1>1, <1>3, <1>4, <1>5, <1>7, <1>o DEF ProcInv, ProcType, Fresh, Conserved, Held, Coded, Alive
<1>9. ASSUME NEW u \in Thread PROVE ReadOut(u)'
  BY <1>1, <1>2, <1>3, <1>4, <1>5, <1>7 DEF ProcInv, ProcType, ReadOut, Alive
<1> QED
  BY <1>6, <1>8, <1>9 DEF ProcInv

\* A call that gives up has no live child.
LEMMA TimeOutProc ==
  ASSUME ProcInv, NEW t \in Thread, TimeOut(t)
  PROVE  ProcInv'
<1>1. UNCHANGED <<split, todo, pipe, got, open, code, cut>> /\ call[t] = "polling"
  BY DEF TimeOut
<1>2. call' = [call EXCEPT ![t] = "timedout"]
  BY DEF TimeOut
<1>k. /\ child[t] \in Alive => Killed(child[t]) = "killed"
      /\ child[t] \notin Alive => Killed(child[t]) = child[t]
  BY DEF Killed
<1>3. PICK c : /\ child' = [child EXCEPT ![t] = c]
               /\ c \in {child[t], "killed", "orphan"}
               /\ c = child[t] => child[t] \notin Alive
               /\ \A u \in Thread : /\ holders'[u] \subseteq holders[u]
                                    /\ holders[u] \ {t} \subseteq holders'[u]
               /\ c # "orphan" => \A u \in Thread : t \notin holders'[u]
               /\ holders' \in [Thread -> SUBSET Thread]
  <2>1. CASE child' = [child EXCEPT ![t] = Killed(child[t])]
             /\ holders' = [u \in Thread |-> holders[u] \ {t}]
    <3>1. /\ Killed(child[t]) \in {child[t], "killed", "orphan"}
          /\ Killed(child[t]) = child[t] => child[t] \notin Alive
      BY <1>k DEF Alive
    <3>2. /\ \A u \in Thread : /\ holders'[u] \subseteq holders[u]
                               /\ holders[u] \ {t} \subseteq holders'[u]
                               /\ t \notin holders'[u]
          /\ holders' \in [Thread -> SUBSET Thread]
      BY <2>1 DEF ProcInv, ProcType
    <3> QED
      BY <2>1, <3>1, <3>2
  <2>2. CASE child[t] = "hung" /\ child' = [child EXCEPT ![t] = "orphan"] /\ holders' = holders
    BY <2>2 DEF ProcInv, ProcType
  <2> QED
    BY <2>1, <2>2 DEF TimeOut
<1>4. c \in Children /\ c \notin Alive /\ c # "none" /\ child[t] # "none"
      /\ (c \in {"ok", "error"} => c = child[t])
  BY <1>1, <1>3 DEF ProcInv, ProcType, Fresh, Children, Alive
<1>5. Stream' = Stream /\ Silent' = Silent
  BY <1>1, SameStreams
<1>6. ProcType'
  BY <1>1, <1>2, <1>3, <1>4, <1>5 DEF ProcInv, ProcType, Calls
<1>7. ASSUME NEW u \in Thread
      PROVE  Fresh(u)' /\ Held(u)' /\ ReadOut(u)' /\ Coded(u)'
  <2>1. Fresh(u)' /\ Coded(u)'
    BY <1>1, <1>2, <1>3, <1>4, <1>5 DEF ProcInv, ProcType, Fresh, Coded
  <2>2. Held(u)'
    <3>1. ASSUME NEW h \in holders'[u] PROVE child'[h] \in Alive \cup {"orphan"}
      <4>1. h \in holders[u] /\ h \in Thread /\ child[h] \in Alive \cup {"orphan"}
        BY <1>3, <3>1 DEF ProcInv, ProcType, Held
      <4>2. CASE h = t
        BY <1>3, <3>1, <4>1, <4>2 DEF ProcInv, ProcType
      <4>3. CASE h # t
        BY <1>3, <4>1, <4>3
      <4> QED
        BY <4>2, <4>3
    <3>2. child'[u] \in Alive => u # t /\ child[u] \in Alive
      BY <1>3, <1>4 DEF ProcInv, ProcType
    <3>3. child'[u] \in Alive => /\ u \in holders'[u] \/ todo'[u] = Silent
                                /\ call'[u] \in {"forked", "polling", "wait"}
      <4> SUFFICES ASSUME child'[u] \in Alive PROVE u # t /\ Held(u) /\ child[u] \in Alive
        BY <1>1, <1>2, <1>3 DEF ProcInv, ProcType, Held
      <4> QED
        BY <3>2 DEF ProcInv
    <3> QED
      BY <1>5, <3>1, <3>3 DEF Held, Alive
  <2>3. ReadOut(u)'
    BY <1>1, <1>2, <1>3, <1>4, <1>5 DEF ProcInv, ProcType, ReadOut, Fresh, Alive
  <2> QED
    BY <2>1, <2>2, <2>3
<1>8. ASSUME NEW u \in Thread PROVE Conserved(u)'
  BY <1>1, <1>2, <1>3, <1>4, <1>5 DEF ProcInv, ProcType, Conserved, Alive
<1> QED
  BY <1>6, <1>7, <1>8 DEF ProcInv

\* An exit code is taken from a child that ended by itself.
LEMMA WaitProc ==
  ASSUME ProcInv, NEW t \in Thread, Waitpid(t)
  PROVE  ProcInv'
<1>1. /\ UNCHANGED <<split, child, todo, pipe, got, holders, open, cut>>
      /\ call[t] \in {"wait", "timedout"} /\ child[t] \notin Alive
  BY DEF Waitpid
<1>2. call' = [call EXCEPT ![t] = "returned"]
  BY DEF Waitpid
<1>3. PICK c \in {-1, 0, 1} : /\ code' = [code EXCEPT ![t] = c]
                              /\ c # -1 => call[t] = "wait" /\ child[t] \in {"ok", "error"}
  BY DEF Waitpid
<1>4. Stream' = Stream /\ Silent' = Silent
  BY <1>1, SameStreams
<1>5. child[t] # "none" /\ (call[t] = "wait" => open[t] = {})
  BY <1>1 DEF ProcInv, ProcType, Fresh, Children, Alive
<1>6. ProcType'
  BY <1>1, <1>2, <1>3, <1>4 DEF ProcInv, ProcType, Calls
<1>7. ASSUME NEW u \in Thread
      PROVE  Fresh(u)' /\ Conserved(u)' /\ Held(u)' /\ ReadOut(u)' /\ Coded(u)'
  BY <1>1, <1>2, <1>3, <1>4, <1>5 DEF ProcInv, ProcType, Fresh, Conserved, Held, ReadOut, Coded, Alive
<1> QED
  BY <1>6, <1>7 DEF ProcInv

\* What is written is in the pipe, whose stream is open.
LEMMA WriteProc ==
  ASSUME ProcInv, NEW t \in Thread, NEW k \in Stream, Write(t, k)
  PROVE  ProcInv'
<1>1. UNCHANGED <<split, call, child, got, holders, open, code, cut>> /\ child[t] = "running"
  BY DEF Write
<1>2. /\ todo[t][k] > 0
      /\ todo' = [todo EXCEPT ![t][k] = @ - 1]
      /\ pipe' = [pipe EXCEPT ![t][k] = @ + 1]
  BY DEF Write
<1>3. Stream' = Stream /\ Silent' = Silent
  BY <1>1, SameStreams
<1>4. todo' \in [Thread -> [Stream -> Nat]] /\ pipe' \in [Thread -> [Stream -> Nat]]
  BY <1>2 DEF ProcInv, ProcType
<1>5. ProcType'
  BY <1>1, <1>3, <1>4 DEF ProcInv, ProcType
<1>6. ASSUME NEW u \in Thread, NEW j \in Stream
      PROVE  /\ pipe'[u][j] + todo'[u][j] = pipe[u][j] + todo[u][j]
             /\ u # t => pipe'[u] = pipe[u] /\ todo'[u] = todo[u]
  BY <1>2 DEF ProcInv, ProcType
<1>7. ASSUME NEW u \in Thread
      PROVE  Fresh(u)' /\ Held(u)' /\ ReadOut(u)' /\ Coded(u)'
  <2>1. CASE u = t
    <3>1. todo[t] # Silent /\ Silent[k] = 0
      BY <1>2 DEF Silent
    <3>2. Held(t)' /\ Fresh(t)' /\ Coded(t)'
      BY <1>1, <1>3, <3>1 DEF ProcInv, ProcType, Fresh, Held, Coded, Alive
    <3>3. ReadOut(t)'
      BY <1>1, <1>3, <3>1 DEF ProcInv, ProcType, ReadOut, Alive
    <3> QED
      BY <2>1, <3>2, <3>3
  <2>2. CASE u # t
    <3>1. pipe'[u] = pipe[u] /\ todo'[u] = todo[u]
      BY <1>2, <2>2 DEF ProcInv, ProcType
    <3> QED
      BY <1>1, <1>3, <3>1 DEF ProcInv, ProcType, Fresh, Held, ReadOut, Coded, Alive
  <2> QED
    BY <2>1, <2>2
<1>8. ASSUME NEW u \in Thread PROVE Conserved(u)'
  <2>1. \A j \in Stream : /\ todo[u][j] \in Nat /\ pipe[u][j] \in Nat /\ got[u][j] \in Nat
                          /\ pipe'[u][j] \in Nat /\ todo'[u][j] \in Nat
    BY <1>4 DEF ProcInv, ProcType
  <2>2. child'[u] # "none" => \A j \in Stream : todo'[u][j] + pipe'[u][j] + got'[u][j] = Volume[j]
    BY <1>1, <1>6, <2>1, VolumeType DEF ProcInv, Conserved
  <2>3. child'[u] \in {"ok", "error"} /\ u \notin cut => todo'[u] = Silent
    <3>1. CASE u = t
      BY <1>1, <3>1
    <3>2. CASE u # t
      <4>1. todo'[u] = todo[u]
        BY <1>2, <3>2 DEF ProcInv, ProcType
      <4> QED
        BY <1>1, <4>1 DEF ProcInv, Conserved
    <3> QED
      BY <3>1, <3>2
  <2> QED
    BY <1>1, <1>3, <2>2, <2>3 DEF Conserved
<1> QED
  BY <1>5, <1>7, <1>8 DEF ProcInv

\* A child that ends lets go of every write end.
LEMMA EndChild ==
  ASSUME ProcInv, NEW t \in Thread, NEW how \in Ends, End(t, how), child[t] = "running",
         how \in {"ok", "error"} /\ t \notin cut => todo[t] = Silent
  PROVE  ProcInv'
<1>1. UNCHANGED <<split, call, todo, pipe, got, open, code, cut>>
  BY DEF End
<1>2. /\ child' = [child EXCEPT ![t] = how]
      /\ holders' = [u \in Thread |-> holders[u] \ {t}]
  BY DEF End
<1>3. how \in {"ok", "error", "killed"}
  BY DEF Ends
<1>4. Stream' = Stream /\ Silent' = Silent
  BY <1>1, SameStreams
<1>5. ProcType'
  BY <1>1, <1>2, <1>3, <1>4 DEF ProcInv, ProcType, Children
<1>6. ASSUME NEW u \in Thread
      PROVE  Fresh(u)' /\ Conserved(u)' /\ Held(u)' /\ ReadOut(u)' /\ Coded(u)'
  BY <1>1, <1>2, <1>3, <1>4 DEF ProcInv, ProcType, Fresh, Conserved, Held, ReadOut, Coded, Alive
<1> QED
  BY <1>5, <1>6 DEF ProcInv

\* It ends by itself when it has written all, by a signal at any time, and early
\* when its caller has dropped a stream: no other stream is closed while a child
\* has something to write.
LEMMA ExitProc ==
  ASSUME ProcInv, NEW t \in Thread,
         (\E how \in Ends : Exit(t, how)) \/ Die(t) \/ (\E k \in Stream : BrokenPipe(t, k))
  PROVE  ProcInv'
<1>1. ASSUME NEW how \in Ends, Exit(t, how) PROVE ProcInv'
  BY <1>1, EndChild DEF Exit
<1>2. CASE Die(t)
  BY <1>2, EndChild DEF Die, Ends
<1>3. ASSUME NEW k \in Stream, BrokenPipe(t, k) PROVE ProcInv'
  <2>1. /\ child[t] = "running" /\ todo[t][k] > 0 /\ call[t] \in {"polling", "wait"}
        /\ k \notin open[t] /\ End(t, "error")
    BY <1>3 DEF BrokenPipe
  <2>2. t \in cut
    <3>1. ReadOut(t) /\ Silent[k] = 0
      BY DEF ProcInv, Silent
    <3> QED
      BY <2>1, <3>1 DEF ReadOut, Alive
  <2> QED
    BY <2>1, <2>2, EndChild DEF Ends
<1> QED
  BY <1>1, <1>2, <1>3

\* A child with nothing left to write may let go of its own streams.
LEMMA CloseOwnProc ==
  ASSUME ProcInv, NEW t \in Thread, CloseOwn(t)
  PROVE  ProcInv'
<1>1. /\ UNCHANGED <<split, call, child, todo, pipe, got, open, code, cut>>
      /\ todo[t] = Silent /\ holders' = [holders EXCEPT ![t] = @ \ {t}]
  BY DEF CloseOwn
<1>2. Stream' = Stream /\ Silent' = Silent
  BY <1>1, SameStreams
<1>3. ProcType'
  BY <1>1, <1>2 DEF ProcInv, ProcType
<1>4. ASSUME NEW u \in Thread
      PROVE  Fresh(u)' /\ Conserved(u)' /\ Held(u)' /\ ReadOut(u)' /\ Coded(u)'
  BY <1>1, <1>2 DEF ProcInv, ProcType, Fresh, Conserved, Held, ReadOut, Coded, Alive
<1> QED
  BY <1>3, <1>4 DEF ProcInv

\* A call that a failing poll() or read() has made drop a stream is on record.
LEMMA CutProc ==
  ASSUME ProcInv, NEW t \in Thread, PollFails(t) \/ \E k \in Stream : ReadFails(t, k)
  PROVE  ProcInv'
<1>1. /\ UNCHANGED <<split, child, todo, pipe, got, holders, code>>
      /\ call[t] = "polling" /\ cut' = cut \cup {t}
  BY DEF PollFails, ReadFails, CloseStream
<1>2. PICK S \in SUBSET Stream, c \in {"wait", "polling"} :
        /\ open' = [open EXCEPT ![t] = S] /\ call' = [call EXCEPT ![t] = c]
        /\ c = "wait" => S = {}
  <2>1. CASE PollFails(t)
    BY <2>1 DEF PollFails
  <2>2. ASSUME NEW k \in Stream, ReadFails(t, k)
        PROVE  /\ open' = [open EXCEPT ![t] = open[t] \ {k}] /\ open[t] \subseteq Stream
               /\ \/ call' = [call EXCEPT ![t] = "polling"]
                  \/ call' = [call EXCEPT ![t] = "wait"] /\ open[t] \ {k} = {}
    BY <1>1, <2>2 DEF ReadFails, CloseStream, ProcInv, ProcType
  <2> QED
    BY <2>1, <2>2
<1>3. Stream' = Stream /\ Silent' = Silent
  BY <1>1, SameStreams
<1>4. ProcType'
  BY <1>1, <1>2, <1>3 DEF ProcInv, ProcType, Calls
<1>5. ASSUME NEW u \in Thread
      PROVE  Fresh(u)' /\ Conserved(u)' /\ Held(u)' /\ ReadOut(u)' /\ Coded(u)'
  BY <1>1, <1>2, <1>3 DEF ProcInv, ProcType, Fresh, Conserved, Held, ReadOut, Coded, Alive
<1> QED
  BY <1>4, <1>5 DEF ProcInv

\* A child that hangs keeps what it holds.
LEMMA HangProc ==
  ASSUME ProcInv, NEW t \in Thread, Hang(t)
  PROVE  ProcInv'
<1>1. /\ UNCHANGED <<split, call, todo, pipe, got, holders, open, code, cut>>
      /\ child[t] = "running" /\ child' = [child EXCEPT ![t] = "hung"]
  BY DEF Hang
<1>2. Stream' = Stream /\ Silent' = Silent
  BY <1>1, SameStreams
<1>3. ProcType'
  BY <1>1, <1>2 DEF ProcInv, ProcType, Children
<1>4. ASSUME NEW u \in Thread
      PROVE  Fresh(u)' /\ Conserved(u)' /\ Held(u)' /\ ReadOut(u)' /\ Coded(u)'
  BY <1>1, <1>2 DEF ProcInv, ProcType, Fresh, Conserved, Held, ReadOut, Coded, Alive
<1> QED
  BY <1>3, <1>4 DEF ProcInv

\* Slots and disks leave the calls alone, but for a slot that makes one.
LEMMA OnlyRunCalls ==
  ASSUME NEW t \in Thread, SlotStep(t)
  PROVE  UNCHANGED procVars \/ CannotStart(t) \/ MakePipes(t)
BY DEF SlotStep, FetchLocal, FetchRemote, Kept, WriteInput, Run, Ran, Saved, Uploaded, Report

\* Every step keeps the invariant of the calls.
LEMMA StepProc == ProcInv /\ [Next]_vars => ProcInv'
<1> SUFFICES ASSUME ProcInv, [Next]_vars PROVE ProcInv'
  OBVIOUS
<1>1. ASSUME NEW t \in Thread, SlotStep(t) PROVE ProcInv'
  BY <1>1, OnlyRunCalls, StartProc, ProcStutter
<1>2. ASSUME NEW t \in Thread, CallStep(t) PROVE ProcInv'
  BY <1>2, ForkProc, CloseProc, TimeOutProc, WaitProc, ReadProc, EndProc DEF CallStep
<1>3. ASSUME NEW t \in Thread, ChildStep(t) PROVE ProcInv'
  BY <1>3, WriteProc, ExitProc DEF ChildStep
<1>4. CASE UNCHANGED procVars
  BY <1>4, ProcStutter
<1>5. ASSUME NEW t \in Thread, Mishap(t) PROVE ProcInv'
  BY <1>5, HangProc, ExitProc, CloseOwnProc, CutProc DEF Mishap
<1>6. CASE UNCHANGED vars
  BY <1>4, <1>6 DEF vars
<1> QED
  BY <1>1, <1>2, <1>3, <1>4, <1>5, <1>6 DEF Next, ProcStep, DiskStep

-----------------------------------------------------------------------------
(* The steps of the disks *)

\* A put that is under way is a whole record.
LEMMA PutFields ==
  ASSUME StoreType, NEW w \in Writer, put[w].at # "none"
  PROVE  put[w] \in PutRecord /\ put[w].store \in Store /\ put[w].blob \in Blob /\ put[w].tmp \in Content
<1>1. put[w] \in PutRecord \cup {NoPut} /\ NoPut.at = "none"
  BY DEF StoreType, NoPut
<1>2. put[w] \in PutRecord
  BY <1>1
<1> QED
  BY <1>2 DEF PutRecord

\* Moving a put along changes the entry of its writer only.
LEMMA PutMoves ==
  ASSUME StoreType, NEW w \in Writer, put[w].at # "none",
         NEW at \in {"look", "write", "rename", "stored", "failed"}, NEW tmp \in Content,
         put' = [put EXCEPT ![w].at = at, ![w].tmp = tmp]
  PROVE  /\ put' \in [Writer -> PutRecord \cup {NoPut}]
         /\ \A v \in Writer \ {w} : put'[v] = put[v]
         /\ put'[w].at = at /\ put'[w].tmp = tmp
         /\ put'[w].store = put[w].store /\ put'[w].blob = put[w].blob
<1>1. put[w] \in PutRecord /\ put \in [Writer -> PutRecord \cup {NoPut}]
  BY PutFields DEF StoreType
<1>2. put' = [put EXCEPT ![w] = [put[w] EXCEPT !.at = at, !.tmp = tmp]]
  BY <1>1
<1>3. [put[w] EXCEPT !.at = at, !.tmp = tmp] \in PutRecord
  BY <1>1 DEF PutRecord
<1>4. put'[w] = [put[w] EXCEPT !.at = at, !.tmp = tmp]
  BY <1>1, <1>2
<1>5. /\ put'[w].at = at /\ put'[w].tmp = tmp
      /\ put'[w].store = put[w].store /\ put'[w].blob = put[w].blob
  BY <1>1, <1>4 DEF PutRecord
<1> QED
  BY <1>1, <1>2, <1>3, <1>5

\* A put that only gets on with its work keeps its temporary file.
LEMMA PutGoesOn ==
  ASSUME StoreType, NEW w \in Writer, put[w].at # "none",
         NEW at \in {"look", "write", "rename", "stored", "failed"},
         put' = [put EXCEPT ![w].at = at]
  PROVE  /\ put' \in [Writer -> PutRecord \cup {NoPut}]
         /\ \A v \in Writer \ {w} : put'[v] = put[v]
         /\ put'[w].at = at /\ put'[w].tmp = put[w].tmp
         /\ put'[w].store = put[w].store /\ put'[w].blob = put[w].blob
<1>1. put[w] \in PutRecord /\ put \in [Writer -> PutRecord \cup {NoPut}]
  BY PutFields DEF StoreType
<1>2. put' = [put EXCEPT ![w] = [put[w] EXCEPT !.at = at]]
  BY <1>1
<1>3. [put[w] EXCEPT !.at = at] \in PutRecord
  BY <1>1 DEF PutRecord
<1>4. put'[w] = [put[w] EXCEPT !.at = at]
  BY <1>1, <1>2
<1>5. /\ put'[w].at = at /\ put'[w].tmp = put[w].tmp
      /\ put'[w].store = put[w].store /\ put'[w].blob = put[w].blob
  BY <1>1, <1>4 DEF PutRecord
<1> QED
  BY <1>1, <1>2, <1>3, <1>5

\* A slot begins and ends its own put, and touches no file with it.
LEMMA SlotPuts ==
  ASSUME StoreInv, NEW t \in Thread, UNCHANGED disks,
         \/ UNCHANGED put
         \/ EndPut(t)
         \/ \E x \in Store, d \in Blob : StartPut(t, x, d)
  PROVE  StoreInv'
<1>1. /\ UNCHANGED <<file, full, wasFull>> /\ Writer = Thread
      /\ put \in [Writer -> PutRecord \cup {NoPut}]
  BY ExecAssumption DEF disks, StoreInv, StoreType
<1>2. CASE UNCHANGED put
  BY <1>1, <1>2 DEF StoreInv, StoreType, TmpWhole, WholeUnlessFull
<1>3. ASSUME NEW r \in PutRecord \cup {NoPut}, r.at # "rename", put' = [put EXCEPT ![t] = r]
      PROVE  StoreInv'
  <2>1. put' \in [Writer -> PutRecord \cup {NoPut}]
    BY <1>1, <1>3
  <2>2. TmpWhole'
    BY <1>1, <1>3 DEF StoreInv, TmpWhole
  <2> QED
    BY <1>1, <2>1, <2>2 DEF StoreInv, StoreType, WholeUnlessFull
<1>4. CASE EndPut(t)
  <2>1. NoPut.at # "rename"
    BY DEF NoPut
  <2> QED
    BY <1>3, <1>4, <2>1 DEF EndPut
<1>5. ASSUME NEW x \in Store, NEW d \in Blob, StartPut(t, x, d) PROVE StoreInv'
  <2>1. Put("look", x, d) \in PutRecord /\ Put("look", x, d).at # "rename"
    BY DEF Put, PutRecord, Content
  <2> QED
    BY <1>3, <1>5, <2>1 DEF StartPut
<1> QED
  BY <1>2, <1>4, <1>5

\* What a step of a put does to the files: at most it puts a file under its name,
\* which is whole, or short on a disk that has been full.
LEMMA PutStore ==
  ASSUME StoreInv, NEW w \in Writer, PutStep(w)
  PROVE  /\ StoreInv'
         /\ UNCHANGED <<full, wasFull>>
         /\ \A x \in Store, d \in Blob : file'[x][d] = file[x][d] \/ file'[x][d] = "whole" \/ x \in wasFull
<1>1. UNCHANGED <<full, wasFull>> /\ put[w].at # "none"
  BY DEF PutStep, PutLook, PutWrite, PutRename
<1>2. /\ StoreType /\ put[w] \in PutRecord
      /\ put[w].store \in Store /\ put[w].blob \in Blob /\ put[w].tmp \in Content
  BY <1>1, PutFields DEF StoreInv
<1>3. CASE PutLook(w)
  <2>1. PICK at \in {"stored", "write"} : put' = [put EXCEPT ![w].at = at]
    BY <1>3 DEF PutLook
  <2>2. UNCHANGED file
    BY <1>3 DEF PutLook
  <2>3. put' \in [Writer -> PutRecord \cup {NoPut}] /\ put'[w].at # "rename"
        /\ \A v \in Writer \ {w} : put'[v] = put[v]
    BY <1>1, <1>2, <2>1, PutGoesOn
  <2>4. StoreType' /\ WholeUnlessFull' /\ (full \subseteq wasFull)'
    BY <1>1, <2>2, <2>3 DEF StoreInv, StoreType, WholeUnlessFull
  <2>5. TmpWhole'
    BY <1>1, <2>3 DEF StoreInv, TmpWhole
  <2> QED
    BY <1>1, <2>2, <2>4, <2>5 DEF StoreInv
<1>4. CASE PutWrite(w)
  <2>1. UNCHANGED file
    BY <1>4 DEF PutWrite, WhileWriting
  <2>2. /\ put' \in [Writer -> PutRecord \cup {NoPut}]
        /\ \A v \in Writer \ {w} : put'[v] = put[v]
        /\ put'[w].at = "rename" =>
             \/ put'[w].tmp = "whole"
             \/ put'[w].tmp = "short" /\ put'[w].store \in wasFull /\ put'[w].blob \in Buffered
    <3>1. CASE put' = [put EXCEPT ![w].at = "rename", ![w].tmp = "whole"]
      BY <1>1, <1>2, <3>1, PutMoves DEF Content
    <3>2. CASE put' = [put EXCEPT ![w].at = "failed"]
      <4>1. put'[w].at = "failed"
        BY <1>1, <1>2, <3>2, PutGoesOn
      <4> QED
        BY <1>1, <1>2, <3>2, <4>1, PutGoesOn
    <3>3. CASE /\ put[w].store \in full /\ put[w].blob \in Buffered
               /\ put' = [put EXCEPT ![w].at = "rename", ![w].tmp = "short"]
      <4>1. put[w].store \in wasFull
        BY <3>3 DEF StoreInv
      <4> QED
        BY <1>1, <1>2, <3>3, <4>1, PutMoves DEF Content
    <3> QED
      BY <1>4, <3>1, <3>2, <3>3 DEF PutWrite
  <2>3. StoreType' /\ WholeUnlessFull' /\ (full \subseteq wasFull)'
    BY <1>1, <2>1, <2>2 DEF StoreInv, StoreType, WholeUnlessFull
  <2>4. TmpWhole'
    BY <1>1, <2>2 DEF StoreInv, TmpWhole
  <2> QED
    BY <1>1, <2>1, <2>3, <2>4 DEF StoreInv
<1>5. CASE PutRename(w)
  <2>1. PICK at \in {"stored", "failed"} : put' = [put EXCEPT ![w].at = at]
    BY <1>5 DEF PutRename
  <2>2. put' \in [Writer -> PutRecord \cup {NoPut}] /\ put'[w].at # "rename"
        /\ \A v \in Writer \ {w} : put'[v] = put[v]
    BY <1>1, <1>2, <2>1, PutGoesOn
  <2>3. TmpWhole'
    BY <1>1, <2>2 DEF StoreInv, TmpWhole
  <2>4. \/ put[w].tmp = "whole"
        \/ put[w].tmp = "short" /\ put[w].store \in wasFull /\ put[w].blob \in Buffered
    BY <1>5 DEF StoreInv, TmpWhole, PutRename
  <2>5. /\ file' \in [Store -> [Blob -> Content]]
        /\ \A x \in Store, d \in Blob :
             \/ file'[x][d] = file[x][d]
             \/ file'[x][d] = "whole"
             \/ file'[x][d] = "short" /\ x \in wasFull /\ d \in Buffered
    <3>1. CASE UNCHANGED file
      BY <3>1 DEF StoreInv, StoreType
    <3>2. CASE file' = [file EXCEPT ![put[w].store][put[w].blob] = put[w].tmp]
      BY <1>2, <2>4, <3>2 DEF StoreInv, StoreType
    <3> QED
      BY <1>5, <3>1, <3>2 DEF PutRename
  <2>6. StoreType' /\ WholeUnlessFull' /\ (full \subseteq wasFull)'
    BY <1>1, <2>2, <2>5 DEF StoreInv, StoreType, WholeUnlessFull
  <2> QED
    BY <1>1, <2>3, <2>5, <2>6 DEF StoreInv
<1> QED
  BY <1>3, <1>4, <1>5 DEF PutStep

\* A disk that fills up has been full from then on.
LEMMA DiskStore ==
  ASSUME StoreInv, NEW x \in Store, FillUp(x) \/ MakeRoom(x)
  PROVE  StoreInv' /\ UNCHANGED file /\ wasFull \subseteq wasFull'
<1>1. /\ UNCHANGED <<file, put>> /\ wasFull \subseteq wasFull' /\ wasFull' \subseteq Store
      /\ full' \subseteq wasFull' /\ full' \subseteq Store
  BY DEF FillUp, MakeRoom, StoreInv, StoreType
<1>2. TmpWhole' /\ WholeUnlessFull'
  BY <1>1 DEF StoreInv, TmpWhole, WholeUnlessFull
<1> QED
  BY <1>1, <1>2 DEF StoreInv, StoreType

-----------------------------------------------------------------------------
(* The steps of the slots *)

\* A disk or a child does no harm to a slot, as long as an accepted output stays
\* where it is or its disk has been full.
LEMMA SlotKeeps ==
  ASSUME SlotInv, UNCHANGED <<split, stage, data, hash, accepted>>, wasFull \subseteq wasFull',
         \A d \in Blob : \/ file'["cas"][d] = file["cas"][d]
                         \/ file'["cas"][d] = "whole"
                         \/ "cas" \in wasFull
  PROVE  SlotInv'
<1>1. SlotType' /\ (split => \A t \in Thread : stage[t] = "run")' /\ AcceptedRight'
  BY DEF SlotInv, SlotType, AcceptedRight
<1>2. \A t \in Thread : SlotRight(t)'
  BY DEF SlotInv, SlotRight
<1>3. accepted \subseteq Blob
  BY ExecAssumption DEF SlotInv, SlotType
<1>4. AcceptedStored'
  BY <1>3 DEF SlotInv, AcceptedStored
<1> QED
  BY <1>1, <1>2, <1>4 DEF SlotInv

\* A slot that moves on with its input and the name of its output in order, and
\* takes nothing to the coordinator.
LEMMA SlotMoves ==
  ASSUME SlotInv, NEW t \in Thread, ~split, UNCHANGED <<split, file, wasFull, accepted>>,
         NEW l \in Stages, Goto(t, l),
         NEW c \in Content, data' = [data EXCEPT ![t] = c],
         NEW h \in {NoHash, Output, Garbled}, hash' = [hash EXCEPT ![t] = h],
         l \in {"keep", "input", "run", "save", "upload"} => c # "none",
         c = "short" => "cache" \in wasFull,
         h \in {NoHash, Output} \/ "cache" \in wasFull
  PROVE  SlotInv'
<1>1. SlotType' /\ (split => \A u \in Thread : stage[u] = "run")' /\ AcceptedRight' /\ AcceptedStored'
  BY DEF SlotInv, SlotType, Goto, AcceptedRight, AcceptedStored
<1>2. ASSUME NEW u \in Thread PROVE SlotRight(u)'
  BY DEF SlotInv, SlotType, Goto, SlotRight
<1> QED
  BY <1>1, <1>2 DEF SlotInv

\* A put that a slot may begin.
LEMMA BlobsOfTask ==
  /\ "cas" \in Store /\ "cache" \in Store
  /\ Input \in Blob
  /\ \A t \in Thread : Made(t) \in Blob /\ Made(t) \in {Output, Garbled}
BY ExecAssumption DEF Made

\* execute(): every step of a slot keeps its promises.
LEMMA SlotProc ==
  ASSUME StoreInv, SlotInv, NEW t \in Thread, SlotStep(t)
  PROVE  StoreInv' /\ SlotInv'
<1>t. /\ stage \in [Thread -> Stages] /\ data \in [Thread -> Content]
      /\ hash \in [Thread -> {NoHash, Output, Garbled}]
      /\ stage[t] # "run" => ~split
      /\ SlotRight(t)
  BY DEF SlotInv, SlotType
<1>s. ASSUME ~split, UNCHANGED <<split, disks, accepted>>,
             NEW l \in Stages, Goto(t, l), UNCHANGED <<data, hash>>,
             l \in {"keep", "input", "run", "save", "upload"} => data[t] # "none"
      PROVE  SlotInv'
  <2>1. data' = [data EXCEPT ![t] = data[t]] /\ hash' = [hash EXCEPT ![t] = hash[t]]
    BY <1>s, <1>t
  <2>2. data[t] \in Content /\ hash[t] \in {NoHash, Output, Garbled}
    BY <1>t
  <2>3. UNCHANGED <<split, file, wasFull, accepted>>
    BY <1>s DEF disks
  <2>4. /\ data[t] = "short" => "cache" \in wasFull
        /\ hash[t] \in {NoHash, Output} \/ "cache" \in wasFull
    BY <1>t DEF SlotRight
  <2> QED
    BY <1>s, <2>1, <2>2, <2>3, <2>4, SlotMoves
<1>1. CASE FetchLocal(t)
  <2>1. ~split /\ UNCHANGED <<split, file, full, wasFull, fills, put, hash, accepted>>
    BY <1>1, <1>t DEF FetchLocal, procVars, storeVars
  <2>2. StoreInv'
    BY <2>1, SlotPuts DEF disks
  <2>3. /\ file["cache"][Input] \in Content \ {"none"}
        /\ file["cache"][Input] = "short" => "cache" \in wasFull
    BY <1>1, BlobsOfTask DEF FetchLocal, Has, StoreInv, StoreType, WholeUnlessFull
  <2>4. /\ data' = [data EXCEPT ![t] = file["cache"][Input]] /\ Goto(t, "input")
        /\ hash' = [hash EXCEPT ![t] = hash[t]] /\ hash[t] \in {NoHash, Output, Garbled}
        /\ hash[t] \in {NoHash, Output} \/ "cache" \in wasFull
    BY <1>1, <1>t, <2>1 DEF FetchLocal, SlotRight
  <2>5. SlotInv'
    BY <2>1, <2>3, <2>4, SlotMoves DEF Stages
  <2> QED
    BY <2>2, <2>5
<1>2. CASE FetchRemote(t)
  <2>1. ~split /\ UNCHANGED <<split, disks, hash, accepted>> /\ UNCHANGED disks
    BY <1>2, <1>t DEF FetchRemote, procVars
  <2>2. CASE /\ Expected(file["cas"][Input]) /\ data' = [data EXCEPT ![t] = file["cas"][Input]]
             /\ StartPut(t, "cache", Input) /\ Goto(t, "keep")
    <3>1. data' = [data EXCEPT ![t] = "whole"]
      BY <2>2 DEF Expected
    <3>2. StoreInv'
      BY <2>1, <2>2, BlobsOfTask, SlotPuts
    <3>3. /\ hash' = [hash EXCEPT ![t] = hash[t]] /\ hash[t] \in {NoHash, Output, Garbled}
          /\ hash[t] \in {NoHash, Output} \/ "cache" \in wasFull
      BY <1>t, <2>1 DEF SlotRight
    <3>4. SlotInv'
      BY <2>1, <2>2, <3>1, <3>3, SlotMoves DEF Stages, Content, disks
    <3> QED
      BY <3>2, <3>4
  <2>3. CASE Fail(t, "retry") /\ UNCHANGED <<data, put>>
    <3>1. StoreInv'
      BY <2>1, <2>3, SlotPuts
    <3>2. SlotInv'
      BY <1>s, <2>1, <2>3 DEF Fail, Stages
    <3> QED
      BY <3>1, <3>2
  <2> QED
    BY <1>2, <2>2, <2>3 DEF FetchRemote
<1>3. CASE Kept(t)
  <2>1. ~split /\ UNCHANGED <<split, disks, accepted>> /\ UNCHANGED <<data, hash>> /\ EndPut(t)
    BY <1>3, <1>t DEF Kept, procVars
  <2>2. UNCHANGED disks
    BY <2>1
  <2>3. StoreInv'
    BY <2>1, <2>2, SlotPuts
  <2>4. data[t] # "none"
    BY <1>3, <1>t, <2>1 DEF SlotRight, Kept
  <2>5. PICK l \in {"input", "report"} : Goto(t, l)
    BY <1>3 DEF Kept, Fail
  <2>6. SlotInv'
    BY <1>s, <2>1, <2>4, <2>5 DEF Stages
  <2> QED
    BY <2>3, <2>6
<1>4. CASE WriteInput(t)
  <2>1. ~split /\ UNCHANGED <<split, file, full, wasFull, fills, put, hash, accepted>>
    BY <1>4, <1>t DEF WriteInput, procVars, storeVars
  <2>2. UNCHANGED <<split, disks, accepted>> /\ UNCHANGED disks
    BY <2>1 DEF disks
  <2>3. StoreInv'
    BY <2>1, <2>2, SlotPuts
  <2>4. data[t] # "none"
    BY <1>4, <1>t, <2>1 DEF SlotRight, WriteInput
  <2>5. CASE UNCHANGED data /\ (Goto(t, "run") \/ Fail(t, "retry"))
    BY <1>s, <2>1, <2>2, <2>3, <2>4, <2>5 DEF Fail, Stages
  <2>6. CASE "cache" \in full /\ data' = [data EXCEPT ![t] = "short"] /\ Goto(t, "run")
    <3>1. /\ hash' = [hash EXCEPT ![t] = hash[t]] /\ hash[t] \in {NoHash, Output, Garbled}
          /\ "cache" \in wasFull
      BY <1>t, <2>1, <2>6 DEF StoreInv
    <3>2. SlotInv'
      BY <2>1, <2>6, <3>1, SlotMoves DEF Stages, Content
    <3> QED
      BY <2>3, <3>2
  <2> QED
    BY <1>4, <2>5, <2>6 DEF WriteInput
<1>5. CASE Run(t)
  <2>1. UNCHANGED split /\ UNCHANGED disks /\ UNCHANGED put /\ UNCHANGED <<stage, data, hash, accepted>>
    BY <1>5 DEF Run, MakePipes, CannotStart, storeVars, slotVars, disks
  <2>2. StoreInv'
    BY <2>1, SlotPuts
  <2>3. SlotInv'
    BY <2>1, SlotKeeps DEF disks
  <2> QED
    BY <2>2, <2>3
<1>6. CASE Ran(t)
  <2>1. ~split /\ UNCHANGED <<split, disks, accepted>> /\ UNCHANGED <<data, hash>>
    BY <1>6 DEF Ran, procVars
  <2>2. UNCHANGED disks
    BY <2>1
  <2>3. UNCHANGED put \/ StartPut(t, "cache", Made(t))
    BY <1>6 DEF Ran
  <2>4. StoreInv'
    BY <2>2, <2>3, BlobsOfTask, SlotPuts
  <2>5. data[t] # "none"
    BY <1>6, <1>t, <2>1 DEF SlotRight, Ran
  <2>6. PICK l \in {"save", "report"} : Goto(t, l)
    BY <1>6 DEF Ran, Fail
  <2>7. SlotInv'
    BY <1>s, <2>1, <2>5, <2>6 DEF Stages
  <2> QED
    BY <2>4, <2>7
<1>7. CASE Saved(t)
  <2>1. ~split /\ UNCHANGED <<split, disks, data, accepted>>
    BY <1>7, <1>t DEF Saved, procVars
  <2>2. UNCHANGED disks
    BY <2>1
  <2>3. EndPut(t) \/ StartPut(t, "cas", Made(t))
    BY <1>7 DEF Saved
  <2>4. StoreInv'
    BY <2>2, <2>3, BlobsOfTask, SlotPuts
  <2>5. /\ data[t] # "none" /\ data[t] \in Content /\ data' = [data EXCEPT ![t] = data[t]]
        /\ data[t] = "short" => "cache" \in wasFull
    BY <1>7, <1>t, <2>1 DEF SlotRight, Saved
  <2>6. Made(t) = Output \/ "cache" \in wasFull
    BY <2>5 DEF Made, Content
  <2>7. PICK h \in {NoHash, Made(t)} : hash' = [hash EXCEPT ![t] = h]
    BY <1>7 DEF Saved
  <2>8. h \in {NoHash, Output, Garbled} /\ (h \in {NoHash, Output} \/ "cache" \in wasFull)
    BY <2>6, <2>7, BlobsOfTask
  <2>9. PICK l \in {"upload", "report"} : Goto(t, l)
    BY <1>7 DEF Saved, Fail
  <2>10. UNCHANGED <<split, file, wasFull, accepted>> /\ l \in Stages
    BY <2>1 DEF disks, Stages
  <2>11. SlotInv'
    BY <2>1, <2>5, <2>7, <2>8, <2>9, <2>10, SlotMoves
  <2> QED
    BY <2>4, <2>11
<1>8. CASE Uploaded(t)
  <2>1. ~split /\ UNCHANGED <<split, disks, accepted>> /\ UNCHANGED <<data, hash>>
        /\ EndPut(t) /\ Goto(t, "report")
    BY <1>8, <1>t DEF Uploaded, procVars
  <2>2. UNCHANGED disks
    BY <2>1
  <2>3. StoreInv'
    BY <2>1, <2>2, SlotPuts
  <2>4. SlotInv'
    BY <1>s, <2>1 DEF Stages
  <2> QED
    BY <2>3, <2>4
<1>9. CASE Report(t)
  <2>1. /\ ~split /\ UNCHANGED <<split, data, hash>> /\ UNCHANGED disks /\ UNCHANGED put
        /\ Goto(t, "over")
    BY <1>9, <1>t DEF Report, procVars, storeVars, disks
  <2>2. StoreInv'
    BY <2>1, SlotPuts
  <2>3. UNCHANGED <<file, wasFull>>
    BY <2>1 DEF disks
  <2>4. SlotType' /\ (split => \A u \in Thread : stage[u] = "run")'
    <3>1. Arrived(hash[t]) => hash[t] \in {Output, Garbled}
      BY <1>t DEF Arrived
    <3>2. accepted' \subseteq {Output, Garbled}
      BY <1>9, <3>1 DEF Report, SlotInv, SlotType
    <3> QED
      BY <1>t, <2>1, <3>2 DEF SlotType, Goto, Stages
  <2>5. ASSUME NEW u \in Thread PROVE SlotRight(u)'
    BY <1>t, <2>1, <2>3 DEF SlotInv, SlotRight, Goto
  <2>6. AcceptedRight'
    <3>1. Arrived(hash[t]) => hash[t] = Output \/ "cache" \in wasFull
      BY <1>t DEF Arrived, SlotRight
    <3> QED
      BY <1>9, <2>3, <3>1 DEF Report, SlotInv, AcceptedRight
  <2>7. AcceptedStored'
    <3>1. Arrived(hash[t]) => hash[t] # NoHash /\ (file["cas"][hash[t]] = "whole" \/ "cas" \in wasFull)
      <4>1. hash[t] # NoHash => hash[t] \in Blob /\ "cas" \in Store
        BY <1>t, ExecAssumption
      <4>2. \A d \in Blob : file["cas"][d] \in Content
        BY BlobsOfTask DEF StoreInv, StoreType
      <4> QED
        BY <4>1, <4>2 DEF Arrived, Has, StoreInv, WholeUnlessFull, Content
    <3> QED
      BY <1>9, <2>3, <3>1 DEF Report, SlotInv, AcceptedStored
  <2> QED
    BY <2>2, <2>4, <2>5, <2>6, <2>7 DEF SlotInv
<1> QED
  BY <1>1, <1>2, <1>3, <1>4, <1>5, <1>6, <1>7, <1>8, <1>9 DEF SlotStep

-----------------------------------------------------------------------------
(* Everything together *)

\* The input is in place, whole but on a disk that has been full.
LEMMA InitExec == Init => IInv
<1> SUFFICES ASSUME Init PROVE IInv
  OBVIOUS
<1>1. ProcInv
  BY InitProc DEF Init
<1>2. PICK had \in {"none", "whole"}, sent \in {"whole", "short"} :
        /\ file = [x \in Store |-> [d \in Blob |->
                    IF d # Input THEN "none" ELSE IF x = "cas" THEN sent ELSE had]]
        /\ sent = "short" => Input \in Buffered
        /\ wasFull = IF sent = "short" THEN {"cas"} ELSE {}
  BY DEF Init
<1>3. /\ file \in [Store -> [Blob -> Content]] /\ wasFull \subseteq Store
      /\ WholeUnlessFull
  BY <1>2, ExecAssumption DEF WholeUnlessFull, Content
<1>4. StoreInv
  <2>1. put = [w \in Writer |-> NoPut] /\ full = {} /\ NoPut.at # "rename"
    BY DEF Init, StoreInit, NoPut
  <2> QED
    BY <1>3, <2>1 DEF StoreInv, StoreType, TmpWhole
<1>5. SlotInv
  BY DEF Init, SlotInv, SlotType, Stages, Content, SlotRight, AcceptedRight, AcceptedStored
<1> QED
  BY <1>1, <1>4, <1>5 DEF IInv

\* Every step keeps the whole invariant.
LEMMA StepExec == IInv /\ [Next]_vars => IInv'
<1> SUFFICES ASSUME IInv, [Next]_vars PROVE IInv'
  OBVIOUS
<1>1. ProcInv' /\ StoreInv /\ SlotInv
  BY StepProc DEF IInv
<1>2. CASE UNCHANGED <<storeVars, slotVars>> /\ UNCHANGED split
  <2>1. UNCHANGED <<file, put, full, wasFull, stage, data, hash, accepted, split>>
    BY <1>2 DEF storeVars, slotVars
  <2>2. StoreInv'
    BY <1>1, <2>1 DEF StoreInv, StoreType, TmpWhole, WholeUnlessFull
  <2>3. SlotInv'
    BY <1>1, <2>1, SlotKeeps
  <2> QED
    BY <1>1, <2>2, <2>3 DEF IInv
<1>3. ASSUME NEW t \in Thread, SlotStep(t) PROVE IInv'
  BY <1>1, <1>3, SlotProc DEF IInv
<1>4. ASSUME NEW t \in Thread, DiskStep(t) PROVE IInv'
  <2>1. t \in Writer /\ "cas" \in Store
    BY ExecAssumption
  <2>2. PutStep(t) /\ UNCHANGED <<split, stage, data, hash, accepted>>
    BY <1>4 DEF DiskStep, procVars, slotVars
  <2>3. SlotInv' /\ StoreInv'
    BY <1>1, <2>1, <2>2, PutStore, SlotKeeps
  <2> QED
    BY <1>1, <2>3 DEF IInv
<1>5. ASSUME NEW x \in Store, FillUp(x) \/ MakeRoom(x), UNCHANGED <<procVars, slotVars>> PROVE IInv'
  <2>1. UNCHANGED <<split, stage, data, hash, accepted>>
    BY <1>5 DEF procVars, slotVars
  <2>2. SlotInv' /\ StoreInv'
    BY <1>1, <1>5, <2>1, DiskStore, SlotKeeps
  <2> QED
    BY <1>1, <2>2 DEF IInv
<1>6. ASSUME NEW t \in Thread, ProcStep(t) \/ ChildStep(t) \/ (Mishap(t) /\ UNCHANGED <<storeVars, slotVars>>)
      PROVE  IInv'
  <2>1. UNCHANGED <<storeVars, slotVars>> /\ UNCHANGED split
    BY <1>6 DEF ProcStep, ChildStep, CallStep, Fork, CloseWriteEnds, TimeOut, Waitpid, Read,
                EndOfStream, ReadFails, CloseStream, PollFails, Write, Exit, End, Mishap, Hang,
                CloseOwn, Die, BrokenPipe
  <2> QED
    BY <1>2, <2>1
<1>7. CASE UNCHANGED vars
  BY <1>2, <1>7 DEF vars, procVars
<1> QED
  BY <1>3, <1>4, <1>5, <1>6, <1>7 DEF Next

\* The inductive invariant of run_process, the store and the slots: chunks are
\* conserved, live children hold their write ends, closed streams were read to the
\* end, and nothing short is on a disk that has never been full.
THEOREM ExecInvariant == Spec => []IInv
<1> QED
  BY InitExec, StepExec, PTL DEF Spec

\* An exit code of run_process comes with all of the output, however the reads, the
\* writes and the forks of other threads interleave, if no poll() or read() failed.
THEOREM OutputsComplete == Spec => []OutputComplete
<1>1. ASSUME ProcInv PROVE OutputComplete
  <2> SUFFICES ASSUME NEW t \in Thread \ cut, call[t] = "returned", code[t] >= 0, NEW k \in Stream
               PROVE  got[t][k] = Volume[k]
    BY DEF OutputComplete
  <2>1. open[t] = {} /\ child[t] \in {"ok", "error"}
    BY <1>1 DEF ProcInv, Coded
  <2>2. pipe[t][k] = 0
    BY <1>1, <2>1 DEF ProcInv, ReadOut
  <2>3. todo[t][k] = 0
    BY <1>1, <2>1 DEF ProcInv, Conserved, Silent
  <2>4. todo[t][k] + pipe[t][k] + got[t][k] = Volume[k] /\ got[t][k] \in Nat
    BY <1>1, <2>1 DEF ProcInv, Conserved, ProcType
  <2> QED
    BY <2>2, <2>3, <2>4
<1> QED
  BY <1>1, ExecInvariant, PTL DEF IInv

\* run_process gives up only when a child hangs that holds its pipes, or one whose
\* caller has dropped a stream: both streams are read, so that no other child waits
\* for room for ever.
THEOREM TimeoutsEarned == Spec => TimeoutEarned
<1>1. ASSUME IInv, Next, NEW t \in Thread, call[t] = "polling", call'[t] = "timedout"
      PROVE  \E h \in holders[t] : child[h] \in {"hung", "orphan"} \/ h \in cut
  <2> USE <1>1 DEF IInv
  <2>1. CASE TimeOut(t)
    <3>1. PICK h \in holders[t] : Stuck(h)
      BY <2>1 DEF TimeOut
    <3>2. h \in Thread
      BY DEF ProcInv, ProcType
    <3>3. ASSUME child[h] \notin {"hung", "orphan"}, h \notin cut PROVE FALSE
      <4>1. /\ child[h] = "running" /\ todo[h] # Silent
            /\ \A k \in Stream : todo[h][k] > 0 =>
                 call[h] # "forked" /\ ~(call[h] = "polling" /\ k \in open[h])
        BY <3>1, <3>3 DEF Stuck, Polled
      <4>2. todo[h] \in [Stream -> Nat]
        BY <3>2 DEF ProcInv, ProcType
      <4>3. PICK k \in Stream : todo[h][k] > 0
        BY <4>1, <4>2 DEF Silent
      <4>4. call[h] \in {"polling", "wait"} /\ k \notin open[h]
        BY <3>2, <4>1, <4>3 DEF ProcInv, Held, Fresh, Alive
      <4> QED
        BY <3>2, <3>3, <4>1, <4>4 DEF ProcInv, ReadOut, Alive
    <3> QED
      BY <3>1, <3>3
  <2>2. ASSUME NEW u \in Thread, u # t, TimeOut(u) PROVE FALSE
    BY <2>2 DEF TimeOut, ProcInv, ProcType
  <2>3. ASSUME NEW u \in Thread,
               PollFails(u) \/ \E k \in Stream : EndOfStream(u, k) \/ ReadFails(u, k)
        PROVE  FALSE
    BY <2>3 DEF PollFails, EndOfStream, ReadFails, CloseStream, ProcInv, ProcType
  <2>4. ASSUME NEW u \in Thread,
               \/ CannotStart(u) \/ MakePipes(u) \/ Fork(u) \/ CloseWriteEnds(u) \/ Waitpid(u)
        PROVE  FALSE
    BY <2>4 DEF CannotStart, MakePipes, Fork, CloseWriteEnds, Waitpid, ProcInv, ProcType
  <2>5. ASSUME NEW u \in Thread,
               \/ \E k \in Stream : Read(u, k) \/ Write(u, k) \/ BrokenPipe(u, k)
               \/ (\E how \in Ends : Exit(u, how)) \/ Hang(u) \/ Die(u) \/ CloseOwn(u)
        PROVE  FALSE
    <3>1. call' = call
      BY <2>5 DEF Read, Write, BrokenPipe, Exit, End, Hang, Die, CloseOwn
    <3> QED
      BY <3>1
  <2>6. CASE UNCHANGED procVars
    BY <2>6 DEF procVars
  <2>7. ASSUME NEW u \in Thread, SlotStep(u) PROVE FALSE
    <3>1. UNCHANGED procVars \/ CannotStart(u) \/ MakePipes(u)
      BY <2>7, OnlyRunCalls
    <3>2. CASE UNCHANGED procVars
      BY <3>2 DEF procVars
    <3> QED
      BY <2>4, <3>1, <3>2
  <2>8. ASSUME NEW u \in Thread, Mishap(u) PROVE FALSE
    BY <2>3, <2>5, <2>8 DEF Mishap
  <2>9. ASSUME NEW u \in Thread, CallStep(u) PROVE u = t /\ TimeOut(t)
    BY <2>2, <2>3, <2>4, <2>5, <2>9 DEF CallStep
  <2> QED
    BY <2>1, <2>5, <2>6, <2>7, <2>8, <2>9 DEF Next, ProcStep, ChildStep, DiskStep
<1>2. IInv /\ [Next]_vars =>
        [\A t \in Thread : call[t] = "polling" /\ call'[t] = "timedout" =>
           \E h \in holders[t] : child[h] \in {"hung", "orphan"} \/ h \in cut]_procVars
  BY <1>1 DEF vars
<1> QED
  BY <1>2, ExecInvariant, PTL DEF Spec, TimeoutEarned

\* No reader meets half a file, however many threads put a blob at once, but a small
\* one on a disk that has been full: write_file_atomic renames what it has written.
THEOREM WholeFiles == Spec => []WholeUnlessFull
<1> QED
  BY ExecInvariant, PTL DEF IInv, StoreInv

\* The coordinator takes the output of the whole input, unless the worker's disk has
\* been full.
THEOREM OutputsRight == Spec => []AcceptedRight
<1> QED
  BY ExecInvariant, PTL DEF IInv, SlotInv

\* An accepted output is in the coordinator's store.
THEOREM OutputsStored == Spec => []AcceptedStored
<1> QED
  BY ExecInvariant, PTL DEF IInv, SlotInv
=============================================================================
