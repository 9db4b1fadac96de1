----------------------------- MODULE RunProcess -----------------------------
(***************************************************************************)
(* run_process, called by several threads of one program: the slots of a   *)
(* worker, or dcc's preprocessing jobs, which split stderr from stdout.    *)
(*                                                                         *)
(* The pipes are not close-on-exec: a child that another thread forks while*)
(* a write end is open keeps that write end until it dies.  A child is     *)
(* named after the thread that forked it.  It stands for the driver and the*)
(* programs the driver starts, which inherit what it holds.                *)
(***************************************************************************)
EXTENDS Integers

CONSTANTS
  Thread,
  Volume,      \* chunks a child writes, on each stream
  PipeSize,    \* chunks a pipe holds
  Unlucky      \* bound: the threads with any mishap but a child that hangs

ASSUME ProcAssumption == PipeSize \in Nat \ {0} /\ Volume \in [{"out", "err"} -> Nat]

VARIABLES
  split,    \* split_stderr
  call,     \* idle, piped, forked, polling, wait, timedout, returned
  child,    \* none, running, hung, or how it ended: ok, error, killed; orphan if
            \* its driver was killed and what it had started hangs on
  todo,     \* chunks the child has still to write
  pipe,     \* chunks written and not read
  got,      \* chunks in r.output and r.err
  holders,  \* the children that hold the write ends
  open,     \* the streams in fds
  code,     \* exit_code
  cut       \* the calls that a failing poll() or read() has made drop a stream

procVars == <<split, call, child, todo, pipe, got, holders, open, code, cut>>

Stream == IF split THEN {"out", "err"} ELSE {"out"}
Silent == [k \in Stream |-> 0]
Alive == {"running", "hung"}

ProcInit ==
  /\ split \in BOOLEAN
  /\ call = [t \in Thread |-> "idle"]
  /\ child = [t \in Thread |-> "none"]
  /\ todo = [t \in Thread |-> Silent] /\ pipe = todo /\ got = todo
  /\ holders = [t \in Thread |-> {}] /\ open = holders
  /\ code = [t \in Thread |-> -1]
  /\ cut = {}

-----------------------------------------------------------------------------
\* pipe() or fork() fails.
CannotStart(t) ==
  /\ call[t] = "idle"
  /\ call' = [call EXCEPT ![t] = "returned"]
  /\ UNCHANGED <<split, child, todo, pipe, got, holders, open, code, cut>>

MakePipes(t) ==
  /\ call[t] = "idle"
  /\ call' = [call EXCEPT ![t] = "piped"]
  /\ UNCHANGED <<split, child, todo, pipe, got, holders, open, code, cut>>

\* The child inherits every write end that the program has open.
Fork(t) ==
  /\ call[t] = "piped"
  /\ call' = [call EXCEPT ![t] = "forked"]
  /\ child' = [child EXCEPT ![t] = "running"]
  /\ todo' = [todo EXCEPT ![t] = [k \in Stream |-> Volume[k]]]
  /\ holders' = [u \in Thread |-> IF call[u] \in {"piped", "forked"} THEN holders[u] \cup {t}
                                  ELSE holders[u]]
  /\ UNCHANGED <<split, pipe, got, open, code, cut>>

CloseWriteEnds(t) ==
  /\ call[t] = "forked"
  /\ call' = [call EXCEPT ![t] = "polling"]
  /\ open' = [open EXCEPT ![t] = Stream]
  /\ UNCHANGED <<split, child, todo, pipe, got, holders, code, cut>>

\* Mutation: stderr is read when stdout is closed.
PolledInTurn(t, k) == k \in open[t] /\ (k = "err" => "out" \notin open[t])

\* fds[k].fd >= 0
Polled(t, k) == k \in open[t]

\* append(buf, n)
Read(t, k) ==
  /\ call[t] = "polling" /\ Polled(t, k)
  /\ pipe[t][k] > 0
  /\ got' = [got EXCEPT ![t][k] = @ + pipe[t][k]]
  /\ pipe' = [pipe EXCEPT ![t][k] = 0]
  /\ UNCHANGED <<split, call, child, todo, holders, open, code, cut>>

\* Mutation: a child that is gone has nothing more to say.
AtEndDead(t, k) == child[t] \notin Alive

\* read() returns 0
AtEnd(t, k) == pipe[t][k] = 0 /\ holders[t] = {}

\* The loop ends with the last stream.
CloseStream(t, k) ==
  /\ open' = [open EXCEPT ![t] = @ \ {k}]
  /\ call' = [call EXCEPT ![t] = IF open[t] = {k} THEN "wait" ELSE @]
  /\ UNCHANGED <<split, child, todo, pipe, got, holders, code>>

EndOfStream(t, k) ==
  /\ call[t] = "polling" /\ Polled(t, k)
  /\ AtEnd(t, k)
  /\ CloseStream(t, k)
  /\ UNCHANGED cut

\* read() returns -1, which is taken for the end of the stream.
ReadFails(t, k) ==
  /\ call[t] = "polling" /\ Polled(t, k)
  /\ pipe[t][k] > 0
  /\ CloseStream(t, k)
  /\ cut' = cut \cup {t}

\* poll() returns -1: the loop is left and nobody is killed.
PollFails(t) ==
  /\ call[t] = "polling"
  /\ call' = [call EXCEPT ![t] = "wait"]
  /\ open' = [open EXCEPT ![t] = {}]
  /\ cut' = cut \cup {t}
  /\ UNCHANGED <<split, child, todo, pipe, got, holders, code>>

\* A child that has not ended after the timeout: it hangs, or it waits for room in
\* a pipe that nobody reads.
Stuck(h) ==
  \/ child[h] \in {"hung", "orphan"}
  \/ /\ child[h] = "running" /\ todo[h] # Silent
     /\ \A k \in Stream : todo[h][k] > 0 =>
          pipe[h][k] = PipeSize /\ call[h] # "forked" /\ ~(call[h] = "polling" /\ Polled(h, k))

\* Mutation: the call gives up without ending its child.
KilledNot(state) == state

\* kill(pid, SIGKILL); a child that has ended stays as it is
Killed(state) == IF state \in Alive THEN "killed" ELSE state

\* poll() returns 0: the deadline is over and there is nothing to read.  The kill
\* reaches the driver only: what it has started may hang on with its write ends.
TimeOut(t) ==
  /\ call[t] = "polling"
  /\ \A k \in open[t] : Polled(t, k) => pipe[t][k] = 0
  /\ holders[t] # {} /\ \A h \in holders[t] : Stuck(h)
  /\ call' = [call EXCEPT ![t] = "timedout"]
  /\ \/ /\ child' = [child EXCEPT ![t] = Killed(@)]
        /\ holders' = [u \in Thread |-> holders[u] \ {t}]
     \/ /\ child[t] = "hung"
        /\ child' = [child EXCEPT ![t] = "orphan"]
        /\ UNCHANGED holders
  /\ UNCHANGED <<split, todo, pipe, got, open, code, cut>>

\* Without a timeout: it blocks for as long as the child lives.  The exit_code of a
\* call that has timed out stays -1.
Waitpid(t) ==
  /\ call[t] \in {"wait", "timedout"} /\ child[t] \notin Alive
  /\ call' = [call EXCEPT ![t] = "returned"]
  /\ code' = [code EXCEPT ![t] = IF call[t] = "wait" /\ child[t] = "ok" THEN 0
                                 ELSE IF call[t] = "wait" /\ child[t] = "error" THEN 1 ELSE -1]
  /\ UNCHANGED <<split, child, todo, pipe, got, holders, open, cut>>

-----------------------------------------------------------------------------
(* The child *)

Write(t, k) ==
  /\ child[t] = "running" /\ todo[t][k] > 0
  /\ pipe[t][k] < PipeSize
  /\ todo' = [todo EXCEPT ![t][k] = @ - 1]
  /\ pipe' = [pipe EXCEPT ![t][k] = @ + 1]
  /\ UNCHANGED <<split, call, child, got, holders, open, code, cut>>

End(t, how) ==
  /\ child' = [child EXCEPT ![t] = how]
  /\ holders' = [u \in Thread |-> holders[u] \ {t}]
  /\ UNCHANGED <<split, call, todo, pipe, got, open, code, cut>>

Exit(t, how) ==
  /\ child[t] = "running" /\ todo[t] = Silent
  /\ End(t, how)

\* A signal ends it in the middle of its output.
Die(t) ==
  /\ child[t] = "running"
  /\ End(t, "killed")

\* It writes to a stream that its caller has dropped and gives up (a signal is Die).
\* The write may succeed as well: the read end may have leaked too.
BrokenPipe(t, k) ==
  /\ child[t] = "running" /\ todo[t][k] > 0
  /\ call[t] \in {"polling", "wait"} /\ k \notin open[t]
  /\ End(t, "error")

\* It closes stdout and stderr and runs on; what has leaked into it stays.
CloseOwn(t) ==
  /\ child[t] = "running" /\ todo[t] = Silent
  /\ t \in holders[t]
  /\ holders' = [holders EXCEPT ![t] = @ \ {t}]
  /\ UNCHANGED <<split, call, child, todo, pipe, got, open, code, cut>>

Hang(t) ==
  /\ child[t] = "running"
  /\ child' = [child EXCEPT ![t] = "hung"]
  /\ UNCHANGED <<split, call, todo, pipe, got, holders, open, code, cut>>

\* The steps of the call, unless poll() or read() fails.
CallStep(t) ==
  \/ Fork(t) \/ CloseWriteEnds(t) \/ TimeOut(t) \/ Waitpid(t)
  \/ \E k \in Stream : Read(t, k) \/ EndOfStream(t, k)

Ends == {"ok", "error", "killed"}

\* What may happen and need not.
Mishap(t) ==
  \/ Hang(t)
  \/ /\ t \in Unlucky
     /\ \/ CloseOwn(t) \/ Die(t) \/ PollFails(t)
        \/ \E k \in Stream : ReadFails(t, k) \/ BrokenPipe(t, k)

-----------------------------------------------------------------------------
(* Properties *)

\* An exit code comes with everything the child has written, on both streams, unless
\* a poll() or read() of the call has failed.
OutputComplete ==
  \A t \in Thread \ cut : call[t] = "returned" /\ code[t] >= 0 =>
    \A k \in Stream : got[t][k] = Volume[k]

\* A call times out only when a child hangs, its own or one that was forked while
\* its pipes were open, or that child's caller has dropped a stream after a failed
\* poll() or read(): no amount of output on either stream blocks a child.
TimeoutEarned ==
  [][\A t \in Thread : call[t] = "polling" /\ call'[t] = "timedout" =>
       \E h \in holders[t] : child[h] \in {"hung", "orphan"} \/ h \in cut]_procVars

\* Every call returns, though children hang with its pipes in their hands, but for
\* one case: a child that has closed its own streams and then hangs (or whose
\* streams a failed poll() or read() has made the call drop) is waited for without
\* a timeout.
CallReturns ==
  \A t \in Thread : call[t] = "piped" ~>
    \/ call[t] = "returned"
    \/ call[t] = "wait" /\ (child[t] = "hung" \/ t \in cut)
=============================================================================
