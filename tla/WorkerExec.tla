----------------------------- MODULE WorkerExec -----------------------------
(***************************************************************************)
(* execute() of a worker, in several slots at once: fetch the input through*)
(* the local cache, run the compiler, keep the output, upload it, and have *)
(* the coordinator look at the report.  The slots run the same task, as    *)
(* they do after a lease has expired.                                      *)
(*                                                                         *)
(* The same threads may also be the jobs of dcc (split), which do nothing  *)
(* but call run_process.                                                   *)
(***************************************************************************)
EXTENDS RunProcess, BlobStore

CONSTANTS
  Input, Output,   \* the blobs of the task
  Garbled,         \* what comes out of a short input, if anything
  NoHash           \* ""

ASSUME ExecAssumption ==
  /\ Writer = Thread
  /\ {"cas", "cache"} \subseteq Store
  /\ {Input, Output, Garbled} \subseteq Blob
  /\ NoHash \notin Blob

VARIABLES
  stage,     \* fetch, keep, input, run, save, upload, report, over
  data,      \* the input in the slot's directory: none, whole or short
  hash,      \* h, once the output is put
  result,    \* ok, retry or fail
  accepted   \* outputs that CompleteTask has taken

slotVars == <<stage, data, hash, result, accepted>>
vars == <<procVars, storeVars, slotVars>>

\* dcc has sent the input, perhaps to a full disk, and the worker may have had it.
Init ==
  /\ ProcInit /\ StoreInit
  /\ \E had \in {"none", "whole"}, sent \in {"whole", "short"} :
       /\ file = [x \in Store |-> [d \in Blob |->
                   IF d # Input THEN "none" ELSE IF x = "cas" THEN sent ELSE had]]
       /\ split => had = "none" /\ sent = "whole"
       /\ sent = "short" => Input \in Buffered
       /\ wasFull = IF sent = "short" THEN {"cas"} ELSE {}
  /\ stage = [t \in Thread |-> IF split THEN "run" ELSE "fetch"]
  /\ data = [t \in Thread |-> "none"]
  /\ hash = [t \in Thread |-> NoHash]
  /\ result = [t \in Thread |-> "none"]
  /\ accepted = {}

Goto(t, l) == stage' = [stage EXCEPT ![t] = l]
Fail(t, how) == result' = [result EXCEPT ![t] = how] /\ Goto(t, "report")
StartPut(t, x, d) == put' = [put EXCEPT ![t] = Put("look", x, d)]
EndPut(t) == put' = [put EXCEPT ![t] = NoPut]
disks == <<file, full, wasFull, fills>>

-----------------------------------------------------------------------------
\* Mutation: what arrives is kept as it is.
ExpectedAny(content) == TRUE

\* put(b.data(), digest)
Expected(content) == content = "whole"

\* A local file is taken as it is.
FetchLocal(t) ==
  /\ stage[t] = "fetch" /\ Has("cache", Input)
  /\ data' = [data EXCEPT ![t] = file["cache"][Input]]
  /\ Goto(t, "input")
  /\ UNCHANGED <<procVars, storeVars, hash, result, accepted>>

FetchRemote(t) ==
  /\ stage[t] = "fetch" /\ ~Has("cache", Input)
  /\ \/ /\ Expected(file["cas"][Input])
        /\ data' = [data EXCEPT ![t] = file["cas"][Input]]
        /\ StartPut(t, "cache", Input)
        /\ Goto(t, "keep")
        /\ UNCHANGED result
     \/ Fail(t, "retry") /\ UNCHANGED <<data, put>>
  /\ UNCHANGED <<procVars, disks, hash, accepted>>

Kept(t) ==
  /\ stage[t] = "keep"
  /\ \/ put[t].at = "stored" /\ Goto(t, "input") /\ UNCHANGED result
     \/ put[t].at = "failed" /\ Fail(t, "retry")
  /\ EndPut(t)
  /\ UNCHANGED <<procVars, disks, data, hash, accepted>>

\* The directory is on the disk of the cache.
WriteInput(t) ==
  /\ stage[t] = "input"
  /\ \/ "cache" \notin full /\ Goto(t, "run") /\ UNCHANGED <<data, result>>
     \/ "cache" \in full /\ Fail(t, "retry") /\ UNCHANGED data
     \/ /\ "cache" \in full /\ Input \in Buffered
        /\ data' = [data EXCEPT ![t] = "short"]
        /\ Goto(t, "run")
        /\ UNCHANGED result
  /\ UNCHANGED <<procVars, storeVars, hash, accepted>>

Run(t) ==
  /\ stage[t] = "run"
  /\ MakePipes(t) \/ CannotStart(t)
  /\ UNCHANGED <<storeVars, slotVars>>

Made(t) == IF data[t] = "whole" THEN Output ELSE Garbled

\* A nonzero exit code is final, whatever its cause, and so is a missing output.
Ran(t) ==
  /\ stage[t] = "run" /\ call[t] = "returned" /\ ~split
  /\ \/ Fail(t, "fail") /\ UNCHANGED put
     \/ code[t] = 0 /\ StartPut(t, "cache", Made(t)) /\ Goto(t, "save") /\ UNCHANGED result
  /\ UNCHANGED <<procVars, disks, data, hash, accepted>>

\* h is empty when the local put failed; the output is uploaded all the same.
Saved(t) ==
  /\ stage[t] = "save" /\ put[t].at \in {"stored", "failed"}
  /\ hash' = [hash EXCEPT ![t] = IF put[t].at = "stored" THEN Made(t) ELSE NoHash]
  /\ \/ StartPut(t, "cas", Made(t)) /\ Goto(t, "upload") /\ UNCHANGED result
     \/ EndPut(t) /\ Fail(t, "retry")
  /\ UNCHANGED <<procVars, disks, data, accepted>>

Uploaded(t) ==
  /\ stage[t] = "upload" /\ put[t].at \in {"stored", "failed"}
  /\ result' = [result EXCEPT ![t] = IF put[t].at = "stored" THEN "ok" ELSE "retry"]
  /\ EndPut(t) /\ Goto(t, "report")
  /\ UNCHANGED <<procVars, disks, data, hash, accepted>>

\* Mutation: the worker's word is taken for it.
ArrivedAny(d) == TRUE

\* cas_.has(r->output())
Arrived(d) == d # NoHash /\ Has("cas", d)

Report(t) ==
  /\ stage[t] = "report"
  /\ accepted' = IF result[t] = "ok" /\ Arrived(hash[t]) THEN accepted \cup {hash[t]} ELSE accepted
  /\ Goto(t, "over")
  /\ UNCHANGED <<procVars, storeVars, data, hash, result>>

-----------------------------------------------------------------------------
SlotStep(t) ==
  \/ FetchLocal(t) \/ FetchRemote(t) \/ Kept(t) \/ WriteInput(t) \/ Run(t)
  \/ Ran(t) \/ Saved(t) \/ Uploaded(t) \/ Report(t)

ProcStep(t) == CallStep(t) /\ UNCHANGED <<storeVars, slotVars>>
ChildStep(t) ==
  ((\E k \in Stream : Write(t, k)) \/ (\E how \in Ends : Exit(t, how)))
    /\ UNCHANGED <<storeVars, slotVars>>
DiskStep(t) == PutStep(t) /\ UNCHANGED <<procVars, slotVars>>

Next ==
  \/ \E t \in Thread :
       \/ SlotStep(t) \/ ProcStep(t) \/ ChildStep(t) \/ DiskStep(t)
       \/ Mishap(t) /\ UNCHANGED <<storeVars, slotVars>>
  \/ \E x \in Store : ~split /\ (FillUp(x) \/ MakeRoom(x)) /\ UNCHANGED <<procVars, slotVars>>

Fairness == \A t \in Thread :
  WF_vars(SlotStep(t)) /\ WF_vars(ProcStep(t)) /\ WF_vars(ChildStep(t)) /\ WF_vars(DiskStep(t))

Spec == Init /\ [][Next]_vars /\ Fairness

-----------------------------------------------------------------------------
(* Properties *)

\* The coordinator takes no wrong output: what a short file on its own disk, a hang
\* or a failed put leads to is a failure.  Only a worker whose disk has been full
\* can compile half an input and report the result.
AcceptedRight == accepted \subseteq {Output} \/ "cache" \in wasFull

\* An accepted output has a name and can be fetched, whole, by who needs it, unless
\* the coordinator's own disk has been full: has() takes a short file for the blob.
AcceptedStored ==
  \A d \in accepted : d # NoHash /\ (file["cas"][d] = "whole" \/ "cas" \in wasFull)
=============================================================================
