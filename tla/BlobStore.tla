------------------------------ MODULE BlobStore ------------------------------
(***************************************************************************)
(* Cas and write_file_atomic on a disk that may be full.  There is one     *)
(* store per machine: the coordinator's and the worker's cache.  A put is  *)
(* made of the steps of its thread; a PutBlobs handler acts for the thread *)
(* that called it.                                                         *)
(*                                                                         *)
(* Short data stay in the stream's buffer until it is destroyed, where the *)
(* error of a full disk is not looked at; of longer data the write fails.  *)
(***************************************************************************)
EXTENDS Naturals

CONSTANTS
  Writer,       \* threads
  Store,
  Blob,
  Buffered,     \* the blobs that fit in the stream's buffer
  MaxFills      \* bound on the times a disk fills up

ASSUME StoreAssumption == Buffered \subseteq Blob /\ MaxFills \in Nat

VARIABLES
  file,      \* none, whole or short: what is under a blob's name
  put,       \* the put of each thread
  full,      \* the stores whose disk is full
  wasFull,   \* the stores whose disk has been full
  fills

storeVars == <<file, put, full, wasFull, fills>>

NoPut == [at |-> "none"]
Put(at, x, d) == [at |-> at, store |-> x, blob |-> d, tmp |-> "none"]

\* What is on the disks at first is up to the program; a disk that has been full
\* then is in wasFull.
StoreInit ==
  /\ put = [w \in Writer |-> NoPut]
  /\ full = {} /\ fills = 0

\* stat() on the name, nothing else.
Has(x, d) == file[x][d] # "none"

\* put(): a blob that is there is not written again.
PutLook(w) ==
  /\ put[w].at = "look"
  /\ put' = [put EXCEPT ![w].at = IF Has(put[w].store, put[w].blob) THEN "stored" ELSE "write"]
  /\ UNCHANGED <<file, full, wasFull, fills>>

\* Mutation: the file is written under its own name.
WhileWritingInPlace(x, d) == [file EXCEPT ![x][d] = "short"]

\* The temporary file is next to it, with the thread in its name.
WhileWriting(x, d) == file

PutWrite(w) ==
  /\ put[w].at = "write"
  /\ file' = WhileWriting(put[w].store, put[w].blob)
  /\ \/ put[w].store \notin full /\ put' = [put EXCEPT ![w].at = "rename", ![w].tmp = "whole"]
     \/ put[w].store \in full /\ put' = [put EXCEPT ![w].at = "failed"]
     \/ /\ put[w].store \in full /\ put[w].blob \in Buffered
        /\ put' = [put EXCEPT ![w].at = "rename", ![w].tmp = "short"]
  /\ UNCHANGED <<full, wasFull, fills>>

PutRename(w) ==
  /\ put[w].at = "rename"
  /\ \/ /\ file' = [file EXCEPT ![put[w].store][put[w].blob] = put[w].tmp]
        /\ put' = [put EXCEPT ![w].at = "stored"]
     \/ put' = [put EXCEPT ![w].at = "failed"] /\ UNCHANGED file
  /\ UNCHANGED <<full, wasFull, fills>>

PutStep(w) == PutLook(w) \/ PutWrite(w) \/ PutRename(w)

FillUp(x) ==
  /\ x \notin full /\ fills < MaxFills
  /\ full' = full \cup {x} /\ wasFull' = wasFull \cup {x} /\ fills' = fills + 1
  /\ UNCHANGED <<file, put>>

MakeRoom(x) ==
  /\ x \in full
  /\ full' = full \ {x}
  /\ UNCHANGED <<file, put, wasFull, fills>>

-----------------------------------------------------------------------------
(* Properties *)

\* Nobody reads half a file, however many threads write it, unless it is a small
\* one of a disk that has been full.
WholeUnlessFull ==
  \A x \in Store, d \in Blob : file[x][d] = "short" => x \in wasFull /\ d \in Buffered
=============================================================================
