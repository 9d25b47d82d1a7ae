--------------------------- MODULE ArtifactWriter ---------------------------
(***************************************************************************)
(* atomic_write_bytes of harness/artifacts.py, system call by system call, *)
(* and the file system under it: a new version is written to a file of its *)
(* own, synced, put in the place of the old one by a rename, and the       *)
(* directory synced.  Several processes write, the same files at times.    *)
(*                                                                         *)
(* The file system (external) keeps what a process wrote from the others   *)
(* only until the rename; but until a sync the disk may have less: of the  *)
(* file its beginning, of the directory any of the versions renamed into   *)
(* place since it was synced.  A temporary file is named by a fresh uuid   *)
(* and looked up by nobody, so one that a crash leaves behind changes      *)
(* nothing and is not kept here.  The directories themselves, which the    *)
(* code makes without a sync of their parents, are taken as durable.       *)
(***************************************************************************)
EXTENDS Naturals

CONSTANTS
  Procs,      \* the processes that write
  Files,      \* the files they write
  Data,       \* the versions a file may have, "none" for no file among them
  MaxErrors   \* bound: system calls that fail

ASSUME WriterAssumption == MaxErrors \in Nat

VARIABLES
  dir,        \* the version in each file's place
  disk,       \* the versions a power failure may leave there
  job,        \* each process's write: where it is, the file, the version
  errors      \* failed system calls so far

writerVars == <<dir, disk, job, errors>>

\* A version of a file, and whether all of it has reached the disk.
Version(data, synced) == [data |-> data, synced |-> synced]
NoJob == [step |-> "idle", file |-> "none", data |-> "none"]
Steps == {"idle", "checked", "opened", "written", "synced", "replaced", "returned", "failed"}

WriterInit(first) ==
  /\ dir = [f \in Files |-> Version(first[f], TRUE)]
  /\ disk = [f \in Files |-> {dir[f]}]
  /\ job = [p \in Procs |-> NoJob]
  /\ errors = 0

----------------------------------------------------------------------------
(* atomic_write_bytes.                                                     *)

At(p, step) == job[p].step = step
Step(p, step) == job' = [job EXCEPT ![p].step = step]

\* The call.
Open(p, f, data) ==
  /\ At(p, "idle")
  /\ job' = [job EXCEPT ![p] = [step |-> "checked", file |-> f, data |-> data]]
  /\ UNCHANGED <<dir, disk, errors>>

Create(p) == At(p, "checked") /\ Step(p, "opened") /\ UNCHANGED <<dir, disk, errors>>
Fill(p) == At(p, "opened") /\ Step(p, "written") /\ UNCHANGED <<dir, disk, errors>>
SyncFile(p) == At(p, "written") /\ Step(p, "synced") /\ UNCHANGED <<dir, disk, errors>>

Put(p, synced) ==
  LET f == job[p].file
      new == Version(job[p].data, synced)
  IN /\ dir' = [dir EXCEPT ![f] = new]
     /\ disk' = [disk EXCEPT ![f] = @ \cup {new}]
     /\ Step(p, "replaced") /\ UNCHANGED errors

\* Variant: the new file is put in place without being synced.
ReplaceUnsynced(p) == job[p].step \in {"written", "synced"} /\ Put(p, At(p, "synced"))

Replace(p) == At(p, "synced") /\ Put(p, TRUE)

\* Variant: the directory is not synced.
SyncDirectoryNot(p) == At(p, "replaced") /\ Step(p, "returned") /\ UNCHANGED <<dir, disk, errors>>

SyncDirectory(p) ==
  /\ At(p, "replaced") /\ Step(p, "returned")
  /\ disk' = [disk EXCEPT ![job[p].file] = {dir[job[p].file]}]
  /\ UNCHANGED <<dir, errors>>

\* A system call fails, or what is in the file's place is no regular file: the
\* temporary file is removed and ArtifactSafetyError raised.  The last of the calls
\* comes after the replacement.
WriteFails(p) ==
  /\ job[p].step \in {"checked", "opened", "written", "synced", "replaced"}
  /\ errors < MaxErrors /\ errors' = errors + 1
  /\ Step(p, "failed") /\ UNCHANGED <<dir, disk>>

WriteStep(p) ==
  Create(p) \/ Fill(p) \/ SyncFile(p) \/ Replace(p) \/ SyncDirectory(p) \/ WriteFails(p)

----------------------------------------------------------------------------
(* Crashes (external).                                                     *)

\* What the disk makes of a version that was not synced.
Survivor(v) == IF v.synced THEN v.data ELSE "torn"

\* The power fails under every process; each file is left with one of the versions
\* the disk had of it.
PowerLoss ==
  /\ \E left \in [Files -> UNION {disk[f] : f \in Files}] :
       /\ \A f \in Files : left[f] \in disk[f]
       /\ dir' = [f \in Files |-> Version(Survivor(left[f]), TRUE)]
  /\ disk' = [f \in Files |-> {dir'[f]}]
  /\ job' = [p \in Procs |-> NoJob]
  /\ UNCHANGED errors

----------------------------------------------------------------------------
(* The files are registers: what a reader gets, and what a power failure   *)
(* may leave.                                                              *)

Register == INSTANCE AtomicFile WITH
  Files <- Files, Data <- Data,
  value <- [f \in Files |-> dir[f].data],
  kept  <- [f \in Files |-> {Survivor(v) : v \in disk[f]}]
=============================================================================
