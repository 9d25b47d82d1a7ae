---------------------------- MODULE UpstreamSetup ----------------------------
(***************************************************************************)
(* Pinned checkouts and Spark's Python packages (harness/upstreams.py:     *)
(* ensure_checkouts, validate_checkout, ensure_spark_runtime_dependencies),*)
(* as several commands on one machine set them up.  They share one .state  *)
(* directory and no lock.                                                  *)
(*                                                                         *)
(* A checkout directory is absent, broken (it exists, but would not be     *)
(* accepted: git still clones or selects, or was killed meanwhile) or at   *)
(* the commit it holds.  pip --target replaces one item of the directory   *)
(* after the other, and each is missing for a moment.  A package and its   *)
(* metadata (pkg/ and pkg-1.0.dist-info/) are two items, and what the      *)
(* command asks about is the metadata.                                     *)
(***************************************************************************)
EXTENDS Naturals, Sequences

CONSTANTS
  Callers,      \* invocations of ensure_checkouts
  Paths,        \* the directories under .state/upstreams
  Commits,      \* what they may hold
  Locks,        \* the locks a caller may read, each its entries in their order
  Items,        \* number of items pip installs, in the order in which it moves them
  Infos,        \* those that are the metadata of a package
  MaxTroubles   \* bound: commands that fail, time out or are interrupted

Absent == "absent"
Broken == "broken"

ASSUME SetupAssumption ==
  /\ Locks \in [Callers -> SUBSET Seq([path : Paths, commit : Commits])]
  /\ Absent \notin Commits /\ Broken \notin Commits
  /\ Items \in Nat /\ Infos \subseteq 1 .. Items /\ Infos # {} /\ MaxTroubles \in Nat

VARIABLES
  dir,       \* the checkout directories
  deps,      \* the items that are installed, at their pinned version
  caller,    \* where each caller is, its lock, the entry or item i, and whether it may
             \* install
  troubles,  \* commands that went wrong so far
  overlap,   \* two callers were at it at the same time
  hollow     \* a pip came to an early end with all the metadata in place, but not all items

setupVars == <<dir, deps, caller, troubles, overlap, hollow>>
world == <<dir, deps>>

\* "refused" and "failed" are UpstreamErrors: what was found is not what the lock says,
\* or a command came back with an error.
Ended == {"ready", "refused", "failed", "raised", "cut"}
Inside(c) == caller[c].at \notin {"idle"} \cup Ended
Lock(c) == caller[c].lock
Entry(c) == Lock(c)[caller[c].i]

SetupInit ==
  /\ dir = [p \in Paths |-> Absent] /\ deps = {}
  /\ caller = [c \in Callers |-> [at |-> "idle", lock |-> <<>>, i |-> 1, setup |-> FALSE]]
  /\ troubles = 0 /\ overlap = FALSE /\ hollow = FALSE

----------------------------------------------------------------------------
(* ensure_checkouts.                                                       *)

CallerAt(c, l) == caller[c].at = l
\* The caller goes on with entry or item n at l.
Move(c, l, n) == caller' = [caller EXCEPT ![c].at = l, ![c].i = n]
Here(c) == caller[c].i
Quiet == UNCHANGED <<troubles, overlap, hollow>>

Begin(c) ==
  /\ CallerAt(c, "idle")
  /\ \E l \in Locks[c], s \in BOOLEAN :
       caller' = [caller EXCEPT ![c] = [at |-> "look", lock |-> l, i |-> 1, setup |-> s]]
  /\ overlap' = (overlap \/ \E o \in Callers : Inside(o))
  /\ UNCHANGED <<world, troubles, hollow>>

\* Variant: the pinned commit is selected in a directory that is already there, too.
LookSelects(c) ==
  /\ CallerAt(c, "look") /\ Here(c) <= Len(Lock(c))
  /\ \/ dir[Entry(c).path] # Absent /\ Move(c, "select", Here(c))
     \/ dir[Entry(c).path] = Absent
        /\ Move(c, IF caller[c].setup THEN "clone" ELSE "refused", Here(c))
  /\ UNCHANGED world /\ Quiet

\* A directory that exists, whatever it holds, is left alone.
Look(c) ==
  /\ CallerAt(c, "look") /\ Here(c) <= Len(Lock(c))
  /\ \/ dir[Entry(c).path] # Absent /\ Move(c, "look", Here(c) + 1)
     \/ dir[Entry(c).path] = Absent
        /\ Move(c, IF caller[c].setup THEN "clone" ELSE "refused", Here(c))
  /\ UNCHANGED world /\ Quiet

Looked(c) ==
  /\ CallerAt(c, "look") /\ Here(c) > Len(Lock(c)) /\ Move(c, "validate", 1)
  /\ UNCHANGED world /\ Quiet

\* git refuses to clone into a directory that appeared meanwhile.
Clone(c) ==
  /\ CallerAt(c, "clone")
  /\ IF dir[Entry(c).path] = Absent
     THEN dir' = [dir EXCEPT ![Entry(c).path] = Broken] /\ Move(c, "cloning", Here(c))
     ELSE UNCHANGED dir /\ Move(c, "failed", Here(c))
  /\ UNCHANGED deps /\ Quiet

Cloned(c) ==
  /\ CallerAt(c, "cloning") /\ Move(c, "select", Here(c))
  /\ UNCHANGED world /\ Quiet

Select(c) ==
  /\ CallerAt(c, "select")
  /\ dir' = [dir EXCEPT ![Entry(c).path] = Entry(c).commit]
  /\ Move(c, "look", Here(c) + 1)
  /\ UNCHANGED deps /\ Quiet

\* HEAD moves last when git selects a commit, so the three questions put to git are
\* answered as one; the license is the commit's.
Validate(c) ==
  /\ CallerAt(c, "validate") /\ Here(c) <= Len(Lock(c))
  /\ IF dir[Entry(c).path] = Entry(c).commit
     THEN Move(c, "validate", Here(c) + 1) ELSE Move(c, "refused", Here(c))
  /\ UNCHANGED world /\ Quiet

----------------------------------------------------------------------------
(* ensure_spark_runtime_dependencies.                                      *)

Complete == deps = 1 .. Items
\* _installed_distributions reads the metadata, and nothing else of a package.
Accepted == Infos \subseteq deps

\* Variant: pip runs whatever is installed.
ReadDependenciesAlways(c) ==
  /\ CallerAt(c, "validate") /\ Here(c) > Len(Lock(c))
  /\ Move(c, IF caller[c].setup THEN "pip" ELSE IF Accepted THEN "browser" ELSE "refused", 1)
  /\ UNCHANGED world /\ Quiet

ReadDependencies(c) ==
  /\ CallerAt(c, "validate") /\ Here(c) > Len(Lock(c))
  /\ Move(c, IF Accepted THEN "browser" ELSE IF caller[c].setup THEN "pip" ELSE "refused", 1)
  /\ UNCHANGED world /\ Quiet

\* pip --upgrade --target removes what is there and moves the new item in.  An item that is
\* partly removed or copied is not in place; metadata is as long as it can be read.
PipRemoves(c) ==
  /\ CallerAt(c, "pip") /\ Here(c) <= Items
  /\ deps' = deps \ {Here(c)} /\ Move(c, "moving", Here(c))
  /\ UNCHANGED dir /\ Quiet

PipMoves(c) ==
  /\ CallerAt(c, "moving")
  /\ deps' = deps \cup {Here(c)} /\ Move(c, "pip", Here(c) + 1)
  /\ UNCHANGED dir /\ Quiet

\* Variant: what was read before pip ran is compared with the pins.
RereadStale(c) ==
  /\ CallerAt(c, "pip") /\ Here(c) > Items /\ Move(c, "refused", 1)
  /\ UNCHANGED world /\ Quiet

Reread(c) ==
  /\ CallerAt(c, "pip") /\ Here(c) > Items
  /\ Move(c, IF Accepted THEN "browser" ELSE "refused", 1)
  /\ UNCHANGED world /\ Quiet

FindBrowser(c) ==
  /\ CallerAt(c, "browser") /\ Move(c, "ready", 1)
  /\ UNCHANGED world /\ Quiet

----------------------------------------------------------------------------
(* Commands that go wrong.                                                 *)

AtCommand(c) == caller[c].at \in {"cloning", "select", "validate", "pip", "moving", "browser"}
Trouble == troubles < MaxTroubles /\ troubles' = troubles + 1 /\ UNCHANGED <<deps, overlap>>
\* What is left of a pip that comes to an early end may look complete.
LeavesOff(c) ==
  hollow' = (hollow \/ (caller[c].at \in {"pip", "moving"} /\ Accepted /\ ~Complete))

\* A git that fails to clone removes what it created; nobody else does.
CommandFails(c) ==
  /\ AtCommand(c) /\ Move(c, "failed", 1) /\ Trouble /\ LeavesOff(c)
  /\ dir' = IF CallerAt(c, "cloning") THEN [dir EXCEPT ![Entry(c).path] = Absent] ELSE dir

\* subprocess.run kills a command at its timeout, and nothing here catches
\* TimeoutExpired.  What the command left stays.
CommandTimesOut(c) ==
  /\ AtCommand(c) /\ Move(c, "raised", 1) /\ Trouble /\ LeavesOff(c)
  /\ UNCHANGED dir

\* KeyboardInterrupt; git may find the time to remove its clone.
Cut(c) ==
  /\ Inside(c) /\ Move(c, "cut", 1) /\ LeavesOff(c)
  /\ \/ UNCHANGED dir
     \/ CallerAt(c, "cloning") /\ dir' = [dir EXCEPT ![Entry(c).path] = Absent]
  /\ UNCHANGED <<deps, overlap>>

CommandStep(c) ==
  \/ Begin(c) \/ Look(c) \/ Looked(c) \/ Clone(c) \/ Cloned(c) \/ Select(c) \/ Validate(c)
  \/ ReadDependencies(c) \/ PipRemoves(c) \/ PipMoves(c) \/ Reread(c) \/ FindBrowser(c)
  \/ CommandFails(c) \/ CommandTimesOut(c)

----------------------------------------------------------------------------
(* What must hold.                                                         *)

Stations == Ended \cup {"idle", "look", "clone", "cloning", "select", "validate", "pip",
                        "moving", "browser"}
Entries == [path : Paths, commit : Commits]
CallerStates == [at : Stations, lock : Seq(Entries), i : Nat \ {0}, setup : BOOLEAN]

\* Directories, items and callers keep their shapes.
SetupTypeOK ==
  /\ dir \in [Paths -> Commits \cup {Absent, Broken}] /\ deps \subseteq 1 .. Items
  /\ caller \in [Callers -> CallerStates]
  /\ troubles \in Nat /\ overlap \in BOOLEAN /\ hollow \in BOOLEAN

\* Bootstrap "is idempotent" (README.md:99-104): a setup that may install and that no
\* other one overlapped is refused only for a directory that is already there and not at
\* its commit, as a clone that was killed leaves it.  Earlier pips are no cause, whatever
\* became of them: metadata that is missing is installed, a package that is missing goes
\* unnoticed.
RefusalHasACause ==
  \A c \in Callers : CallerAt(c, "refused") /\ caller[c].setup /\ ~overlap =>
    \E i \in 1 .. Len(Lock(c)) : dir[Lock(c)[i].path] \notin {Absent, Lock(c)[i].commit}
=============================================================================
