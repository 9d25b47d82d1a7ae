---------------------------- MODULE ProcessGroup ----------------------------
(***************************************************************************)
(* run_process_group and terminate_process_group (harness/processes.py):   *)
(* a child in a session of its own, its descendants, the pipe they share,  *)
(* two deadlines, and the interrupts that may reach the caller between any *)
(* two of its steps.                                                       *)
(*                                                                         *)
(* "simple" is the path without liveness monitoring (communicate with a    *)
(* timeout); "monitored" is the heartbeat loop beside a reader thread.     *)
(* Time is abstract: a deadline has passed or it has not.  The heartbeat   *)
(* paths are taken as one.                                                 *)
(***************************************************************************)
EXTENDS Naturals, FiniteSets

CONSTANTS
  Leader,         \* the child, whose pid names the process group
  Descendants,    \* the processes it may fork, in the same group
  MaxInterrupts   \* bound: KeyboardInterrupts delivered to the caller

ASSUME GroupAssumption == Leader \notin Descendants /\ MaxInterrupts \in Nat

Procs == {Leader} \cup Descendants

VARIABLES
  mode,        \* "simple" or "monitored"
  stubborn,    \* the processes that ignore SIGTERM
  holders,     \* the processes that keep the stdout pipe open while they live
  proc,        \* "unborn", "alive" or "dead"
  termed,      \* the processes a SIGTERM was delivered to
  killed,      \* the processes a SIGKILL was delivered to
  wall,        \* the total deadline has passed
  idle,        \* the inactivity deadline has passed since the last activity
  beat,        \* a heartbeat path changed since it was last looked at
  reader,      \* the thread that communicates: "reading", "done" or "failed"
  sampled,     \* what the turn of the heartbeat loop found when it read the clock
  pc,          \* where the caller is
  cleanup,     \* terminate_process_group runs in: "no", "first", "handler"
  exc,         \* the exception the cleanup runs for
  outcome,     \* how the call ended
  interrupts   \* interrupts delivered so far

world == <<mode, stubborn, holders, proc, termed, killed>>
watch == <<wall, idle, beat, reader>>
caller == <<pc, cleanup, exc, outcome>>
vars == <<world, watch, sampled, caller, interrupts>>

Alive(p) == proc[p] = "alive"
Group == {p \in Procs : Alive(p)}

\* The pipe is at its end; then communicate() waits for the child and reaps it.
PipeAtEnd == \A p \in holders : ~Alive(p)
PipeDrained == PipeAtEnd /\ ~Alive(Leader)

Ended == pc = "ended"

\* The heartbeat loop runs.  What happens later to the heartbeats, to the
\* inactivity deadline and to the reader thread changes nothing, and is left out.
Watching == mode = "monitored" /\ pc \in {"wait", "look", "decide"}
Deadlines == {"total_wall", "inactivity"}

\* The deadlines that have passed and whether a heartbeat is unread; nothing is
\* known of them outside a turn of the loop.
Facts == {"wall", "idle", "beat"}

Init ==
  /\ mode \in {"simple", "monitored"}
  /\ stubborn \in SUBSET Procs /\ holders \in SUBSET Procs
  /\ proc = [p \in Procs |-> IF p = Leader THEN "alive" ELSE "unborn"]
  /\ termed = {} /\ killed = {}
  /\ wall = FALSE /\ idle = FALSE /\ beat = FALSE /\ reader = "reading"
  /\ sampled = {}
  /\ pc = "wait" /\ cleanup = "no" /\ exc = "none" /\ outcome = "none"
  /\ interrupts = 0

----------------------------------------------------------------------------
(* The processes, the clock and the reader thread.                         *)

Fork(p) ==
  /\ Group \ killed # {} /\ proc[p] = "unborn"
  /\ proc' = [proc EXCEPT ![p] = "alive"]
  /\ UNCHANGED <<mode, stubborn, holders, termed, killed, watch, sampled, caller, interrupts>>

\* A process ends by itself or of a signal; SIGTERM and SIGKILL are not told apart.
Exit(p) ==
  /\ Alive(p)
  /\ proc' = [proc EXCEPT ![p] = "dead"]
  /\ UNCHANGED <<mode, stubborn, holders, termed, killed, watch, sampled, caller, interrupts>>

Beat ==
  /\ Watching /\ Group # {} /\ ~beat
  /\ beat' = TRUE
  /\ UNCHANGED <<world, wall, idle, reader, sampled, caller, interrupts>>

WallPasses ==
  /\ ~wall /\ wall' = TRUE
  /\ UNCHANGED <<world, idle, beat, reader, sampled, caller, interrupts>>

IdlePasses ==
  /\ Watching /\ ~idle /\ idle' = TRUE
  /\ UNCHANGED <<world, wall, beat, reader, sampled, caller, interrupts>>

\* The reader thread ends: with the output, or of an exception, such as output
\* that is not UTF-8, which is raised before it has waited for the child.
ReaderEnds ==
  /\ Watching /\ reader = "reading"
  /\ \/ PipeDrained /\ reader' = "done"
     \/ PipeAtEnd /\ reader' = "failed"
  /\ UNCHANGED <<world, wall, idle, beat, sampled, caller, interrupts>>

----------------------------------------------------------------------------
(* run_process_group.                                                      *)

Goto(l) == pc' = l
End(how) == Goto("ended") /\ outcome' = how

\* communicate returned, or the reader thread is found to have ended well.
Completed ==
  /\ pc = "wait"
  /\ \/ mode = "simple" /\ PipeDrained
     \/ mode = "monitored" /\ reader = "done"
  /\ End("completed")
  /\ UNCHANGED <<world, watch, sampled, cleanup, exc, interrupts>>

\* The reader thread ended of an exception, which is raised after the loop: the
\* child is not looked at, let alone terminated.
ReaderFailed ==
  /\ mode = "monitored" /\ pc = "wait" /\ reader = "failed"
  /\ End("reader")
  /\ UNCHANGED <<world, watch, sampled, cleanup, exc, interrupts>>

\* communicate(timeout) raised TimeoutExpired.
SimpleTimeout ==
  /\ mode = "simple" /\ pc = "wait" /\ wall /\ ~PipeDrained
  /\ Goto("poll") /\ cleanup' = "handler" /\ exc' = "total_wall"
  /\ UNCHANGED <<world, watch, sampled, outcome, interrupts>>

\* communicate raised something else: the output cannot be decoded.
SimpleReadFails ==
  /\ mode = "simple" /\ pc = "wait" /\ PipeAtEnd
  /\ Goto("poll") /\ cleanup' = "handler" /\ exc' = "reader"
  /\ UNCHANGED <<world, watch, sampled, outcome, interrupts>>

\* A turn of the heartbeat loop starts: the reader lives, and the clock is read.
Sample ==
  /\ mode = "monitored" /\ pc = "wait" /\ reader = "reading"
  /\ sampled' = {f \in Facts : \/ f = "wall" /\ wall
                               \/ f = "idle" /\ idle
                               \/ f = "beat" /\ beat}
  /\ Goto("look")
  /\ UNCHANGED <<world, watch, cleanup, exc, outcome, interrupts>>

\* The heartbeat paths are looked at: a change counts as activity at the time
\* that was read.
Look ==
  /\ pc = "look" /\ Goto("decide")
  /\ beat' = FALSE /\ idle' = (idle /\ ~beat)
  /\ sampled' = IF beat THEN sampled \ {"idle"} ELSE sampled
  /\ UNCHANGED <<world, wall, reader, cleanup, exc, outcome, interrupts>>

\* A heartbeat callback that cannot write heartbeat.json raises inside the loop.
CallbackFails ==
  /\ pc = "look" /\ beat
  /\ beat' = FALSE /\ idle' = FALSE
  /\ Goto("poll") /\ cleanup' = "handler" /\ exc' = "callback"
  /\ UNCHANGED <<world, wall, reader, sampled, outcome, interrupts>>

\* Of the deadlines that had passed when the clock was read, the total one comes
\* first; with none, wait for the reader and loop.
Decide ==
  /\ pc = "decide"
  /\ IF "wall" \in sampled \/ "idle" \in sampled
     THEN /\ Goto("poll") /\ cleanup' = "first"
          /\ exc' = IF "wall" \in sampled THEN "total_wall" ELSE "inactivity"
          /\ UNCHANGED sampled
     ELSE /\ Goto("wait") /\ sampled' = {}
          /\ UNCHANGED <<cleanup, exc>>
  /\ UNCHANGED <<world, watch, outcome, interrupts>>

\* Variant: an interrupt is not caught while a deadline is being handled.
InterruptEscapes ==
  /\ ~Ended /\ interrupts < MaxInterrupts
  /\ interrupts' = interrupts + 1
  /\ \/ /\ cleanup # "no"
        /\ End("interrupt") /\ UNCHANGED <<cleanup, exc>>
     \/ /\ cleanup = "no"
        /\ Goto("poll") /\ cleanup' = "handler" /\ exc' = "interrupt"
        /\ UNCHANGED outcome
  /\ UNCHANGED <<world, watch, sampled>>

\* KeyboardInterrupt reaches the caller.  Whatever runs inside the try is caught
\* once; an interrupt of the handler itself leaves it where it is.
Interrupt ==
  /\ ~Ended /\ interrupts < MaxInterrupts
  /\ interrupts' = interrupts + 1
  /\ \/ /\ cleanup = "handler"
        /\ End("interrupt") /\ UNCHANGED <<cleanup, exc>>
     \/ /\ cleanup # "handler"
        /\ Goto("poll") /\ cleanup' = "handler" /\ exc' = "interrupt"
        /\ UNCHANGED outcome
  /\ UNCHANGED <<world, watch, sampled>>

----------------------------------------------------------------------------
(* terminate_process_group, from its first poll to its return.             *)

\* poll() found the leader reaped: nothing is signalled.
AlreadyGone ==
  /\ pc = "poll" /\ ~Alive(Leader) /\ Goto("join")
  /\ UNCHANGED <<world, watch, sampled, cleanup, exc, outcome, interrupts>>

PollAlive ==
  /\ pc = "poll" /\ Alive(Leader) /\ Goto("term")
  /\ UNCHANGED <<world, watch, sampled, cleanup, exc, outcome, interrupts>>

\* Variant: the group is killed at once, before any SIGTERM.
SendTermAsKill ==
  /\ pc = "term"
  /\ killed' = killed \cup Group /\ UNCHANGED termed
  /\ Goto(IF Group = {} THEN "join" ELSE "grace")
  /\ UNCHANGED <<mode, stubborn, holders, proc, watch, sampled, cleanup, exc,
                 outcome, interrupts>>

\* killpg(SIGTERM); with no process left in the group it raises and returns.
SendTerm ==
  /\ pc = "term"
  /\ termed' = termed \cup Group
  /\ Goto(IF Group = {} THEN "join" ELSE "grace")
  /\ UNCHANGED <<mode, stubborn, holders, proc, killed, watch, sampled, cleanup, exc,
                 outcome, interrupts>>

\* The grace loop ends when the leader is gone, or when its time is over.
GraceOver ==
  /\ pc = "grace" /\ Goto("kill")
  /\ UNCHANGED <<world, watch, sampled, cleanup, exc, outcome, interrupts>>

\* killpg(SIGKILL), only when the leader is still there.
SendKill ==
  /\ pc = "kill" /\ Goto("reap")
  /\ killed' = IF Alive(Leader) THEN killed \cup Group ELSE killed
  /\ UNCHANGED <<mode, stubborn, holders, proc, termed, watch, sampled, cleanup, exc,
                 outcome, interrupts>>

\* wait(timeout) returned or gave up.
Reap ==
  /\ pc = "reap" /\ Goto("join")
  /\ UNCHANGED <<world, watch, sampled, cleanup, exc, outcome, interrupts>>

\* The simple path reads the pipe to its end, with no timeout, and raises: the
\* exception it is in, or that of the reading.
Drain ==
  /\ mode = "simple" /\ pc = "join" /\ PipeDrained
  /\ End(exc) \/ End("reader")
  /\ UNCHANGED <<world, watch, sampled, cleanup, exc, interrupts>>

\* Variant: the reader is joined with no timeout.
JoinForever ==
  /\ mode = "monitored" /\ pc = "join" /\ PipeDrained
  /\ IF cleanup = "first"
     THEN Goto("poll") /\ cleanup' = "handler" /\ UNCHANGED outcome
     ELSE End(exc) /\ UNCHANGED cleanup
  /\ UNCHANGED <<world, watch, sampled, exc, interrupts>>

\* The monitored path joins the reader for a bounded time and raises; raised
\* inside the loop, the exception is caught once and the cleanup repeated.
Join ==
  /\ mode = "monitored" /\ pc = "join"
  /\ IF cleanup = "first"
     THEN Goto("poll") /\ cleanup' = "handler" /\ UNCHANGED outcome
     ELSE End(exc) /\ UNCHANGED cleanup
  /\ UNCHANGED <<world, watch, sampled, exc, interrupts>>

----------------------------------------------------------------------------
CallerStep ==
  \/ Completed \/ ReaderFailed \/ SimpleTimeout \/ SimpleReadFails
  \/ Sample \/ Look \/ CallbackFails \/ Decide
  \/ AlreadyGone \/ PollAlive \/ SendTerm \/ GraceOver \/ SendKill \/ Reap
  \/ Drain \/ Join

Next ==
  \/ \E p \in Procs : Fork(p) \/ Exit(p)
  \/ Beat \/ WallPasses \/ IdlePasses \/ ReaderEnds \/ CallerStep \/ Interrupt

Spec == Init /\ [][Next]_vars

\* A killed process dies, and so does one that does not ignore its SIGTERM.
Doomed(p) == p \in killed \/ (p \in termed /\ p \notin stubborn)
Fairness ==
  /\ WF_vars(CallerStep) /\ WF_vars(WallPasses)
  /\ \A p \in Procs : WF_vars(Doomed(p) /\ Exit(p))

FairSpec == Spec /\ Fairness

----------------------------------------------------------------------------
(* What must hold.                                                         *)

Raised == Deadlines \cup {"callback", "interrupt", "reader"}

\* The caller, the processes and the signals keep their shapes.
TypeOK ==
  /\ mode \in {"simple", "monitored"}
  /\ stubborn \subseteq Procs /\ holders \subseteq Procs
  /\ proc \in [Procs -> {"unborn", "alive", "dead"}] /\ proc[Leader] # "unborn"
  /\ termed \subseteq Procs /\ killed \subseteq Procs
  /\ Leader \in killed => Leader \in termed
  /\ wall \in BOOLEAN /\ idle \in BOOLEAN /\ beat \in BOOLEAN
  /\ reader \in {"reading", "done", "failed"}
  /\ sampled \subseteq Facts
  /\ pc \in {"wait", "look", "decide", "poll", "term", "grace", "kill", "reap", "join",
             "ended"}
  /\ cleanup \in {"no", "first", "handler"}
  /\ exc \in Raised \cup {"none"} /\ outcome \in Raised \cup {"none", "completed"}
  /\ interrupts \in 0 .. MaxInterrupts

\* A call that ended with an exception leaves no child running: the leader is
\* dead or was sent SIGKILL, whenever the deadline struck, the reading failed or
\* the one interrupt came.  Excluded are an interrupt of the handler before it has
\* done anything (which cannot follow a deadline of the monitored path from one
\* interrupt, since that path terminates the group twice), and the failure of the
\* monitored path's reader thread: that exception is raised without any cleanup,
\* and a leader that closed its output may live on.
LeaderStopped ==
  /\ Ended /\ outcome # "completed" /\ interrupts <= 1
  /\ \/ outcome = exc
     \/ mode = "simple" /\ outcome = "reader"
     \/ mode = "monitored" /\ exc \in Deadlines
  => ~Alive(Leader) \/ Leader \in killed

\* When the leader has to be killed, nothing it started outlives it.
GroupKilledTogether == Leader \in killed => Group \subseteq killed

\* Inactivity is reported only when the total deadline had not passed and no
\* heartbeat was unread at the moment the loop read its clock, although the
\* heartbeats are looked at and the decision is taken later.
InactivityIsReal == exc = "inactivity" => sampled \cap {"wall", "beat"} = {}

\* With monitoring, a call ends after its total deadline, whatever processes
\* keep the pipe open and whatever signals they ignore.
BoundedWhenMonitored == (mode = "monitored" /\ wall) ~> Ended

\* "Bounded TERM/KILL cleanup for a process and all descendants": after a call
\* that timed out, every process of the group is dead or was sent SIGKILL.  When
\* the leader has exited by the first poll, no process of the group is signalled.
DescendantsStopped == Ended /\ outcome \in Deadlines => Group \subseteq killed
=============================================================================
