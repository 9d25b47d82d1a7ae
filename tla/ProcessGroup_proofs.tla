------------------------- MODULE ProcessGroup_proofs -------------------------
(***************************************************************************)
(* Proofs about ProcessGroup, for any set of descendants and any number of *)
(* interrupts.  That a call which raised left no leader running is not     *)
(* inductive: it depends on what the cleanup has done by the time it gets  *)
(* to each of its steps.  IInv says that.                                  *)
(***************************************************************************)
EXTENDS ProcessGroup, TLAPS

\* The leader is dead, or a SIGKILL was delivered to it.
Handled == ~Alive(Leader) \/ Leader \in killed

\* What the cleanup has achieved at each of its steps.
Progress ==
  /\ pc \in {"grace", "kill"} => ~Alive(Leader) \/ Leader \in termed
  /\ pc \in {"reap", "join"} => Handled
  \* The handler's cleanup after a deadline of the monitored path is the second one.
  /\ mode = "monitored" /\ cleanup = "handler" /\ exc \in Deadlines => Handled

\* An interrupt was delivered if the cleanup runs for one.
Reasons == exc = "interrupt" => interrupts > 0

\* What a turn of the heartbeat loop knows: a heartbeat that was unread when the
\* clock was read is still unread at the look, and ends the idleness there.
TurnKnows ==
  /\ pc = "look" /\ "beat" \in sampled => beat
  /\ pc = "decide" /\ "idle" \in sampled => "beat" \notin sampled

\* The caller has no exception until it leaves the wait for its cleanup.
Watched == pc \in {"wait", "look", "decide"} => exc = "none" /\ cleanup = "no"

IInv ==
  TypeOK /\ Watched /\ Progress /\ Reasons /\ LeaderStopped /\ GroupKilledTogether
  /\ TurnKnows /\ InactivityIsReal

----------------------------------------------------------------------------
\* The inductive invariant holds when the process is started.
LEMMA InitInv == Init => IInv
<1> SUFFICES ASSUME Init PROVE IInv
  OBVIOUS
<1>1. proc \in [Procs -> {"unborn", "alive", "dead"}] /\ proc[Leader] = "alive"
  BY DEF Init, Procs
<1>2. wall \in BOOLEAN /\ idle \in BOOLEAN /\ beat \in BOOLEAN
  BY Zenon DEF Init
<1>3. interrupts \in 0 .. MaxInterrupts
  BY GroupAssumption DEF Init
<1>4. TypeOK
  <2>1. sampled \subseteq Facts
    BY DEF Init
  <2>2. QED
    BY <1>1, <1>2, <1>3, <2>1, Zenon DEF Init, TypeOK, Raised, Deadlines
<1>5. Watched /\ Progress /\ Reasons /\ LeaderStopped /\ GroupKilledTogether
      /\ TurnKnows /\ InactivityIsReal
  BY DEF Init, Watched, Progress, Reasons, LeaderStopped, GroupKilledTogether, Ended, TurnKnows,
         InactivityIsReal
<1>6. QED
  BY <1>4, <1>5 DEF IInv

\* Every step keeps the types; SIGKILL comes after SIGTERM because of Progress.
LEMMA TypeStep ==
  ASSUME IInv, [Next]_vars
  PROVE  TypeOK'
<1> USE GroupAssumption
    DEF IInv, TypeOK, Procs, Raised, Deadlines, world, watch, caller
<1>1. ASSUME NEW p \in Procs, Fork(p) \/ Exit(p)
      PROVE  TypeOK'
  BY <1>1 DEF Fork, Exit, Alive
<1>2. ASSUME Beat \/ WallPasses \/ IdlePasses \/ ReaderEnds \/ ReaderEnds
      PROVE  TypeOK'
  <2>1. /\ UNCHANGED <<mode, stubborn, holders, proc, termed, killed, sampled, caller,
                       interrupts>>
        /\ wall' \in BOOLEAN /\ idle' \in BOOLEAN /\ beat' \in BOOLEAN
        /\ reader' \in {"reading", "done", "failed"}
    BY <1>2 DEF Beat, WallPasses, IdlePasses, ReaderEnds, ReaderEnds
  <2>2. QED
    BY <2>1
<1>3. ASSUME \/ Completed \/ ReaderFailed \/ SimpleTimeout \/ SimpleReadFails
             \/ CallbackFails \/ Interrupt
      PROVE  TypeOK'
  <2> USE DEF Completed, ReaderFailed, SimpleTimeout, SimpleReadFails, CallbackFails,
              Interrupt
  <2>1. /\ UNCHANGED <<mode, stubborn, holders, proc, termed, killed, wall, reader, sampled>>
        /\ idle' \in BOOLEAN /\ beat' \in BOOLEAN
    BY <1>3
  <2>2. pc' \in {"wait", "poll", "ended"} /\ cleanup' \in {"no", "first", "handler"}
    BY <1>3 DEF Goto, End
  <2>3. /\ exc' \in Raised \cup {"none"}
        /\ outcome' \in Raised \cup {"none", "completed"}
    BY <1>3 DEF Goto, End
  <2>4. interrupts' \in 0 .. MaxInterrupts
    BY <1>3
  <2>5. QED
    BY <2>1, <2>2, <2>3, <2>4
<1>8. ASSUME Sample \/ Look \/ Decide
      PROVE  TypeOK'
  <2> USE DEF Sample, Look, Decide
  <2>1. /\ UNCHANGED <<mode, stubborn, holders, proc, termed, killed, wall, reader, outcome,
                       interrupts>>
        /\ pc' \in {"wait", "look", "decide", "poll"}
        /\ cleanup' \in {"no", "first", "handler"}
        /\ exc' \in Raised \cup {"none"}
    BY <1>8 DEF Goto
  <2>2. idle' \in BOOLEAN /\ beat' \in BOOLEAN
    BY <1>8
  <2>3. sampled' \subseteq Facts
    BY <1>8
  <2>4. QED
    BY <2>1, <2>2, <2>3
<1>4. ASSUME AlreadyGone \/ PollAlive \/ SendTerm \/ GraceOver \/ Reap \/ Drain \/ Join
      PROVE  TypeOK'
  BY <1>4 DEF AlreadyGone, PollAlive, SendTerm, GraceOver, Reap, Drain, Join, Goto, End,
              Group
<1>5. ASSUME SendKill
      PROVE  TypeOK'
  BY <1>5 DEF SendKill, Goto, Group, Progress
<1>6. ASSUME UNCHANGED vars
      PROVE  TypeOK'
  BY <1>6 DEF vars
<1>7. QED
  BY <1>1, <1>2, <1>3, <1>4, <1>5, <1>6, <1>8 DEF Next, CallerStep

\* Once the leader is handled it stays so, whatever the processes do: it was
\* born before the call began and cannot be forked again.
LEMMA HandledStays ==
  ASSUME TypeOK, [Next]_vars
  PROVE  /\ Handled => Handled'
         /\ Leader \in termed => Leader \in termed'
         /\ ~Alive(Leader) => ~Alive(Leader)'
<1> USE DEF Handled, Alive, TypeOK, world, watch, caller
<1>1. CASE \E p \in Procs : Fork(p) \/ Exit(p)
  BY <1>1 DEF Fork, Exit, Procs
<1>2. CASE Beat \/ WallPasses \/ IdlePasses \/ ReaderEnds \/ Interrupt \/ UNCHANGED vars
  BY <1>2 DEF Beat, WallPasses, IdlePasses, ReaderEnds, Interrupt, vars
<1>3. CASE CallerStep
  BY <1>3 DEF CallerStep, Completed, ReaderFailed, SimpleTimeout,
              SimpleReadFails, Sample, Look, CallbackFails, Decide, AlreadyGone, PollAlive,
              SendTerm, GraceOver, SendKill, Reap, Drain, Join
<1>4. QED
  BY <1>1, <1>2, <1>3 DEF Next

\* The steps of the processes and of the clock leave the caller alone.
LEMMA WorldStep ==
  ASSUME IInv, [Next]_vars, UNCHANGED <<mode, caller, interrupts>>
  PROVE  LeaderStopped' /\ Progress'
<1>1. /\ Handled => Handled'
      /\ Leader \in termed => Leader \in termed'
      /\ ~Alive(Leader) => ~Alive(Leader)'
  BY HandledStays DEF IInv
<1>2. QED
  BY <1>1 DEF IInv, LeaderStopped, Progress, Handled, Ended, caller

\* Every step keeps what the cleanup has achieved at each of its steps.
LEMMA ProgressStep ==
  ASSUME IInv, [Next]_vars
  PROVE  Progress'
<1>1. /\ Handled => Handled'
      /\ Leader \in termed => Leader \in termed'
      /\ ~Alive(Leader) => ~Alive(Leader)'
  BY HandledStays DEF IInv
<1> USE DEF IInv, Progress, Goto, End, world, watch, caller
<1>2. CASE \E p \in Procs : Fork(p) \/ Exit(p)
  BY <1>2, WorldStep DEF Fork, Exit
<1>3. CASE Beat \/ WallPasses \/ IdlePasses \/ ReaderEnds \/ UNCHANGED vars
  BY <1>3, WorldStep DEF Beat, WallPasses, IdlePasses, ReaderEnds, vars
<1>4. CASE Completed \/ ReaderFailed \/ SimpleTimeout \/ SimpleReadFails \/ Sample
           \/ Look \/ CallbackFails \/ Decide \/ Interrupt
  BY <1>1, <1>4 DEF Completed, ReaderFailed, SimpleTimeout, SimpleReadFails, Sample, Look,
                    CallbackFails, Decide, Interrupt, Deadlines, TypeOK
<1>5. CASE AlreadyGone \/ PollAlive \/ GraceOver \/ Reap
  BY <1>1, <1>5 DEF AlreadyGone, PollAlive, GraceOver, Reap, Handled
<1>6. CASE SendTerm
  BY <1>1, <1>6 DEF SendTerm, Group, Alive, Handled, Procs
<1>7. CASE SendKill
  BY <1>1, <1>7 DEF SendKill, Group, Alive, Handled, Procs
<1>8. CASE Drain \/ Join
  BY <1>1, <1>8 DEF Drain, Join
<1>9. QED
  BY <1>2, <1>3, <1>4, <1>5, <1>6, <1>7, <1>8 DEF Next, CallerStep

\* Every step keeps a cleanup for an interrupt with the interrupt that was delivered.
LEMMA ReasonsStep ==
  ASSUME IInv, [Next]_vars
  PROVE  Reasons'
<1> USE DEF IInv, TypeOK, Reasons, world, watch, caller
<1>1. CASE \E p \in Procs : Fork(p) \/ Exit(p)
  BY <1>1 DEF Fork, Exit
<1>2. CASE Beat \/ WallPasses \/ IdlePasses \/ ReaderEnds \/ UNCHANGED vars
  BY <1>2 DEF Beat, WallPasses, IdlePasses, ReaderEnds, vars
<1>3. CASE Interrupt
  BY <1>3, GroupAssumption DEF Interrupt
<1>4. CASE CallerStep
  BY <1>4 DEF CallerStep, Completed, ReaderFailed, SimpleTimeout,
              SimpleReadFails, Sample, Look, CallbackFails, Decide, AlreadyGone, PollAlive,
              SendTerm, GraceOver, SendKill, Reap, Drain, Join
<1>5. QED
  BY <1>1, <1>2, <1>3, <1>4 DEF Next

\* Every step keeps LeaderStopped: a call that ended badly leaves a leader that is dead
\* or killed.
LEMMA LeaderStep ==
  ASSUME IInv, [Next]_vars
  PROVE  LeaderStopped'
<1>1. Handled => Handled'
  BY HandledStays DEF IInv
<1> USE DEF IInv, LeaderStopped, Handled, Ended, Goto, End, world, watch, caller
\* The two ways in which a cleanup ends come after it signalled.
<1>2. CASE Drain \/ Join
  BY <1>1, <1>2 DEF Drain, Join, Progress
\* An interrupt ends a call only from within the handler, and then it is not what
\* the cleanup runs for, unless it is the second.
<1>3. CASE Interrupt
  <2>1. CASE cleanup # "handler"
    BY <1>3, <2>1 DEF Interrupt
  <2>2. CASE cleanup = "handler" /\ exc = "interrupt"
    <3>1. interrupts' > 1
      BY <1>3, <2>2, GroupAssumption DEF Interrupt, Reasons, TypeOK
    <3>2. QED
      BY <3>1, TypeStep DEF TypeOK
  <2>3. CASE cleanup = "handler" /\ exc # "interrupt"
    BY <1>1, <1>3, <2>3 DEF Interrupt, Progress
  <2>4. QED
    BY <2>1, <2>2, <2>3
\* A failed reader ends the monitored call for no exception the cleanup runs for.
<1>8. CASE ReaderFailed
  BY <1>8 DEF ReaderFailed, Watched, Deadlines
<1>4. CASE \/ Completed \/ SimpleTimeout \/ SimpleReadFails \/ Sample \/ Look
           \/ CallbackFails \/ Decide \/ AlreadyGone \/ PollAlive \/ SendTerm
           \/ GraceOver \/ SendKill \/ Reap
  BY <1>4 DEF Completed, SimpleTimeout, SimpleReadFails, Sample, Look, CallbackFails,
              Decide, AlreadyGone, PollAlive, SendTerm, GraceOver, SendKill, Reap
<1>5. CASE \E p \in Procs : Fork(p) \/ Exit(p)
  BY <1>5, WorldStep DEF Fork, Exit
<1>6. CASE Beat \/ WallPasses \/ IdlePasses \/ ReaderEnds \/ UNCHANGED vars
  BY <1>6, WorldStep DEF Beat, WallPasses, IdlePasses, ReaderEnds, vars
<1>7. QED
  BY <1>2, <1>3, <1>4, <1>5, <1>6, <1>8 DEF Next, CallerStep

\* After the leader was killed its group can only shrink: every process of it was
\* killed with it and starts no others.
LEMMA GroupStep ==
  ASSUME IInv, [Next]_vars
  PROVE  GroupKilledTogether'
<1> USE DEF IInv, GroupKilledTogether, Group, Alive, world, watch, caller
<1>1. ASSUME NEW p \in Procs, Fork(p) \/ Exit(p)
      PROVE  GroupKilledTogether'
  BY <1>1 DEF Fork, Exit, TypeOK
<1>2. CASE Beat \/ WallPasses \/ IdlePasses \/ ReaderEnds \/ Interrupt \/ UNCHANGED vars
  BY <1>2 DEF Beat, WallPasses, IdlePasses, ReaderEnds, Interrupt, vars
<1>3. CASE SendKill
  BY <1>3 DEF SendKill
<1>4. CASE \/ Completed \/ ReaderFailed \/ SimpleTimeout \/ SimpleReadFails \/ Sample
           \/ Look \/ CallbackFails \/ Decide \/ AlreadyGone \/ PollAlive \/ SendTerm
           \/ GraceOver \/ Reap \/ Drain \/ Join
  BY <1>4 DEF Completed, ReaderFailed, SimpleTimeout, SimpleReadFails, Sample, Look,
              CallbackFails, Decide, AlreadyGone, PollAlive, SendTerm, GraceOver, Reap,
              Drain, Join
<1>5. QED
  BY <1>1, <1>2, <1>3, <1>4 DEF Next, CallerStep

\* Every step keeps what a turn of the heartbeat loop knows, and the reason it gives.
LEMMA TurnStep ==
  ASSUME IInv, [Next]_vars
  PROVE  TurnKnows' /\ InactivityIsReal'
<1> USE DEF IInv, TypeOK, TurnKnows, InactivityIsReal, Goto, End, world, watch, caller
<1>1. CASE \E p \in Procs : Fork(p) \/ Exit(p)
  BY <1>1 DEF Fork, Exit
<1>2. CASE Beat \/ WallPasses \/ IdlePasses \/ ReaderEnds \/ Interrupt \/ UNCHANGED vars
  BY <1>2 DEF Beat, WallPasses, IdlePasses, ReaderEnds, Interrupt, vars
<1>3. CASE Sample \/ Look \/ Decide
  <2>1. exc = "inactivity" => pc \notin {"wait", "look", "decide"}
    BY DEF Watched
  <2>2. CASE Sample
    BY <2>1, <2>2 DEF Sample
  <2>3. CASE Look
    BY <2>1, <2>3 DEF Look
  <2>4. CASE Decide
    BY <2>1, <2>4 DEF Decide
  <2>5. QED
    BY <1>3, <2>2, <2>3, <2>4
<1>4. CASE \/ Completed \/ ReaderFailed \/ SimpleTimeout \/ SimpleReadFails
           \/ CallbackFails \/ AlreadyGone \/ PollAlive \/ SendTerm \/ GraceOver
           \/ SendKill \/ Reap \/ Drain \/ Join
  BY <1>4 DEF Completed, ReaderFailed, SimpleTimeout, SimpleReadFails, CallbackFails,
              AlreadyGone, PollAlive, SendTerm, GraceOver, SendKill, Reap, Drain, Join
<1>5. QED
  BY <1>1, <1>2, <1>3, <1>4 DEF Next, CallerStep

\* Every step keeps the caller without an exception while it watches.
LEMMA WatchedStep ==
  ASSUME IInv, [Next]_vars
  PROVE  Watched'
<1> USE DEF IInv, TypeOK, Watched, Goto, End, world, watch, caller
<1>1. CASE \E p \in Procs : Fork(p) \/ Exit(p)
  BY <1>1 DEF Fork, Exit
<1>2. CASE Beat \/ WallPasses \/ IdlePasses \/ ReaderEnds \/ Interrupt \/ UNCHANGED vars
  BY <1>2 DEF Beat, WallPasses, IdlePasses, ReaderEnds, Interrupt, vars
<1>3. CASE CallerStep
  BY <1>3 DEF CallerStep, Completed, ReaderFailed, SimpleTimeout,
              SimpleReadFails, Sample, Look, CallbackFails, Decide, AlreadyGone, PollAlive,
              SendTerm, GraceOver, SendKill, Reap, Drain, Join
<1>4. QED
  BY <1>1, <1>2, <1>3 DEF Next

\* Every step keeps the inductive invariant.
LEMMA InvStep == IInv /\ [Next]_vars => IInv'
  BY TypeStep, ProgressStep, ReasonsStep, LeaderStep, GroupStep, TurnStep, WatchedStep
     DEF IInv

----------------------------------------------------------------------------
\* The invariant holds of every reachable state.
THEOREM Invariance == Spec => []IInv
  BY InitInv, InvStep, PTL DEF Spec

\* All variables of a call keep their types, and no leader is sent SIGKILL that
\* was not sent SIGTERM first.
THEOREM TypeCorrect == Spec => []TypeOK
<1>1. IInv => TypeOK
  BY DEF IInv
<1>2. QED
  BY <1>1, Invariance, PTL

\* Whichever deadline struck, and with any one interrupt, a call that raised has
\* left its leader dead or killed.
THEOREM LeaderIsStopped == Spec => []LeaderStopped
<1>1. IInv => LeaderStopped
  BY DEF IInv
<1>2. QED
  BY <1>1, Invariance, PTL

\* A SIGKILL that reaches the leader reaches every process of its group, and none
\* is started afterwards.
THEOREM GroupIsKilledTogether == Spec => []GroupKilledTogether
<1>1. IInv => GroupKilledTogether
  BY DEF IInv
<1>2. QED
  BY <1>1, Invariance, PTL

\* No call ends for inactivity when a heartbeat was unread, or the total deadline
\* passed, at the moment the loop read its clock.
THEOREM InactivityIsEarned == Spec => []InactivityIsReal
<1>1. IInv => InactivityIsReal
  BY DEF IInv
<1>2. QED
  BY <1>1, Invariance, PTL
=============================================================================
