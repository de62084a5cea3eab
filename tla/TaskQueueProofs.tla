--------------------------- MODULE TaskQueueProofs ---------------------------
(***************************************************************************)
(* What holds of the development queue for any number of jobs, checkpoints *)
(* and concurrent calls of the script.                                     *)
(***************************************************************************)
EXTENDS TaskQueue, TLAPS

USE TaskQueueAssumption

-----------------------------------------------------------------------------
(* What the two programs hold between a first statement and a second.      *)

\* A call of the script names a job, and a stage, when its verb takes one.
LEMMA CallTyped ==
    ASSUME ProcessesTyped, NEW s \in Sessions
    PROVE  /\ call[s].verb \in {"advance", "finish", "abandon"} => call[s].task \in TaskId
           /\ call[s].verb = "advance" => call[s].stage \in Stages
BY DEF ProcessesTyped, Calls

\* A tool of EMMA's holds the job to drop, or the questions it read.
LEMMA EmmaTyped ==
    ASSUME ProcessesTyped
    PROVE  /\ emma.doing = "abandon_development" => emma.task \in TaskId
           /\ emma.doing = "work_status" => emma.saw \in [TaskId -> Notes]
BY DEF ProcessesTyped, EmmaStates

\* Going idle is always well formed.
LEMMA IdleTyped == EmmaIdle \in EmmaStates /\ NoCall \in Calls
BY DEF EmmaIdle, EmmaStates, NoCall, Calls

-----------------------------------------------------------------------------
(* Each statement on its own leaves the table well formed.                 *)

\* create(): the new row is within the table.
LEMMA InsertTyped == ASSUME RowsTyped, InsertRow PROVE RowsTyped'
BY DEF RowsTyped, InsertRow, TaskId, Statuses

\* record_answer(): whatever question the words are about.
LEMMA AnswerTyped ==
    ASSUME RowsTyped, NEW t \in TaskId, NEW w \in Notes, AnswerRow(t, w)
    PROVE  RowsTyped'
BY DEF RowsTyped, AnswerRow, Statuses, Answers

\* advance(): the note is a question, the stage one the script accepts.
LEMMA AdvanceTyped ==
    ASSUME RowsTyped, ObservationsTyped, NEW t \in TaskId, NEW st \in Stages,
           AdvanceRow(t, st)
    PROVE  /\ RowsTyped'
           /\ asked[t] + 1 \in Questions
<1>1. asked[t] + 1 \in Questions
    BY DEF ObservationsTyped, AdvanceRow, Questions
<1>2. asked[t] + 1 \in Notes
    BY <1>1 DEF Questions, Notes, NoNote, ClosingNote
<1> QED
    BY <1>1, <1>2 DEF RowsTyped, AdvanceRow, Statuses, Answers

\* finish().
LEMMA FinishTyped == ASSUME RowsTyped, NEW t \in TaskId, FinishRow(t) PROVE RowsTyped'
<1>1. ClosingNote \in Notes
    BY DEF Notes, NoNote, ClosingNote
<1> QED
    BY <1>1 DEF RowsTyped, FinishRow, Statuses

\* abandon(), from either side.
LEMMA AbandonTyped == ASSUME RowsTyped, NEW t \in TaskId, AbandonRow(t) PROVE RowsTyped'
<1>1. ClosingNote \in Notes
    BY DEF Notes, NoNote, ClosingNote
<1> QED
    BY <1>1 DEF RowsTyped, AbandonRow, Statuses

\* What a developer's write does besides: the call ends ...
LEMMA WroteTyped ==
    ASSUME ProcessesTyped, NEW s \in Sessions, Wrote(s)
    PROVE  call' \in [Sessions -> Calls] /\ workAge' \in Ages
<1>1. call' \in [Sessions -> Calls]
    BY IdleTyped DEF ProcessesTyped, Wrote
<1>2. workAge' \in Ages
    BY DEF Wrote, Ages, Never
<1> QED
    BY <1>1, <1>2

\* ... and the listing of the job is spent.
LEMMA ActedOnTyped ==
    ASSUME ProcessesTyped, NEW t \in TaskId, ActedOn(t)
    PROVE  /\ listed' \in SUBSET [task : TaskId, answer : Answers]
           /\ offList' \in SUBSET TaskId
BY DEF ProcessesTyped, ActedOn

-----------------------------------------------------------------------------
\* Every tool and every verb leaves the queue well formed.
LEMMA TypeInductive == TypeOK /\ [Next]_vars => TypeOK'
<1> SUFFICES ASSUME TypeOK, [Next]_vars PROVE TypeOK'
    OBVIOUS
<1>0. RowsTyped /\ ProcessesTyped /\ ObservationsTyped
    BY DEF TypeOK
<1> USE DEF TypeOK
<1>1. ASSUME RequestDevelopment PROVE TypeOK'
  <2>1. RowsTyped'
      BY <1>0, <1>1, InsertTyped DEF RequestDevelopment
  <2>2. ProcessesTyped'
      BY <1>0, <1>1 DEF RequestDevelopment, ProcessesTyped, lists
  <2>3. ObservationsTyped'
      BY <1>0, <1>1 DEF RequestDevelopment, ObservationsTyped, seen
  <2> QED BY <2>1, <2>2, <2>3
<1>2. ASSUME WorkStatusRead PROVE TypeOK'
  <2>1. RowsTyped'
      BY <1>0, <1>2 DEF WorkStatusRead, RowsTyped, rows
  <2>2. ProcessesTyped'
    <3> DEFINE saw == [t \in TaskId |->
                         IF status[t] = "waiting_user" THEN note[t] ELSE NoNote]
    <3>1. emma' = [doing |-> "work_status", saw |-> saw]
        BY <1>2 DEF WorkStatusRead
    <3>2. NoNote \in Notes
        BY DEF NoNote, Notes, ClosingNote
    <3>3. saw \in [TaskId -> Notes]
        BY <1>0, <3>2 DEF RowsTyped
    <3> HIDE DEF saw
    <3>4. emma' \in EmmaStates
        BY <3>1, <3>3 DEF EmmaStates
    <3> QED BY <1>0, <1>2, <3>4 DEF ProcessesTyped, WorkStatusRead, lists
  <2>3. ObservationsTyped'
      BY <1>0, <1>2 DEF WorkStatusRead, ObservationsTyped, seen
  <2> QED BY <2>1, <2>2, <2>3
<1>3. ASSUME WorkStatusReply PROVE TypeOK'
  <2>1. RowsTyped'
      BY <1>0, <1>3 DEF WorkStatusReply, RowsTyped, rows
  <2>2. ProcessesTyped'
      BY <1>0, <1>3, IdleTyped DEF WorkStatusReply, ProcessesTyped, lists
  <2>3. ObservationsTyped'
    <3>1. told' \in [TaskId -> Notes]
        BY <1>0, <1>3, EmmaTyped DEF WorkStatusReply, ObservationsTyped
    <3> QED BY <1>0, <1>3, <3>1 DEF WorkStatusReply, ObservationsTyped
  <2> QED BY <2>1, <2>2, <2>3
<1>4. ASSUME NEW t \in TaskId, AnswerQuestion(t) PROVE TypeOK'
  <2>0. NoNote \in Notes
      BY DEF NoNote, Notes, ClosingNote
  <2>1. RowsTyped'
      BY <1>0, <1>4, AnswerTyped DEF AnswerQuestion, ObservationsTyped
  <2>2. ProcessesTyped'
      BY <1>0, <1>4 DEF AnswerQuestion, ProcessesTyped, lists
  <2>3. ObservationsTyped'
      BY <1>0, <1>4, <2>0 DEF AnswerQuestion, ObservationsTyped
  <2> QED BY <2>1, <2>2, <2>3
<1>5. ASSUME NEW t \in TaskId, AbandonRead(t) PROVE TypeOK'
  <2>1. RowsTyped'
      BY <1>0, <1>5 DEF AbandonRead, RowsTyped, rows
  <2>2. ProcessesTyped'
      BY <1>0, <1>5 DEF AbandonRead, ProcessesTyped, lists, EmmaStates
  <2>3. ObservationsTyped'
      BY <1>0, <1>5 DEF AbandonRead, ObservationsTyped, seen
  <2> QED BY <2>1, <2>2, <2>3
<1>6. ASSUME AbandonWrite PROVE TypeOK'
  <2>0. NoNote \in Notes
      BY DEF NoNote, Notes, ClosingNote
  <2>1. RowsTyped'
      BY <1>0, <1>6, EmmaTyped, AbandonTyped DEF AbandonWrite
  <2>2. ProcessesTyped'
      BY <1>0, <1>6, IdleTyped DEF AbandonWrite, ProcessesTyped, lists
  <2>3. ObservationsTyped'
      BY <1>0, <1>6, <2>0 DEF AbandonWrite, ObservationsTyped
  <2> QED BY <2>1, <2>2, <2>3
<1>7. ASSUME NEW s \in Sessions, ScriptBegin(s) PROVE TypeOK'
  <2>1. RowsTyped'
      BY <1>0, <1>7 DEF ScriptBegin, RowsTyped, rows
  <2>2. ProcessesTyped'
      BY <1>0, <1>7 DEF ScriptBegin, ProcessesTyped, lists
  <2>3. ObservationsTyped'
      BY <1>0, <1>7 DEF ScriptBegin, Beat, ObservationsTyped, seen, Ages, Never
  <2> QED BY <2>1, <2>2, <2>3
<1>8. ASSUME NEW s \in Sessions, ScriptStop(s) PROVE TypeOK'
  <2>1. RowsTyped'
      BY <1>0, <1>8 DEF ScriptStop, RowsTyped, rows
  <2>2. ProcessesTyped'
      BY <1>0, <1>8, IdleTyped DEF ScriptStop, ProcessesTyped, lists
  <2>3. ObservationsTyped'
      BY <1>0, <1>8 DEF ScriptStop, ObservationsTyped, seen
  <2> QED BY <2>1, <2>2, <2>3
<1>9. ASSUME NEW s \in Sessions, ScriptList(s) PROVE TypeOK'
  <2>1. RowsTyped'
      BY <1>0, <1>9 DEF ScriptList, RowsTyped, rows
  <2>2. ProcessesTyped'
    <3>1. {[task |-> t, answer |-> answer[t]] : t \in {u \in TaskId : status[u] = "queued"}}
             \in SUBSET [task : TaskId, answer : Answers]
        BY <1>0 DEF RowsTyped
    <3> QED BY <1>0, <1>9, <3>1, IdleTyped DEF ScriptList, ProcessesTyped
  <2>3. ObservationsTyped'
      BY <1>0, <1>9 DEF ScriptList, ObservationsTyped, seen
  <2> QED BY <2>1, <2>2, <2>3
<1>10. ASSUME NEW s \in Sessions, ScriptCreate(s) PROVE TypeOK'
  <2>1. RowsTyped'
      BY <1>0, <1>10, CallTyped, InsertTyped DEF ScriptCreate
  <2>2. ProcessesTyped'
      BY <1>0, <1>10, WroteTyped DEF ScriptCreate, ProcessesTyped, lists
  <2>3. ObservationsTyped'
      BY <1>0, <1>10, WroteTyped DEF ScriptCreate, ObservationsTyped
  <2> QED BY <2>1, <2>2, <2>3
<1>11. ASSUME NEW s \in Sessions, ScriptAdvance(s) PROVE TypeOK'
  <2>1. RowsTyped'
      BY <1>0, <1>11, CallTyped, AdvanceTyped DEF ScriptAdvance
  <2>2. ProcessesTyped'
      BY <1>0, <1>11, CallTyped, WroteTyped, ActedOnTyped DEF ScriptAdvance, ProcessesTyped
  <2>3. ObservationsTyped'
    <3>1. call[s].task \in TaskId /\ asked[call[s].task] + 1 \in Questions
        BY <1>0, <1>11, CallTyped, AdvanceTyped DEF ScriptAdvance
    <3>2. asked' \in [TaskId -> 0..MaxAsk]
        BY <1>0, <1>11, <3>1 DEF ScriptAdvance, ObservationsTyped, Questions
    <3> QED BY <1>0, <1>11, <3>2, WroteTyped DEF ScriptAdvance, ObservationsTyped
  <2> QED BY <2>1, <2>2, <2>3
<1>12. ASSUME NEW s \in Sessions, ScriptFinish(s) PROVE TypeOK'
  <2>1. RowsTyped'
      BY <1>0, <1>12, CallTyped, FinishTyped DEF ScriptFinish
  <2>2. ProcessesTyped'
      BY <1>0, <1>12, CallTyped, WroteTyped, ActedOnTyped DEF ScriptFinish, ProcessesTyped
  <2>3. ObservationsTyped'
      BY <1>0, <1>12, WroteTyped DEF ScriptFinish, ObservationsTyped
  <2> QED BY <2>1, <2>2, <2>3
<1>13. ASSUME NEW s \in Sessions, ScriptAbandon(s) PROVE TypeOK'
  <2>1. RowsTyped'
      BY <1>0, <1>13, CallTyped, AbandonTyped DEF ScriptAbandon
  <2>2. ProcessesTyped'
      BY <1>0, <1>13, CallTyped, WroteTyped, ActedOnTyped DEF ScriptAbandon, ProcessesTyped
  <2>3. ObservationsTyped'
      BY <1>0, <1>13, WroteTyped DEF ScriptAbandon, ObservationsTyped
  <2> QED BY <2>1, <2>2, <2>3
<1>14. ASSUME Tick PROVE TypeOK'
  <2>1. RowsTyped'
      BY <1>0, <1>14 DEF Tick, RowsTyped, rows
  <2>2. ProcessesTyped'
      BY <1>0, <1>14 DEF Tick, ProcessesTyped, lists
  <2>3. ObservationsTyped'
    <3>1. \A age \in Ages : Older(age) \in Ages
        BY DEF Ages, Older, Never
    <3> QED BY <1>0, <1>14, <3>1 DEF Tick, ObservationsTyped
  <2> QED BY <2>1, <2>2, <2>3
<1>15. ASSUME UNCHANGED vars PROVE TypeOK'
  <2>1. RowsTyped'
      BY <1>0, <1>15 DEF vars, RowsTyped, rows
  <2>2. ProcessesTyped'
      BY <1>0, <1>15 DEF vars, ProcessesTyped, lists
  <2>3. ObservationsTyped'
      BY <1>0, <1>15 DEF vars, ObservationsTyped, seen
  <2> QED BY <2>1, <2>2, <2>3
<1> QED
    BY <1>1, <1>2, <1>3, <1>4, <1>5, <1>6, <1>7, <1>8, <1>9, <1>10, <1>11, <1>12,
       <1>13, <1>14, <1>15 DEF Next, EmmaStep, SessionStep

\* The empty queue is well formed.
LEMMA TypeInitial == Init => TypeOK
<1> SUFFICES ASSUME Init PROVE TypeOK
    OBVIOUS
<1>1. RowsTyped
    BY DEF Init, RowsTyped, Statuses, Notes, NoNote, ClosingNote, Answers
<1>2. ProcessesTyped
    BY IdleTyped DEF Init, ProcessesTyped
<1>3. ObservationsTyped
    BY DEF Init, ObservationsTyped, Ages, Never, Notes, NoNote, ClosingNote
<1> QED
    BY <1>1, <1>2, <1>3 DEF TypeOK

\* Type correctness, for any number of jobs, questions and sessions: neither
\* program ever leaves in the shared table something the other cannot read.
THEOREM TypeCorrect == Spec => []TypeOK
BY TypeInitial, TypeInductive, PTL DEF Spec

-----------------------------------------------------------------------------
(* Whose move it is, and what it is about.  Only the statements that write *)
(* a row can disturb this half of the invariant.                           *)

RowsInv == LedgerInv /\ MoveIsActionable

\* A tool or a verb that writes no row keeps it.
LEMMA RowsKept ==
    ASSUME RowsInv, UNCHANGED <<rows, asked, answered>> PROVE RowsInv'
BY DEF RowsInv, LedgerInv, MoveIsActionable, rows, TaskId, Questions, Blank, NoNote

\* create(): a pristine row becomes the developer's, untouched.
LEMMA RowsInserted ==
    ASSUME TypeOK, RowsInv, InsertRow, UNCHANGED <<asked, answered>> PROVE RowsInv'
<1>1. lastId + 1 \in TaskId /\ status[lastId + 1] = "absent"
    BY DEF TypeOK, RowsTyped, RowsInv, LedgerInv, InsertRow, TaskId
<1>2. ASSUME NEW u \in TaskId, u # lastId + 1 PROVE status'[u] = status[u]
    BY <1>2 DEF InsertRow, TypeOK, RowsTyped
<1>3. status'[lastId + 1] = "queued"
    BY <1>1 DEF InsertRow, TypeOK, RowsTyped
<1>4. LedgerInv'
    BY <1>1, <1>2, <1>3 DEF RowsInv, LedgerInv, InsertRow, TypeOK, RowsTyped, TaskId
<1>5. MoveIsActionable'
    BY <1>1, <1>2, <1>3
       DEF RowsInv, LedgerInv, MoveIsActionable, InsertRow, Questions, Blank, NoNote
<1> QED
    BY <1>4, <1>5 DEF RowsInv

\* record_answer(): the standing question is consumed, and the job goes back
\* with words in it.
LEMMA RowsAnswered ==
    ASSUME TypeOK, RowsInv, NEW t \in TaskId, AnswerRow(t, told[t]),
           answered' = [answered EXCEPT ![t] = @ + 1], UNCHANGED asked
    PROVE  RowsInv'
<1>1. told[t] # Blank
    BY DEF TypeOK, ObservationsTyped, Notes, NoNote, ClosingNote, Blank
<1>2. answered[t] < asked[t] /\ answered[t] \in Nat /\ asked[t] \in Nat
    BY DEF AnswerRow, RowsInv, LedgerInv, TypeOK, ObservationsTyped
<1>3. LedgerInv'
    BY <1>2 DEF AnswerRow, RowsInv, LedgerInv, TypeOK, RowsTyped, ObservationsTyped
<1>4. MoveIsActionable'
    BY <1>1 DEF AnswerRow, RowsInv, MoveIsActionable, TypeOK, RowsTyped
<1> QED
    BY <1>3, <1>4 DEF RowsInv

\* advance(): a fresh question stands and the old answer is gone.
LEMMA RowsAdvanced ==
    ASSUME TypeOK, RowsInv, NEW t \in TaskId, NEW st \in Stages, AdvanceRow(t, st),
           asked' = [asked EXCEPT ![t] = @ + 1], UNCHANGED answered
    PROVE  RowsInv'
<1>1. asked[t] + 1 \in Questions
    BY AdvanceTyped DEF TypeOK
<1>2. answered[t] \in Nat /\ asked[t] \in Nat /\ answered[t] <= asked[t]
    BY DEF RowsInv, LedgerInv, TypeOK, ObservationsTyped
<1>3. t <= lastId
    BY DEF AdvanceRow, Exists, RowsInv, LedgerInv, TypeOK, RowsTyped, TaskId
<1>4. LedgerInv'
    BY <1>2, <1>3
       DEF AdvanceRow, RowsInv, LedgerInv, TypeOK, RowsTyped, ObservationsTyped, TaskId
<1>5. MoveIsActionable'
    BY <1>1 DEF AdvanceRow, RowsInv, MoveIsActionable, TypeOK, RowsTyped
<1> QED
    BY <1>4, <1>5 DEF RowsInv

\* finish() and abandon(): a closed job is nobody's move.
LEMMA RowsClosed ==
    ASSUME TypeOK, RowsInv, NEW t \in TaskId, FinishRow(t) \/ AbandonRow(t),
           UNCHANGED <<asked, answered>>
    PROVE  RowsInv'
<1>1. t <= lastId
    BY DEF FinishRow, AbandonRow, Exists, RowsInv, LedgerInv, TypeOK, RowsTyped, TaskId
<1>2. LedgerInv'
    BY <1>1 DEF FinishRow, AbandonRow, RowsInv, LedgerInv, TypeOK, RowsTyped, TaskId
<1>3. MoveIsActionable'
    BY DEF FinishRow, AbandonRow, RowsInv, MoveIsActionable, TypeOK, RowsTyped
<1> QED
    BY <1>2, <1>3 DEF RowsInv

\* Every step of either program keeps it.
LEMMA RowsInductive == TypeOK /\ RowsInv /\ [Next]_vars => RowsInv'
<1> SUFFICES ASSUME TypeOK, RowsInv, [Next]_vars PROVE RowsInv'
    OBVIOUS
<1>0. ProcessesTyped
    BY DEF TypeOK
<1>1. CASE UNCHANGED <<rows, asked, answered>>
    BY <1>1, RowsKept
<1>2. ASSUME WorkStatusRead \/ WorkStatusReply \/ Tick \/ UNCHANGED vars PROVE RowsInv'
    BY <1>1, <1>2 DEF WorkStatusRead, WorkStatusReply, Tick, vars, seen
<1>3. ASSUME NEW s \in Sessions, ScriptBegin(s) \/ ScriptStop(s) \/ ScriptList(s)
      PROVE  RowsInv'
    BY <1>1, <1>3 DEF ScriptBegin, ScriptStop, ScriptList, seen
<1>4. ASSUME NEW t \in TaskId, AbandonRead(t) PROVE RowsInv'
    BY <1>1, <1>4 DEF AbandonRead, seen
<1>5. CASE RequestDevelopment
    BY <1>5, RowsInserted DEF RequestDevelopment, seen
<1>6. ASSUME NEW t \in TaskId, AnswerQuestion(t) PROVE RowsInv'
    BY <1>6, RowsAnswered DEF AnswerQuestion
<1>7. CASE AbandonWrite
    BY <1>0, <1>7, EmmaTyped, RowsClosed DEF AbandonWrite
<1>8. ASSUME NEW s \in Sessions, ScriptCreate(s) PROVE RowsInv'
    BY <1>8, RowsInserted DEF ScriptCreate
<1>9. ASSUME NEW s \in Sessions, ScriptAdvance(s) PROVE RowsInv'
    BY <1>0, <1>9, CallTyped, RowsAdvanced DEF ScriptAdvance
<1>10. ASSUME NEW s \in Sessions, ScriptFinish(s) PROVE RowsInv'
    BY <1>0, <1>10, CallTyped, RowsClosed DEF ScriptFinish
<1>11. ASSUME NEW s \in Sessions, ScriptAbandon(s) PROVE RowsInv'
    BY <1>0, <1>11, CallTyped, RowsClosed DEF ScriptAbandon
<1> QED
    BY <1>2, <1>3, <1>4, <1>5, <1>6, <1>7, <1>8, <1>9, <1>10, <1>11
       DEF Next, EmmaStep, SessionStep

-----------------------------------------------------------------------------
(* The heartbeat is the other half: a call that is under way has beaten    *)
(* since the clock last moved.                                             *)

HeartbeatInv == BeatRecorded /\ HeartbeatCoversWork

\* No tool, no verb and no tick lets a write be more recent than the beat.
LEMMA HeartbeatInductive == TypeOK /\ HeartbeatInv /\ [Next]_vars => HeartbeatInv'
<1> SUFFICES ASSUME TypeOK, HeartbeatInv, [Next]_vars PROVE HeartbeatInv'
    OBVIOUS
<1> USE DEF HeartbeatInv
<1>0. /\ call \in [Sessions -> Calls]
      /\ seenAge \in Ages /\ workAge \in Ages
    BY DEF TypeOK, ProcessesTyped, ObservationsTyped
<1>1. ASSUME UNCHANGED <<seenAge, call, workAge>> PROVE HeartbeatInv'
    BY <1>1 DEF BeatRecorded, HeartbeatCoversWork, Never
<1>2. ASSUME EmmaStep \/ UNCHANGED vars PROVE HeartbeatInv'
    BY <1>1, <1>2 DEF EmmaStep, RequestDevelopment, WorkStatusRead, WorkStatusReply,
                      AnswerQuestion, AbandonRead, AbandonWrite, vars, seen
<1>3. ASSUME NEW s \in Sessions, ScriptBegin(s) PROVE HeartbeatInv'
  <2>1. seenAge' = 0 /\ workAge' = workAge
      BY <1>3 DEF ScriptBegin, Beat, seen
  <2> QED BY <1>0, <2>1 DEF BeatRecorded, HeartbeatCoversWork, Ages, Never
<1>4. ASSUME NEW s \in Sessions, ScriptStop(s) \/ ScriptList(s) PROVE HeartbeatInv'
  <2>1. call' = [call EXCEPT ![s] = NoCall] /\ UNCHANGED <<seenAge, workAge>>
      BY <1>4 DEF ScriptStop, ScriptList, seen
  <2> QED BY <1>0, <2>1 DEF BeatRecorded, HeartbeatCoversWork
<1>5. ASSUME NEW s \in Sessions,
             ScriptCreate(s) \/ ScriptAdvance(s) \/ ScriptFinish(s) \/ ScriptAbandon(s)
      PROVE  HeartbeatInv'
  <2>1. call[s] # NoCall
      BY <1>5 DEF ScriptCreate, ScriptAdvance, ScriptFinish, ScriptAbandon, NoCall
  <2>2. /\ call' = [call EXCEPT ![s] = NoCall]
        /\ workAge' = 0 /\ seenAge' = seenAge
      BY <1>5 DEF ScriptCreate, ScriptAdvance, ScriptFinish, ScriptAbandon, Wrote
  <2> QED BY <1>0, <2>1, <2>2 DEF BeatRecorded, HeartbeatCoversWork, Never
<1>6. ASSUME Tick PROVE HeartbeatInv'
  <2>1. HeartbeatCoversWork'
      BY <1>0, <1>6 DEF Tick, Older, HeartbeatCoversWork, Ages, Never
  <2>2. BeatRecorded'
      BY <1>6 DEF Tick, BeatRecorded
  <2> QED BY <2>1, <2>2
<1> QED
    BY <1>2, <1>3, <1>4, <1>5, <1>6 DEF Next, SessionStep

-----------------------------------------------------------------------------
\* The inductive invariant of the queue.
LEMMA QueueInvHolds == Spec => []QueueInv
<1>1. Init => QueueInv
  <2> SUFFICES ASSUME Init PROVE LedgerInv /\ MoveIsActionable /\ BeatRecorded
                                  /\ HeartbeatCoversWork
      BY TypeInitial DEF QueueInv
  <2>1. LedgerInv /\ MoveIsActionable
      BY DEF Init, LedgerInv, MoveIsActionable
  <2>2. BeatRecorded /\ HeartbeatCoversWork
      BY DEF Init, BeatRecorded, HeartbeatCoversWork
  <2> QED BY <2>1, <2>2
<1>2. QueueInv /\ [Next]_vars => QueueInv'
    BY TypeInductive, RowsInductive, HeartbeatInductive DEF QueueInv, RowsInv, HeartbeatInv
<1> QED
    BY <1>1, <1>2, PTL DEF Spec

\* Whoever's move it is has something to move on, however the calls of the
\* script and EMMA's tools interleave.
THEOREM MovesAreActionable == Spec => []MoveIsActionable
BY QueueInvHolds, PTL DEF QueueInv

\* No question is ever answered twice.
THEOREM AnswersAreBounded == Spec => []AnswersNeverOutnumberQuestions
<1>1. QueueInv => AnswersNeverOutnumberQuestions
    BY DEF QueueInv, LedgerInv, AnswersNeverOutnumberQuestions
<1> QED
    BY <1>1, QueueInvHolds, PTL

\* A developer at work is never reported as one who has gone away.
THEOREM HeartbeatIsHonest == Spec => []HeartbeatCoversWork
BY QueueInvHolds, PTL DEF QueueInv

-----------------------------------------------------------------------------
(* The table implements the hand-off: every statement that writes a row is *)
(* a move of the job it names, and nothing else moves a job.               *)

\* Changing one status moves one turn.
LEMMA TurnMoves ==
    ASSUME RowsTyped, NEW t \in TaskId, NEW v \in Statuses, NEW w,
           status' = [status EXCEPT ![t] = v],
           \/ v = "queued" /\ w = "developer"
           \/ v = "waiting_user" /\ w = "user"
           \/ v \in {"done", "abandoned"} /\ w = "closed"
    PROVE  Turn' = [Turn EXCEPT ![t] = w]
BY DEF RowsTyped, Turn

\* A step that leaves the rows and the counters alone is a stutter.
LEMMA TurnStays ==
    ASSUME UNCHANGED <<status, asked, answered>> PROVE UNCHANGED Abstract!hvars
BY DEF Abstract!hvars, Turn

\* Every step of the queue is a move of the hand-off, or none.
LEMMA StepImplements == QueueInv /\ [Next]_vars => [Abstract!Next]_(Abstract!hvars)
<1> SUFFICES ASSUME QueueInv, [Next]_vars PROVE [Abstract!Next]_(Abstract!hvars)
    OBVIOUS
<1>0. /\ RowsTyped /\ ProcessesTyped /\ LedgerInv
      /\ \A t \in TaskId : Turn[t] = "nobody" <=> status[t] = "absent"
      /\ \A t \in TaskId : Turn[t] = "user" <=> status[t] = "waiting_user"
    BY DEF QueueInv, TypeOK, RowsTyped, Turn, Statuses
<1>1. CASE UNCHANGED <<status, asked, answered>>
    BY <1>1, TurnStays
<1>2. ASSUME \/ WorkStatusRead \/ WorkStatusReply \/ Tick \/ UNCHANGED vars
             \/ \E t \in TaskId : AbandonRead(t)
      PROVE  UNCHANGED <<status, asked, answered>>
    BY <1>2 DEF WorkStatusRead, WorkStatusReply, AbandonRead, Tick, vars, rows, seen
<1>3. ASSUME NEW s \in Sessions, ScriptBegin(s) \/ ScriptStop(s) \/ ScriptList(s)
      PROVE  UNCHANGED <<status, asked, answered>>
    BY <1>3 DEF ScriptBegin, ScriptStop, ScriptList, rows, seen
<1>4. ASSUME InsertRow, UNCHANGED <<asked, answered>> PROVE Abstract!Next
  <2>1. lastId + 1 \in TaskId /\ status[lastId + 1] = "absent"
      BY <1>0, <1>4 DEF RowsTyped, LedgerInv, InsertRow, TaskId
  <2>2. Turn' = [Turn EXCEPT ![lastId + 1] = "developer"]
      BY <1>0, <1>4, <2>1, TurnMoves DEF InsertRow, Statuses
  <2>3. Abstract!Open(lastId + 1)
      BY <1>0, <1>4, <2>1, <2>2 DEF Abstract!Open
  <2> QED BY <2>1, <2>3 DEF Abstract!Next
<1>5. ASSUME NEW t \in TaskId, AnswerQuestion(t) PROVE Abstract!Next
  <2>1. Turn' = [Turn EXCEPT ![t] = "developer"]
      BY <1>0, <1>5, TurnMoves DEF AnswerQuestion, AnswerRow, Statuses
  <2>2. Abstract!Answer(t)
      BY <1>0, <1>5, <2>1 DEF AnswerQuestion, AnswerRow, Abstract!Answer
  <2> QED BY <2>2 DEF Abstract!Next
<1>6. ASSUME NEW s \in Sessions, ScriptAdvance(s) PROVE Abstract!Next
  <2> DEFINE t == call[s].task
  <2>1. t \in TaskId
      BY <1>0, <1>6, CallTyped DEF ScriptAdvance
  <2>2. Turn' = [Turn EXCEPT ![t] = "user"]
      BY <1>0, <1>6, <2>1, TurnMoves DEF ScriptAdvance, AdvanceRow, Statuses
  <2>3. Abstract!Ask(t)
      BY <1>0, <1>6, <2>1, <2>2 DEF ScriptAdvance, AdvanceRow, Exists, Abstract!Ask
  <2> QED BY <2>1, <2>3 DEF Abstract!Next
<1>7. ASSUME NEW t \in TaskId, FinishRow(t) \/ AbandonRow(t), UNCHANGED <<asked, answered>>
      PROVE  Abstract!Next
  <2>1. Turn' = [Turn EXCEPT ![t] = "closed"]
      BY <1>0, <1>7, TurnMoves DEF FinishRow, AbandonRow, Statuses
  <2>2. Abstract!Close(t)
      BY <1>0, <1>7, <2>1 DEF FinishRow, AbandonRow, Exists, Abstract!Close
  <2> QED BY <2>2 DEF Abstract!Next
<1>8. ASSUME NEW s \in Sessions, ScriptFinish(s) \/ ScriptAbandon(s) PROVE Abstract!Next
    BY <1>0, <1>7, <1>8, CallTyped DEF ScriptFinish, ScriptAbandon
<1>9. ASSUME AbandonWrite PROVE Abstract!Next
    BY <1>0, <1>7, <1>9, EmmaTyped DEF AbandonWrite
<1>10. ASSUME \/ RequestDevelopment \/ \E s \in Sessions : ScriptCreate(s)
       PROVE  Abstract!Next
    BY <1>4, <1>10 DEF RequestDevelopment, ScriptCreate, seen
<1> QED
    BY <1>1, <1>2, <1>3, <1>5, <1>6, <1>8, <1>9, <1>10 DEF Next, EmmaStep, SessionStep

\* The shared table, written by two programs at once, implements the hand-off
\* of jobs: a job is on one side at a time and an answer needs a question.
THEOREM QueueImplementsHandoff == Spec => HandoffSpec
<1>1. Init => Abstract!Init
    BY DEF Init, Abstract!Init, Turn
<1> QED
    BY <1>1, StepImplements, QueueInvHolds, PTL DEF Spec, HandoffSpec, Abstract!Spec

-----------------------------------------------------------------------------
(* The jobs worked from the list.                                          *)

\* What the developer was shown of a job they have not acted on since is what it
\* still is, unless the user has dropped it.
ListedIsCurrent ==
    \A row \in listed : /\ status[row.task] \in {"queued", "abandoned"}
                        /\ answer[row.task] = row.answer

\* What the user was told of, or is about to be, is the question that stands.
ToldIsStanding ==
    \A t \in TaskId \ offList :
        /\ told[t] # NoNote => status[t] = "waiting_user" /\ note[t] = told[t]
        /\ emma.doing = "work_status" /\ emma.saw[t] # NoNote =>
              status[t] = "waiting_user" /\ note[t] = emma.saw[t]

AbsentIsBlank == \A t \in TaskId : status[t] = "absent" => answer[t] = Blank

WorkedInv == ListedIsCurrent /\ ToldIsStanding /\ AbsentIsBlank /\ AnswerMatchesQuestion

\* Acting on a job in the user's hands is acting off the list.
LEMMA ActedOnListed ==
    ASSUME WorkedInv, ProcessesTyped, NEW t \in TaskId, ActedOn(t), t \notin offList'
    PROVE  /\ status[t] \in {"queued", "abandoned"}
           /\ [task |-> t, answer |-> answer[t]] \in listed
           /\ told[t] = NoNote
           /\ emma.doing = "work_status" => emma.saw[t] = NoNote
<1>1. PICK row \in listed : row.task = t
  BY DEF ActedOn
<1>2. row = [task |-> t, answer |-> row.answer]
  BY <1>1 DEF ProcessesTyped
<1>3. status[t] \in {"queued", "abandoned"} /\ row.answer = answer[t]
  BY <1>1 DEF WorkedInv, ListedIsCurrent
<1>4. t \notin offList
  BY DEF ActedOn
<1> QED BY <1>1, <1>2, <1>3, <1>4 DEF WorkedInv, ToldIsStanding

\* A developer's write leaves the job in the user's hands or closed, and the other
\* jobs as they were.
LEMMA WorkedWritten ==
    ASSUME WorkedInv, ProcessesTyped, NEW t \in TaskId, ActedOn(t),
           UNCHANGED <<emma, told>>,
           status'[t] \in {"waiting_user", "done", "abandoned"},
           \A u \in TaskId \ {t} :
               status'[u] = status[u] /\ note'[u] = note[u] /\ answer'[u] = answer[u]
    PROVE  WorkedInv'
<1>1. ListedIsCurrent'
  <2> SUFFICES ASSUME NEW row \in listed'
               PROVE  /\ status'[row.task] \in {"queued", "abandoned"}
                      /\ answer'[row.task] = row.answer
    BY DEF ListedIsCurrent
  <2>1. row \in listed /\ row.task \in TaskId \ {t}
    BY DEF ActedOn, ProcessesTyped
  <2> QED BY <2>1 DEF WorkedInv, ListedIsCurrent
<1>2. ToldIsStanding'
  <2> SUFFICES ASSUME NEW u \in TaskId \ offList'
               PROVE  /\ told[u] # NoNote => status'[u] = "waiting_user" /\ note'[u] = told[u]
                      /\ emma.doing = "work_status" /\ emma.saw[u] # NoNote =>
                            status'[u] = "waiting_user" /\ note'[u] = emma.saw[u]
    BY DEF ToldIsStanding
  <2>1. CASE u = t
    BY <2>1, ActedOnListed
  <2>2. CASE u # t
    <3>1. u \in TaskId \ offList
      BY DEF ActedOn
    <3> QED BY <2>2, <3>1 DEF WorkedInv, ToldIsStanding
  <2> QED BY <2>1, <2>2
<1>3. AbsentIsBlank'
  BY DEF WorkedInv, AbsentIsBlank
<1>4. AnswerMatchesQuestion'
  <2>1. offList \subseteq offList'
    BY DEF ActedOn
  <2> QED BY <2>1 DEF WorkedInv, AnswerMatchesQuestion
<1> QED BY <1>1, <1>2, <1>3, <1>4 DEF WorkedInv

\* What changes no row and no list, and tells the user nothing, keeps it.
LEMMA WorkedKept ==
    ASSUME WorkedInv, UNCHANGED <<rows, lists, told>>,
           emma' = emma \/ emma'.doing # "work_status"
    PROVE  WorkedInv'
<1>1. UNCHANGED <<status, note, answer, listed, offList>>
  BY DEF rows, lists
<1> QED
  BY <1>1 DEF WorkedInv, ListedIsCurrent, ToldIsStanding, AbsentIsBlank, AnswerMatchesQuestion

\* A new job has been listed to nobody and nobody was told of it.
LEMMA WorkedInserted ==
    ASSUME TypeOK, RowsInv, WorkedInv, InsertRow, UNCHANGED <<lists, told, emma>>
    PROVE  WorkedInv'
<1> DEFINE t == lastId + 1
<1>1. t \in TaskId /\ status[t] = "absent"
  <2>1. lastId \in 0..MaxTasks /\ lastId < MaxTasks
    BY DEF TypeOK, RowsTyped, InsertRow
  <2>2. t \in TaskId /\ t > lastId
    BY <2>1, TaskQueueAssumption DEF TaskId
  <2> QED BY <2>2 DEF RowsInv, LedgerInv
<1>2. /\ status' = [status EXCEPT ![t] = "queued"] /\ status \in [TaskId -> Statuses]
      /\ UNCHANGED <<note, answer, listed, offList, told, emma>>
  BY DEF InsertRow, lists, TypeOK, RowsTyped
<1> HIDE DEF t
<1>3. answer[t] = Blank
  BY <1>1 DEF WorkedInv, AbsentIsBlank
<1>4. ListedIsCurrent'
  BY <1>1, <1>2 DEF WorkedInv, ListedIsCurrent
<1>5. ToldIsStanding'
  BY <1>1, <1>2 DEF WorkedInv, ToldIsStanding
<1>6. AbsentIsBlank' /\ AnswerMatchesQuestion'
  BY <1>1, <1>2, <1>3 DEF WorkedInv, AbsentIsBlank, AnswerMatchesQuestion
<1> QED BY <1>4, <1>5, <1>6 DEF WorkedInv

\* Every step of either program keeps it.
LEMMA WorkedInductive == TypeOK /\ RowsInv /\ WorkedInv /\ [Next]_vars => WorkedInv'
<1> SUFFICES ASSUME TypeOK, RowsInv, WorkedInv, [Next]_vars PROVE WorkedInv'
    OBVIOUS
<1>0. /\ ProcessesTyped
      /\ status \in [TaskId -> Statuses] /\ note \in [TaskId -> Notes]
      /\ answer \in [TaskId -> Answers] /\ told \in [TaskId -> Notes]
    BY DEF TypeOK, RowsTyped, ObservationsTyped
<1>1. ASSUME \/ Tick \/ UNCHANGED vars
             \/ \E s \in Sessions : ScriptBegin(s) \/ ScriptStop(s)
             \/ \E t \in TaskId : AbandonRead(t)
      PROVE  WorkedInv'
    BY <1>1, WorkedKept DEF Tick, vars, seen, lists, ScriptBegin, ScriptStop, AbandonRead
<1>2. CASE WorkStatusRead
  <2>1. /\ UNCHANGED <<status, note, answer, listed, offList, told>>
        /\ \A t \in TaskId : emma'.saw[t] =
               IF status[t] = "waiting_user" THEN note[t] ELSE NoNote
      BY <1>2 DEF WorkStatusRead, rows, lists, seen
  <2> QED
      BY <2>1 DEF WorkedInv, ListedIsCurrent, ToldIsStanding, AbsentIsBlank, AnswerMatchesQuestion
<1>3. CASE WorkStatusReply
  <2>1. /\ UNCHANGED <<status, note, answer, listed, offList>>
        /\ emma.doing = "work_status" /\ emma'.doing # "work_status"
        /\ \A t \in TaskId : told'[t] = IF emma.saw[t] # NoNote THEN emma.saw[t] ELSE told[t]
      BY <1>3 DEF WorkStatusReply, rows, lists, EmmaIdle
  <2> QED
      BY <2>1 DEF WorkedInv, ListedIsCurrent, ToldIsStanding, AbsentIsBlank, AnswerMatchesQuestion
<1>4. ASSUME NEW t \in TaskId, AnswerQuestion(t) PROVE WorkedInv'
  <2>1. /\ status[t] = "waiting_user" /\ emma.doing # "work_status" /\ emma' = emma
        /\ answer' = [answer EXCEPT ![t] = told[t]]
        /\ status' = [status EXCEPT ![t] = "queued"]
        /\ told' = [told EXCEPT ![t] = NoNote]
        /\ UNCHANGED <<note, listed, offList>>
      BY <1>4 DEF AnswerQuestion, AnswerRow, lists, EmmaIdle
  <2>2. \A row \in listed : row.task # t
      BY <2>1 DEF WorkedInv, ListedIsCurrent
  <2>3. ListedIsCurrent'
      BY <1>0, <2>1, <2>2 DEF WorkedInv, ListedIsCurrent, ProcessesTyped
  <2>4. ToldIsStanding'
      BY <1>0, <2>1 DEF WorkedInv, ToldIsStanding
  <2>5. AbsentIsBlank'
      BY <1>0, <2>1 DEF WorkedInv, AbsentIsBlank
  <2>6. AnswerMatchesQuestion'
    <3>1. t \notin offList => told[t] \in {NoNote, note[t]}
        BY DEF WorkedInv, ToldIsStanding
    <3> QED BY <1>0, <2>1, <3>1 DEF WorkedInv, AnswerMatchesQuestion
  <2> QED BY <2>3, <2>4, <2>5, <2>6 DEF WorkedInv
<1>5. CASE AbandonWrite
  <2>1. PICK t \in TaskId : t = emma.task
      BY <1>0, <1>5, EmmaTyped DEF AbandonWrite
  <2>2. /\ emma'.doing # "work_status" /\ emma.doing # "work_status"
        /\ status' = [status EXCEPT ![t] = "abandoned"]
        /\ note' = [note EXCEPT ![t] = ClosingNote]
        /\ told' = [told EXCEPT ![t] = NoNote]
        /\ UNCHANGED <<answer, listed, offList>>
      BY <1>5, <2>1 DEF AbandonWrite, AbandonRow, lists, EmmaIdle
  <2>3. ListedIsCurrent' /\ AbsentIsBlank'
      BY <1>0, <2>2 DEF WorkedInv, ListedIsCurrent, AbsentIsBlank, ProcessesTyped
  <2>4. ToldIsStanding'
      BY <1>0, <2>2 DEF WorkedInv, ToldIsStanding
  <2>5. AnswerMatchesQuestion'
      BY <1>0, <2>2 DEF WorkedInv, AnswerMatchesQuestion
  <2> QED BY <2>3, <2>4, <2>5 DEF WorkedInv
<1>6. ASSUME RequestDevelopment \/ \E s \in Sessions : ScriptCreate(s) PROVE WorkedInv'
  <2>1. InsertRow /\ UNCHANGED <<lists, told, emma>>
      BY <1>6 DEF RequestDevelopment, ScriptCreate, seen
  <2> QED BY <2>1, WorkedInserted
<1>7. ASSUME NEW s \in Sessions, ScriptList(s) PROVE WorkedInv'
  <2>1. /\ UNCHANGED <<status, note, answer, offList, told, emma>>
        /\ listed' = {[task |-> t, answer |-> answer[t]] :
                         t \in {u \in TaskId : status[u] = "queued"}}
      BY <1>7 DEF ScriptList, rows, seen
  <2>2. ListedIsCurrent'
      BY <2>1 DEF ListedIsCurrent
  <2>3. ToldIsStanding' /\ AbsentIsBlank' /\ AnswerMatchesQuestion'
      BY <2>1 DEF WorkedInv, ToldIsStanding, AbsentIsBlank, AnswerMatchesQuestion
  <2> QED BY <2>2, <2>3 DEF WorkedInv
<1>8. ASSUME NEW s \in Sessions, ScriptAdvance(s) \/ ScriptFinish(s) \/ ScriptAbandon(s)
      PROVE  WorkedInv'
  <2>1. PICK t \in TaskId : t = call[s].task
      BY <1>0, <1>8, CallTyped DEF ScriptAdvance, ScriptFinish, ScriptAbandon
  <2>2. ActedOn(t) /\ UNCHANGED <<emma, told>>
      BY <1>8, <2>1 DEF ScriptAdvance, ScriptFinish, ScriptAbandon
  <2>3. /\ status'[t] \in {"waiting_user", "done", "abandoned"}
        /\ \A u \in TaskId \ {t} :
               status'[u] = status[u] /\ note'[u] = note[u] /\ answer'[u] = answer[u]
      BY <1>0, <1>8, <2>1 DEF ScriptAdvance, ScriptFinish, ScriptAbandon, AdvanceRow,
                              FinishRow, AbandonRow
  <2> QED BY <1>0, <2>2, <2>3, WorkedWritten
<1> QED
    BY <1>1, <1>2, <1>3, <1>4, <1>5, <1>6, <1>7, <1>8 DEF Next, EmmaStep, SessionStep

\* Nobody has been listed or told anything of an empty queue.
LEMMA WorkedInitial == Init => WorkedInv
BY DEF Init, WorkedInv, ListedIsCurrent, ToldIsStanding, AbsentIsBlank, AnswerMatchesQuestion,
       EmmaIdle

\* The invariant of the jobs worked from the list.
LEMMA WorkedInvHolds == Spec => [](QueueInv /\ WorkedInv)
<1>1. QueueInv => TypeOK /\ RowsInv
    BY DEF QueueInv, RowsInv
<1>2. QueueInv /\ WorkedInv /\ [Next]_vars => WorkedInv'
    BY <1>1, WorkedInductive
<1> QED
    BY <1>2, WorkedInitial, QueueInvHolds, PTL DEF Spec

\* answer_development() files the user's words under the question they were told of,
\* however many calls of the script come between, if the developer works from the
\* list.
THEOREM AnswersMatchQuestions == Spec => []AnswerMatchesQuestion
BY WorkedInvHolds, PTL DEF WorkedInv

\* advance() wipes no answer of such a job that the developer was not shown.
THEOREM NoAnswerIsErasedUnread == Spec => NoAnswerErasedUnread
<1>1. QueueInv /\ WorkedInv /\ [Next]_vars =>
         \A t \in TaskId \ offList' :
             answer[t] # Blank /\ answer'[t] = Blank =>
                 [task |-> t, answer |-> answer[t]] \in listed
  <2> SUFFICES ASSUME QueueInv, WorkedInv, [Next]_vars, NEW t \in TaskId \ offList',
                      answer[t] # Blank, answer'[t] = Blank
               PROVE  [task |-> t, answer |-> answer[t]] \in listed
      OBVIOUS
  <2>1. /\ ProcessesTyped /\ answer \in [TaskId -> Answers] /\ told \in [TaskId -> Notes]
      BY DEF QueueInv, TypeOK, RowsTyped, ObservationsTyped
  <2>2. \A u \in TaskId : told[u] # Blank
      BY <2>1 DEF Notes, NoNote, ClosingNote, Blank
  <2>3. ASSUME NEW u \in TaskId, AnswerQuestion(u) PROVE FALSE
      BY <2>1, <2>2, <2>3 DEF AnswerQuestion, AnswerRow
  <2>4. PICK s \in Sessions : ScriptAdvance(s)
      BY <2>3 DEF Next, EmmaStep, SessionStep, RequestDevelopment, WorkStatusRead,
             WorkStatusReply, AbandonRead, AbandonWrite, ScriptBegin, ScriptStop, ScriptList,
             ScriptCreate, ScriptFinish, ScriptAbandon, Tick, InsertRow, FinishRow, AbandonRow,
             rows, vars
  <2>5. call[s].task = t
      BY <2>1, <2>4, CallTyped DEF ScriptAdvance, AdvanceRow
  <2> QED BY <2>1, <2>4, <2>5, ActedOnListed DEF ScriptAdvance
<1> QED
    BY <1>1, WorkedInvHolds, PTL DEF Spec, NoAnswerErasedUnread
=============================================================================
