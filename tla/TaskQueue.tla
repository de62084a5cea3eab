------------------------------ MODULE TaskQueue ------------------------------
(***************************************************************************)
(* The development queue: the table of core/tasks.py, worked on by two     *)
(* programs that never talk to each other.                                 *)
(*                                                                         *)
(*   EMMA        one conversation turn at a time, through the four tools   *)
(*               of tools/development.py;                                  *)
(*   developer   any number of ssh calls of scripts/task-queue.sh, each a  *)
(*               process of its own.                                       *)
(*                                                                         *)
(* One SQL statement is one atomic step.  A tool or a verb that issues two *)
(* statements is two steps, and the other side may act in between.         *)
(*                                                                         *)
(* A question is the number of the checkpoint that put it (`note'); an     *)
(* answer is the number of the question the user had in mind when giving   *)
(* it.  The words are left out, and so is the text of the request, which   *)
(* no statement ever rewrites.                                             *)
(***************************************************************************)
EXTENDS Integers, FiniteSets

CONSTANTS Sessions,     \* concurrent calls of task-queue.sh
          Stages,       \* the stages a checkpoint may name
          MaxTasks,     \* bound: rows ever inserted
          MaxAsk,       \* bound: checkpoints per job
          StaleAfter    \* STALE_AFTER_SECONDS, in ticks

ASSUME TaskQueueAssumption ==
    /\ MaxTasks \in Nat /\ MaxAsk \in Nat /\ StaleAfter \in Nat
    /\ {"new", "deployed"} \subseteq Stages
    /\ Stages \subseteq {"new", "understood", "implemented",
                         "committed", "pushed", "deployed"}

VARIABLES
  \* the rows of the tasks table
  lastId,     \* the AUTOINCREMENT sequence
  stage, status, note, answer,
  \* the dev_heartbeat row, as the time since it was written
  seenAge,
  \* EMMA: the tool call under way and what it has read so far
  emma,
  \* task-queue.sh: the call each session is in
  call,
  \* observations: the rows `list' printed that the developer has not acted on
  \* since, the jobs acted on without being among them, the question the user
  \* was last told of, how many questions were put and answers recorded, the
  \* time since a developer last wrote
  listed, offList, told, asked, answered, workAge

rows == <<lastId, stage, status, note, answer>>
lists == <<listed, offList>>
seen == <<told, asked, answered, workAge>>
vars == <<rows, seenAge, emma, call, lists, seen>>

TaskId == 1..MaxTasks
Statuses == {"absent", "queued", "waiting_user", "done", "abandoned"}

Never == -1                   \* no heartbeat row, no write yet
Blank == -1                   \* answer = ''
NoNote == 0                   \* note = ''
ClosingNote == MaxAsk + 1     \* a closing remark, blank or not
Questions == 1..MaxAsk
Notes == NoNote..ClosingNote
Answers == {Blank} \cup Notes
Ages == Never..(StaleAfter + 1)

Open(t) == status[t] \in {"queued", "waiting_user"}
Exists(t) == status[t] # "absent"

\* What EMMA is doing: nothing, abandoning a job she saw open, or holding the
\* list of questions she read before looking at the heartbeat.
EmmaStates == [doing : {"idle"}]
              \cup [doing : {"abandon_development"}, task : TaskId]
              \cup [doing : {"work_status"}, saw : [TaskId -> Notes]]
EmmaIdle == [doing |-> "idle"]

\* A call of the script that has passed the verb check and recorded its beat.
Calls == [verb : {"idle", "list", "touch", "create"}]
         \cup [verb : {"advance"}, task : TaskId, stage : Stages]
         \cup [verb : {"finish", "abandon"}, task : TaskId]
NoCall == [verb |-> "idle"]

Init == /\ lastId = 0
        /\ stage = [t \in TaskId |-> "new"]
        /\ status = [t \in TaskId |-> "absent"]
        /\ note = [t \in TaskId |-> NoNote]
        /\ answer = [t \in TaskId |-> Blank]
        /\ seenAge = Never
        /\ emma = EmmaIdle
        /\ call = [s \in Sessions |-> NoCall]
        /\ listed = {}
        /\ offList = {}
        /\ told = [t \in TaskId |-> NoNote]
        /\ asked = [t \in TaskId |-> 0]
        /\ answered = [t \in TaskId |-> 0]
        /\ workAge = Never

-----------------------------------------------------------------------------
(* The statements, each one transaction.                                   *)

\* A slip: without AUTOINCREMENT the number of a row is used again.
InsertRowReused == /\ lastId < MaxTasks
                   /\ lastId' \in {lastId, lastId + 1}
                   /\ status' = [status EXCEPT ![lastId + 1] = "queued"]
                   /\ UNCHANGED <<stage, note, answer>>

\* INSERT: a new row, untouched, in the developer's hands.
InsertRow == /\ lastId < MaxTasks
             /\ lastId' = lastId + 1
             /\ status' = [status EXCEPT ![lastId + 1] = "queued"]
             /\ UNCHANGED <<stage, note, answer>>

\* A slip: the WHERE clause names the row only.
AnswerRowUnguarded(t, words) == /\ Exists(t)
                                /\ answer' = [answer EXCEPT ![t] = words]
                                /\ status' = [status EXCEPT ![t] = "queued"]
                                /\ UNCHANGED <<lastId, stage, note>>

\* UPDATE ... WHERE id = ? AND status = 'waiting_user'.  `words' is what the
\* user meant to answer.
AnswerRow(t, words) == /\ status[t] = "waiting_user"
                       /\ answer' = [answer EXCEPT ![t] = words]
                       /\ status' = [status EXCEPT ![t] = "queued"]
                       /\ UNCHANGED <<lastId, stage, note>>

\* A slip: the previous answer is left in place.
AdvanceRowKeepsAnswer(t, st) == /\ Exists(t)
                                /\ asked[t] < MaxAsk
                                /\ stage' = [stage EXCEPT ![t] = st]
                                /\ note' = [note EXCEPT ![t] = asked[t] + 1]
                                /\ status' = [status EXCEPT ![t] = "waiting_user"]
                                /\ UNCHANGED <<lastId, answer>>

\* UPDATE ... WHERE id = ?: the status the row had is not looked at.
AdvanceRow(t, st) == /\ Exists(t)
                     /\ asked[t] < MaxAsk
                     /\ stage' = [stage EXCEPT ![t] = st]
                     /\ note' = [note EXCEPT ![t] = asked[t] + 1]
                     /\ answer' = [answer EXCEPT ![t] = Blank]
                     /\ status' = [status EXCEPT ![t] = "waiting_user"]
                     /\ UNCHANGED lastId

\* A slip: the two columns swapped.
FinishRowSwapped(t) == /\ Exists(t)
                       /\ status' = [status EXCEPT ![t] = "deployed"]
                       /\ note' = [note EXCEPT ![t] = ClosingNote]
                       /\ UNCHANGED <<lastId, stage, answer>>

FinishRow(t) == /\ Exists(t)
                /\ status' = [status EXCEPT ![t] = "done"]
                /\ stage' = [stage EXCEPT ![t] = "deployed"]
                /\ note' = [note EXCEPT ![t] = ClosingNote]
                /\ UNCHANGED <<lastId, answer>>

AbandonRow(t) == /\ Exists(t)
                 /\ status' = [status EXCEPT ![t] = "abandoned"]
                 /\ note' = [note EXCEPT ![t] = ClosingNote]
                 /\ UNCHANGED <<lastId, stage, answer>>

\* A slip: the verb forgets to beat.
BeatForgotten == UNCHANGED seenAge

\* INSERT INTO dev_heartbeat ... ON CONFLICT DO UPDATE.
Beat == seenAge' = 0

-----------------------------------------------------------------------------
(* EMMA's tools.  Her turns are serialised, so one tool at a time.         *)

RequestDevelopment ==
    /\ emma = EmmaIdle
    /\ InsertRow
    /\ UNCHANGED <<seenAge, emma, call, lists, seen>>

\* open_tasks(); with nothing open the heartbeat is not even read.
WorkStatusRead ==
    /\ emma = EmmaIdle
    /\ \E t \in TaskId : Open(t)
    /\ emma' = [doing |-> "work_status",
                saw |-> [t \in TaskId |->
                           IF status[t] = "waiting_user" THEN note[t] ELSE NoNote]]
    /\ UNCHANGED <<rows, seenAge, call, lists, seen>>

\* last_seen(), then the reply: each pending question leads its own entry, so
\* the user has now been told of it.
WorkStatusReply ==
    /\ emma.doing = "work_status"
    /\ told' = [t \in TaskId |-> IF emma.saw[t] # NoNote THEN emma.saw[t] ELSE told[t]]
    /\ emma' = EmmaIdle
    /\ UNCHANGED <<rows, seenAge, call, lists, asked, answered, workAge>>

\* The user's words are about the question they were told of, or about none if
\* they speak unprompted; a job not waiting is refused and nothing changes.
AnswerQuestion(t) ==
    /\ emma = EmmaIdle
    /\ AnswerRow(t, told[t])
    /\ answered' = [answered EXCEPT ![t] = @ + 1]
    /\ told' = [told EXCEPT ![t] = NoNote]
    /\ UNCHANGED <<seenAge, emma, call, lists, asked, workAge>>

\* open_tasks() decides whether the job can be dropped ...
AbandonRead(t) ==
    /\ emma = EmmaIdle
    /\ Open(t)
    /\ emma' = [doing |-> "abandon_development", task |-> t]
    /\ UNCHANGED <<rows, seenAge, call, lists, seen>>

\* ... and a second statement drops it.
AbandonWrite ==
    /\ emma.doing = "abandon_development"
    /\ AbandonRow(emma.task)
    /\ emma' = EmmaIdle
    /\ told' = [told EXCEPT ![emma.task] = NoNote]
    /\ UNCHANGED <<seenAge, call, lists, asked, answered, workAge>>

-----------------------------------------------------------------------------
(* The script.  Every valid verb first records the beat, then does its     *)
(* work with a second run of sqlite3.                                      *)

ScriptBegin(s) ==
    /\ call[s] = NoCall
    /\ Beat
    /\ \E c \in Calls \ {NoCall} : call' = [call EXCEPT ![s] = c]
    /\ UNCHANGED <<rows, emma, lists, seen>>

\* A malformed argument, a blank note or a locked database ends the call with
\* the beat recorded and nothing else; so does `touch', which wants no more.
ScriptStop(s) ==
    /\ call[s] # NoCall
    /\ call' = [call EXCEPT ![s] = NoCall]
    /\ UNCHANGED <<rows, seenAge, emma, lists, seen>>

\* Two slips: a list of every open job, and one that leaves the answer out.
ScriptListAllOpen(s) ==
    /\ call[s].verb = "list"
    /\ listed' = {[task |-> t, answer |-> answer[t]] : t \in {u \in TaskId : Open(u)}}
    /\ call' = [call EXCEPT ![s] = NoCall]
    /\ UNCHANGED <<rows, seenAge, emma, offList, seen>>
ScriptListWithoutAnswer(s) ==
    /\ call[s].verb = "list"
    /\ listed' = {[task |-> t, answer |-> Blank] :
                     t \in {u \in TaskId : status[u] = "queued"}}
    /\ call' = [call EXCEPT ![s] = NoCall]
    /\ UNCHANGED <<rows, seenAge, emma, offList, seen>>

\* The jobs untouched or handed back, with the answers they carry.
ScriptList(s) ==
    /\ call[s].verb = "list"
    /\ listed' = {[task |-> t, answer |-> answer[t]] :
                     t \in {u \in TaskId : status[u] = "queued"}}
    /\ call' = [call EXCEPT ![s] = NoCall]
    /\ UNCHANGED <<rows, seenAge, emma, offList, seen>>

\* The developer's write is done, and the call over.
Wrote(s) == /\ workAge' = 0
            /\ call' = [call EXCEPT ![s] = NoCall]

\* A write on job t spends its listing; without one it was off the list.
ActedOn(t) == /\ listed' = {row \in listed : row.task # t}
              /\ offList' = IF listed' = listed THEN offList \cup {t} ELSE offList

ScriptCreate(s) ==
    /\ call[s].verb = "create"
    /\ InsertRow
    /\ Wrote(s)
    /\ UNCHANGED <<seenAge, emma, lists, told, asked, answered>>

ScriptAdvance(s) ==
    /\ call[s].verb = "advance"
    /\ AdvanceRow(call[s].task, call[s].stage)
    /\ asked' = [asked EXCEPT ![call[s].task] = @ + 1]
    /\ ActedOn(call[s].task)
    /\ Wrote(s)
    /\ UNCHANGED <<seenAge, emma, told, answered>>

ScriptFinish(s) ==
    /\ call[s].verb = "finish"
    /\ FinishRow(call[s].task)
    /\ ActedOn(call[s].task)
    /\ Wrote(s)
    /\ UNCHANGED <<seenAge, emma, told, asked, answered>>

ScriptAbandon(s) ==
    /\ call[s].verb = "abandon"
    /\ AbandonRow(call[s].task)
    /\ ActedOn(call[s].task)
    /\ Wrote(s)
    /\ UNCHANGED <<seenAge, emma, told, asked, answered>>

\* Time passes, in units much longer than a call of the script: none is
\* between its beat and its write when the clock moves.
Older(age) == IF age = Never THEN Never
              ELSE IF age > StaleAfter THEN age ELSE age + 1
Tick ==
    /\ \A s \in Sessions : call[s] = NoCall
    /\ seenAge' = Older(seenAge)
    /\ workAge' = Older(workAge)
    /\ UNCHANGED <<rows, emma, call, lists, told, asked, answered>>

-----------------------------------------------------------------------------
EmmaStep == \/ RequestDevelopment
            \/ WorkStatusRead
            \/ WorkStatusReply
            \/ \E t \in TaskId : AnswerQuestion(t)
            \/ \E t \in TaskId : AbandonRead(t)
            \/ AbandonWrite

SessionStep(s) == \/ ScriptBegin(s)
                  \/ ScriptStop(s)
                  \/ ScriptList(s)
                  \/ ScriptCreate(s)
                  \/ ScriptAdvance(s)
                  \/ ScriptFinish(s)
                  \/ ScriptAbandon(s)

Next == EmmaStep \/ (\E s \in Sessions : SessionStep(s)) \/ Tick

Spec == Init /\ [][Next]_vars

-----------------------------------------------------------------------------
RowsTyped ==
    /\ lastId \in 0..MaxTasks
    /\ stage \in [TaskId -> Stages]
    /\ status \in [TaskId -> Statuses]
    /\ note \in [TaskId -> Notes]
    /\ answer \in [TaskId -> Answers]

ProcessesTyped ==
    /\ emma \in EmmaStates
    /\ call \in [Sessions -> Calls]
    /\ listed \in SUBSET [task : TaskId, answer : Answers]
    /\ offList \in SUBSET TaskId

ObservationsTyped ==
    /\ seenAge \in Ages
    /\ told \in [TaskId -> Notes]
    /\ asked \in [TaskId -> 0..MaxAsk]
    /\ answered \in [TaskId -> Nat]
    /\ workAge \in Ages

\* Every variable stays in its range: in particular no statement leaves a
\* status or a stage the two programs do not both know.
TypeOK == RowsTyped /\ ProcessesTyped /\ ObservationsTyped

\* Whoever's move it is has something to move on: a job in the developer's
\* hands is untouched or carries an answer, one in the user's hands carries a
\* question and no leftover answer (the Status comment of core/tasks.py).
MoveIsActionable ==
    \A t \in TaskId :
        /\ status[t] = "queued" => \/ answer[t] # Blank
                                   \/ stage[t] = "new" /\ note[t] = NoNote
        /\ status[t] = "waiting_user" => note[t] \in Questions /\ answer[t] = Blank

\* However the two programs interleave, the answers recorded on a job never
\* outnumber the questions put on it: record_answer() cannot consume the same
\* question twice.
AnswersNeverOutnumberQuestions ==
    \A t \in TaskId : answered[t] <= asked[t]

\* EMMA never tells the user that nobody is at work ("last contact ...") while
\* the developer wrote more recently than the heartbeat says: every verb beats
\* before it writes.
HeartbeatCoversWork ==
    workAge # Never => seenAge # Never /\ seenAge <= workAge

\* The strengthening the proofs go through: rows not yet inserted are pristine,
\* a standing question is one not yet answered, and a call that is about to
\* write has just beaten.
LedgerInv ==
    \A t \in TaskId :
        /\ t > lastId => status[t] = "absent"
        /\ status[t] = "absent" => stage[t] = "new" /\ note[t] = NoNote
        /\ answered[t] <= asked[t]
        /\ status[t] = "waiting_user" => answered[t] < asked[t]
BeatRecorded == (\E s \in Sessions : call[s] # NoCall) => seenAge = 0
QueueInv == /\ TypeOK
            /\ LedgerInv
            /\ MoveIsActionable
            /\ BeatRecorded
            /\ HeartbeatCoversWork

\* On a job the developer only acted on when `list' had printed it: what the
\* user said is recorded against the question they had been told of, never
\* against a newer one.
AnswerMatchesQuestion ==
    \A t \in TaskId \ offList :
        status[t] = "queued" /\ answer[t] # Blank => answer[t] \in {NoNote, note[t]}

\* On such a job, no checkpoint wipes an answer that was not printed to the
\* developer first.
NoAnswerErasedUnread ==
    [][\A t \in TaskId \ offList' :
          answer[t] # Blank /\ answer'[t] = Blank =>
              [task |-> t, answer |-> answer[t]] \in listed]_vars

\* "Only jobs that are still open can be dropped: one already finished stays
\* as it is".
FinishedIsNotDropped ==
    [][\A t \in TaskId : status[t] = "done" => status'[t] # "abandoned"]_vars

-----------------------------------------------------------------------------
\* The table implements the hand-off of jobs between the two sides.
Turn == [t \in TaskId |-> CASE status[t] = "absent" -> "nobody"
                            [] status[t] = "queued" -> "developer"
                            [] status[t] = "waiting_user" -> "user"
                            [] OTHER -> "closed"]
Abstract == INSTANCE Handoff WITH Jobs <- TaskId, turn <- Turn
HandoffSpec == Abstract!Spec
=============================================================================
