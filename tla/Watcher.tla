------------------------------- MODULE Watcher -------------------------------
(***************************************************************************)
(* scripts/watch-tasks.sh in hook mode: the processes the session's hooks  *)
(* arm, the lock that is to keep them to one, the file of ids already      *)
(* announced, and the queue they poll.                                     *)
(*                                                                         *)
(* The session is known by its hooks only: the end of each of its turns    *)
(* runs one, and an idle session runs none, whatever became of its         *)
(* watcher.  A watcher is known by its pid; that of a killed one is not    *)
(* used again as long as the lock names it.  Reading the lock, writing it, listing  *)
(* the queue, recording what is new and waking the session are steps of    *)
(* their own.                                                              *)
(***************************************************************************)
EXTENDS Naturals, FiniteSets

CONSTANTS Watchers,   \* the pids
          Jobs,
          MaxSpells,  \* bound: times a job is put in the developer's hands
          MaxKills    \* bound: watchers killed from outside

NoLock == "none"

ASSUME WatcherAssumption ==
    /\ NoLock \notin Watchers
    /\ MaxSpells \in Nat /\ MaxKills \in Nat

VARIABLES
  lock,     \* the pid in LOCK_FILE, or none
  seen,     \* the ids in SEEN_FILE
  at,       \* where each watcher is
  queued,   \* what a watcher has just read, or the part of it that is new
  trap,     \* the watchers that will remove the lock as they exit
  kills,
  due,      \* a SessionStart or Stop hook is to run
  backlog,  \* the jobs with status 'queued'
  spell,    \* how many times each job has been in the developer's hands
  told,     \* observation: the spell the session was last woken for, per job
  woken,    \* observation: how many wake-ups named each job as new
  dropped,  \* observation: the jobs a watcher recorded and was killed before telling
  raced,    \* observation: two watchers have looked for the lock at once
  thief     \* observation: a watcher has removed the lock of another at work

jobs == <<backlog, spell>>
news == <<told, woken, dropped>>
observed == <<news, raced, thief>>
watchVars == <<lock, seen, at, queued, trap, kills, due, jobs, observed>>

Places == {"off", "check", "claim", "watch", "compare", "remember",
           "announce", "killed"}
Alive(w) == at[w] \notin {"off", "killed"}
Polling == {w \in Watchers : at[w] \in {"watch", "compare", "remember", "announce"}}

WatchInit == /\ lock = NoLock /\ seen = {}
             /\ at = [w \in Watchers |-> "off"]
             /\ queued = [w \in Watchers |-> {}]
             /\ trap = {} /\ kills = 0 /\ due = TRUE
             /\ backlog = {} /\ spell = [j \in Jobs |-> 0]
             /\ told = [j \in Jobs |-> 0] /\ woken = [j \in Jobs |-> 0]
             /\ dropped = {}
             /\ raced = FALSE /\ thief = FALSE

Goto(w, place) == at' = [at EXCEPT ![w] = place]

\* The process exits; with the trap set it removes the lock, whosever it is.
Exit(w) == /\ Goto(w, "off")
           /\ queued' = [queued EXCEPT ![w] = {}]
           /\ trap' = trap \ {w}
           /\ lock' = IF w \in trap THEN NoLock ELSE lock
           /\ thief' = (thief \/ (w \in trap /\ lock \in Polling \ {w}))

-----------------------------------------------------------------------------
\* The session takes a turn of its own, because somebody writes.
TakeTurn == /\ ~due
            /\ due' = TRUE
            /\ UNCHANGED <<lock, seen, at, queued, trap, kills, jobs, observed>>

\* SessionStart and Stop each start one.
Free(w) == at[w] = "off" \/ (at[w] = "killed" /\ lock # w)
Arm(w) == /\ due /\ Free(w)
          /\ due' = FALSE
          /\ Goto(w, "check")
          /\ raced' = (raced \/ \E v \in Watchers : at[v] \in {"check", "claim"})
          /\ UNCHANGED <<lock, seen, queued, trap, kills, jobs, news, thief>>

\* kill -0 on the recorded pid.  Two slips: not to look, and to believe it.
NotLocked == FALSE
LockTrusted == lock # NoLock
Locked == lock # NoLock /\ Alive(lock)

\* claim_the_lock(): a lock whose owner is alive turns this one away ...
CheckLock(w) == /\ at[w] = "check"
                /\ IF Locked
                   THEN Exit(w)
                   ELSE Goto(w, "claim") /\ UNCHANGED <<lock, queued, trap, thief>>
                /\ UNCHANGED <<seen, kills, due, jobs, news, raced>>

\* ... otherwise it is overwritten, and the trap set.
Claim(w) == /\ at[w] = "claim"
            /\ lock' = w /\ trap' = trap \cup {w}
            /\ Goto(w, "watch")
            /\ UNCHANGED <<seen, queued, kills, due, jobs, observed>>

\* touch, then list: an empty answer or a failed call is slept on.
List(w) == /\ at[w] = "watch"
           /\ backlog # {}
           /\ queued' = [queued EXCEPT ![w] = backlog]
           /\ Goto(w, "compare")
           /\ UNCHANGED <<lock, seen, trap, kills, due, jobs, observed>>

\* A slip: something is news only when all of it is new.
CompareAllNew(w) == /\ at[w] = "compare"
                    /\ LET fresh == IF queued[w] \cap seen = {} THEN queued[w] ELSE {} IN
                       /\ queued' = [queued EXCEPT ![w] = fresh]
                       /\ Goto(w, IF fresh = {} THEN "watch" ELSE "remember")
                    /\ UNCHANGED <<lock, seen, trap, kills, due, jobs, observed>>

\* Each id is looked up in SEEN_FILE; with nothing new the loop goes on.
Compare(w) == /\ at[w] = "compare"
              /\ LET fresh == queued[w] \ seen IN
                 /\ queued' = [queued EXCEPT ![w] = fresh]
                 /\ Goto(w, IF fresh = {} THEN "watch" ELSE "remember")
              /\ UNCHANGED <<lock, seen, trap, kills, due, jobs, observed>>

\* A slip: the file holds the last announcement only.
RememberLast(w) == /\ at[w] = "remember"
                   /\ seen' = queued[w]
                   /\ Goto(w, "announce")
                   /\ UNCHANGED <<lock, queued, trap, kills, due, jobs, observed>>

\* What is new is remembered before it is announced.
Remember(w) == /\ at[w] = "remember"
               /\ seen' = seen \cup queued[w]
               /\ Goto(w, "announce")
               /\ UNCHANGED <<lock, queued, trap, kills, due, jobs, observed>>

\* exit 2: the session wakes to the listing of the queue, and takes a turn.
Announce(w) == /\ at[w] = "announce"
               /\ woken' = [j \in Jobs |-> IF j \in queued[w] THEN woken[j] + 1 ELSE woken[j]]
               /\ told' = [j \in Jobs |-> IF j \in queued[w] THEN spell[j] ELSE told[j]]
               /\ due' = TRUE
               /\ Exit(w)
               /\ UNCHANGED <<seen, kills, jobs, dropped, raced>>

\* MAX_WAIT_SECONDS, or a queue that cannot be reached at the start: exit 0, which
\* wakes nobody.
GiveUp(w) == /\ at[w] = "watch"
             /\ Exit(w)
             /\ UNCHANGED <<seen, kills, due, jobs, news, raced>>

\* Dismantled from outside: by SIGKILL no trap runs and the lock stays, by
\* SIGTERM bash runs the trap as it does for any exit.
KillWatcher(w) == /\ Alive(w) /\ kills < MaxKills
                  /\ kills' = kills + 1
                  /\ dropped' = IF at[w] = "announce" THEN dropped \cup queued[w] ELSE dropped
                  /\ \/ /\ Goto(w, "killed")
                        /\ trap' = trap \ {w}
                        /\ UNCHANGED <<lock, queued, thief>>
                     \/ Exit(w)
                  /\ UNCHANGED <<seen, due, jobs, told, woken, raced>>

-----------------------------------------------------------------------------
\* A job is commissioned, or answered after a checkpoint.
Queue(j) == /\ j \notin backlog /\ spell[j] < MaxSpells
            /\ backlog' = backlog \cup {j}
            /\ spell' = [spell EXCEPT ![j] = @ + 1]
            /\ UNCHANGED <<lock, seen, at, queued, trap, kills, due, observed>>

\* The session, told of it, parks or closes it.
Work(j) == /\ j \in backlog /\ told[j] = spell[j]
           /\ backlog' = backlog \ {j}
           /\ UNCHANGED <<lock, seen, at, queued, trap, kills, due, spell, observed>>

WatcherStep(w) == \/ CheckLock(w) \/ Claim(w)
                  \/ List(w) \/ Compare(w) \/ Remember(w) \/ Announce(w)

WatchNext == \/ \E w \in Watchers : Arm(w) \/ WatcherStep(w) \/ GiveUp(w) \/ KillWatcher(w)
             \/ \E j \in Jobs : Queue(j) \/ Work(j)
             \/ TakeTurn

\* A watcher that runs goes on running, and a hook that is due runs; nobody need
\* ever take a turn.  A watcher lists the queue before it gives up, and the queue is
\* not out of reach each time it does.
Fairness == /\ \A w \in Watchers : WF_watchVars(WatcherStep(w)) /\ SF_watchVars(List(w))
            /\ WF_watchVars(\E w \in Watchers : Arm(w))

WatchSpec == WatchInit /\ [][WatchNext]_watchVars /\ Fairness

-----------------------------------------------------------------------------
\* Every variable stays in its range.
WatchTypeOK == /\ lock \in Watchers \cup {NoLock}
               /\ seen \subseteq Jobs
               /\ at \in [Watchers -> Places]
               /\ queued \in [Watchers -> SUBSET Jobs]
               /\ trap \subseteq Watchers /\ kills \in 0..MaxKills /\ due \in BOOLEAN
               /\ backlog \subseteq Jobs /\ spell \in [Jobs -> 0..MaxSpells]
               /\ told \in [Jobs -> 0..MaxSpells] /\ woken \in [Jobs -> Nat]
               /\ dropped \subseteq Jobs
               /\ raced \in BOOLEAN /\ thief \in BOOLEAN

\* "One watcher at a time", as long as two are never armed at the same moment,
\* and killing one at any point does not let in more.
OneWatcherPolls == ~raced => Cardinality(Polling) <= 1

\* "A wake-up has to mean 'something you have not seen'": no job is announced
\* twice over, however many watchers come and go, nor given up half-way.  The count
\* runs over all the times a job is in the developer's hands: one that comes back
\* answered does not wake the session again either.
NothingIsAnnouncedTwice == ~raced => \A j \in Jobs : woken[j] <= 1

\* "A lock left behind by a killed process must not block the next one
\* forever": a hook that finds nobody polling brings a watcher that polls, whatever
\* was killed before and wherever; only a kill that is still to come may undo it.
WatchingResumes ==
    \A n \in 0..MaxKills :
        due /\ Polling = {} /\ kills = n ~> Polling # {} \/ kills > n

\* As long as the session goes on taking turns, a job commissioned is in the end
\* announced, in whatever order watchers come, go, give up, are killed and overwrite
\* each other's lock; except one that a watcher had recorded, and not yet announced,
\* when it was killed.
NewJobsWakeTheSession ==
    []<>due => \A j \in Jobs :
        j \in backlog /\ spell[j] = 1 ~> told[j] >= 1 \/ j \in dropped

\* "so a loser of the race cannot free the winner": a watcher never removes
\* the lock of another that is at work.
OnlyTheHolderFrees == ~thief
=============================================================================
