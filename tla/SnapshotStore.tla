----------------------------- MODULE SnapshotStore -----------------------------
(***************************************************************************)
(* The self-healing database of core/memory.py: the file, its two snapshot *)
(* generations, and the sequence open() - run - close(), which a kill may  *)
(* cut anywhere and a disk fault may find in any state.                    *)
(*                                                                         *)
(* A file is absent, damaged, half copied, or healthy with some history in *)
(* it; the history is the number of messages it holds, and an empty file   *)
(* is a healthy database with none.  Each call to the file system is a     *)
(* step of its own.                                                        *)
(***************************************************************************)
EXTENDS Integers, FiniteSetsExt

CONSTANTS MaxWritten,    \* bound: messages ever in the database
          MaxFaults      \* bound: disk faults

ASSUME SnapshotStoreAssumption == MaxWritten \in Nat /\ MaxFaults \in Nat

VARIABLES
  db, snapshot, prev, tmp,   \* the four files
  phase,                     \* where the process is
  closing,                   \* whether the snapshot under way is close()'s
  faults,                    \* disk faults so far
  misread,                   \* observation: a check has failed on a sound file
  cut,                       \* observation: a recovery has been cut short, by a
                             \* kill or by an error of the file system
  kept                       \* observation: the history in the last snapshot
                             \* that was put in place

files == <<db, snapshot, prev, tmp>>
observed == <<misread, cut, kept>>
storeVars == <<files, phase, closing, faults, observed>>

Absent == -1
Damaged == -2
Partial == -3
Healthy(f) == f >= 0
Contents == Partial..MaxWritten

Recovery == {"rename", "sidecars", "try_snapshot", "try_prev", "copy_snapshot", "copy_prev"}
Rotation == {"vacuum", "check_tmp", "rotate_prev", "rotate_tmp"}
Phases == {"down", "check", "connect", "running"} \cup Recovery \cup Rotation

StoreInit == /\ db = Absent /\ snapshot = Absent /\ prev = Absent /\ tmp = Absent
             /\ phase = "down"
             /\ closing = FALSE
             /\ faults = 0
             /\ misread = FALSE /\ cut = FALSE /\ kept = Absent

Goto(step) == phase' = step
Calm == UNCHANGED <<closing, faults>>
Rest == Calm /\ UNCHANGED observed
Mishap == Calm /\ cut' = TRUE /\ UNCHANGED <<misread, kept>>

-----------------------------------------------------------------------------
(* open(): verify, recover if the verdict is damage, connect, snapshot.    *)

\* What _file_is_healthy() says of a file: any failure at all to read it, a lock
\* or a permission included, is a verdict of damage.
IsHealthy(f, verdict) == /\ verdict => Healthy(f)
                         /\ misread' = (misread \/ (Healthy(f) /\ ~verdict))
                         /\ Calm /\ UNCHANGED <<cut, kept>>

Start == /\ phase = "down" /\ Goto("check") /\ closing' = FALSE
         /\ UNCHANGED <<files, faults, observed>>

Check == /\ phase = "check"
         /\ \/ db = Absent /\ Goto("connect") /\ Rest
            \/ db # Absent /\ IsHealthy(db, TRUE) /\ Goto("connect")
            \/ db # Absent /\ IsHealthy(db, FALSE) /\ Goto("rename")
         /\ UNCHANGED files

\* The damaged file is renamed, then its -wal and -shm companions; an error
\* ends the recovery, and open() goes on to connect.
Rename == /\ phase = "rename"
          /\ \/ db' = Absent /\ Goto("sidecars") /\ Rest
             \/ db' = db /\ Goto("connect") /\ Mishap
          /\ UNCHANGED <<snapshot, prev, tmp>>

\* A slip: the older generation first.
SidecarsThenPrev == /\ phase = "sidecars"
                    /\ Goto("try_prev")
                    /\ UNCHANGED files /\ Rest

Sidecars == /\ phase = "sidecars"
            /\ \/ Goto("try_snapshot") /\ Rest
               \/ Goto("connect") /\ Mishap
            /\ UNCHANGED files

\* Each candidate is checked, then copied into place.  A copy that fails may
\* leave an empty file or half of one, and the next candidate is tried.
Try(step, file, copy, next) ==
    /\ phase = step
    /\ \/ IsHealthy(file, TRUE) /\ Goto(copy) /\ db' \in {0, Partial}
       \/ IsHealthy(file, FALSE) /\ Goto(next) /\ db' = db
    /\ UNCHANGED <<snapshot, prev, tmp>>
Copy(step, file, next) ==
    /\ phase = step
    /\ \/ db' = file /\ Goto("connect") /\ Rest
       \/ db' = db /\ Goto(next) /\ Mishap
    /\ UNCHANGED <<snapshot, prev, tmp>>

\* A slip: one candidate only.
TrySnapshotOnly == Try("try_snapshot", snapshot, "copy_snapshot", "connect")
TrySnapshot == Try("try_snapshot", snapshot, "copy_snapshot", "try_prev")
CopySnapshot == Copy("copy_snapshot", snapshot, "try_prev")
TryPrev == Try("try_prev", prev, "copy_prev", "connect")
CopyPrev == Copy("copy_prev", prev, "connect")

\* aiosqlite.connect() creates the file when there is none.  One that is still
\* damaged may open all the same, or make open() raise.
Connect == /\ phase = "connect"
           /\ db' = IF db = Absent THEN 0 ELSE db
           /\ Goto("vacuum") \/ (db # Absent /\ ~Healthy(db) /\ Goto("down"))
           /\ UNCHANGED <<snapshot, prev, tmp>> /\ Rest

-----------------------------------------------------------------------------
(* _write_snapshot(), from open() and from close().                        *)

SnapshotOver == IF closing THEN "down" ELSE "running"

\* The old .tmp goes, and VACUUM INTO writes a new one, well, badly or not.
Vacuum == /\ phase = "vacuum"
          /\ \/ tmp' \in {Damaged, IF Healthy(db) THEN db ELSE Damaged} /\ Goto("check_tmp")
             \/ tmp' = Absent /\ Goto(SnapshotOver)
          /\ UNCHANGED <<db, snapshot, prev>> /\ Rest

CheckTmp == /\ phase = "check_tmp"
            /\ \/ IsHealthy(tmp, TRUE) /\ Goto("rotate_prev") /\ tmp' = tmp
               \/ IsHealthy(tmp, FALSE) /\ Goto(SnapshotOver) /\ tmp' = Absent
            /\ UNCHANGED <<db, snapshot, prev>>

\* A slip: the generation that should move down is dropped.
RotatePrevDrops == /\ phase = "rotate_prev"
                   /\ snapshot' = Absent /\ Goto("rotate_tmp")
                   /\ UNCHANGED <<db, prev, tmp>> /\ Rest

RotatePrev == /\ phase = "rotate_prev"
              /\ \/ /\ snapshot # Absent
                    /\ prev' = snapshot /\ snapshot' = Absent
                    /\ tmp' = tmp /\ Goto("rotate_tmp")
                 \/ /\ snapshot = Absent
                    /\ Goto("rotate_tmp") /\ UNCHANGED <<snapshot, prev, tmp>>
                 \/ /\ tmp' = Absent /\ UNCHANGED <<snapshot, prev>>
                    /\ Goto(SnapshotOver)
              /\ UNCHANGED db /\ Rest

RotateTmp == /\ phase = "rotate_tmp"
             /\ \/ snapshot' = tmp /\ kept' = tmp
                \/ UNCHANGED <<snapshot, kept>>
             /\ tmp' = Absent
             /\ Goto(SnapshotOver)
             /\ UNCHANGED <<db, prev, misread, cut>> /\ Calm

-----------------------------------------------------------------------------
\* A message is remembered; a database damaged under us takes no more.
Write == /\ phase = "running" /\ Healthy(db) /\ db < MaxWritten
         /\ db' = db + 1
         /\ UNCHANGED <<snapshot, prev, tmp, phase>> /\ Rest

Close == /\ phase = "running"
         /\ Goto("vacuum") /\ closing' = TRUE
         /\ UNCHANGED <<files, faults, observed>>

\* The process is killed, or the machine loses power, between two steps.
Kill == /\ phase # "down"
        /\ Goto("down")
        /\ IF phase \in Recovery THEN Mishap ELSE Rest
        /\ UNCHANGED files

\* A disk fault strikes one of the files.
Fault == /\ faults < MaxFaults
         /\ faults' = faults + 1
         /\ \/ Healthy(db) /\ db' = Damaged /\ UNCHANGED <<snapshot, prev>>
            \/ Healthy(snapshot) /\ snapshot' = Damaged /\ UNCHANGED <<db, prev>>
            \/ Healthy(prev) /\ prev' = Damaged /\ UNCHANGED <<db, snapshot>>
         /\ phase \in {"down", "running"}
         /\ UNCHANGED <<tmp, phase, closing, observed>>

StoreNext == \/ Start \/ Check \/ Rename \/ Sidecars
             \/ TrySnapshot \/ CopySnapshot \/ TryPrev \/ CopyPrev \/ Connect
             \/ Vacuum \/ CheckTmp \/ RotatePrev \/ RotateTmp
             \/ Write \/ Close \/ Kill \/ Fault

StoreSpec == StoreInit /\ [][StoreNext]_storeVars

-----------------------------------------------------------------------------
\* Every variable stays in its range.
StoreTypeOK == /\ {db, snapshot, prev, tmp, kept} \subseteq Contents
               /\ phase \in Phases
               /\ closing \in BOOLEAN
               /\ faults \in 0..MaxFaults
               /\ misread \in BOOLEAN /\ cut \in BOOLEAN

\* The longest history a healthy file still holds.
Best == Max({db, snapshot, prev})

\* History is lost to disk faults only: unless a sound file was taken for a
\* damaged one or a recovery was cut short, no restart, kill, failed snapshot or
\* interrupted rotation leaves less of it than there was.
OnlyFaultsLoseHistory ==
    [][faults' = faults /\ ~misread /\ ~cut => Best' >= Best]_storeVars

\* A recovery that runs to its end makes use of what there is: the store starts
\* empty only when neither generation could have been restored.
EmptyOnlyWithoutSnapshot ==
    [][phase = "connect" /\ db = Absent /\ db' = 0 /\ ~misread /\ ~cut
          => ~Healthy(snapshot) /\ ~Healthy(prev)]_storeVars

\* What two generations are for: one disk fault, on whichever file and between
\* whichever kills and failed rotations, never costs more than what was written
\* after the last snapshot.  The excluded misreadings and cut recoveries aside, it
\* takes a second fault: the first may be on the current snapshot, which rotation
\* moves down unread, over an older one that is sound.
OneFaultLosesOnlyTheUnsaved == faults <= 1 /\ ~misread /\ ~cut => Best >= kept

\* "the newest healthy snapshot is put in its place; if no snapshot survives,
\* the store starts empty": and only then, however the recovery went.
SnapshotIsPutInPlace ==
    [][phase = "connect" /\ db = Absent /\ db' = 0 /\ ~misread
          => ~Healthy(snapshot) /\ ~Healthy(prev)]_storeVars
===============================================================================
