---------------------------- MODULE ScriptProofs ----------------------------
(***************************************************************************)
(* What is claimed of the shell scripts, proved for every value of the     *)
(* constants: of Deploy and Backup, for any files, any number of deploys,  *)
(* edits and nightly archives; of Watcher, a lock claimed by test and then *)
(* write, for any pids, any jobs and any number of kills and spells.       *)
(***************************************************************************)
EXTENDS Backup, Watcher, SequenceTheorems, FiniteSetTheorems, TLAPS

-----------------------------------------------------------------------------
(***************************************************************************)
(* deploy.sh and backup.sh: Deploy and Backup.                             *)
(***************************************************************************)

-----------------------------------------------------------------------------
(* The inductive invariant.                                                *)

\* A file of a tree is the one committed, or was written after s was made.
OrNewer(file, f, s) == file = s.commit[f] \/ file > s.built
Since(files, s) == \A f \in Files : OrNewer(files[f], f, s)

Shipping == step \in {"copy", "extract", "server tests"}
Extracting == step \in {"extract", "server tests"}

\* Whatever is, or is about to be, on the server was committed or is newer.
From(s) == s # NoStamp => /\ Since(tree, s) /\ Since(installed, s)
                          /\ Shipping => Since(shipped, s)

\* The deploy under way: everything since its stamp was planned.
PlanHolds ==
    /\ step # "idle" => Since(tree, plan)
    /\ Shipping => Since(shipped, plan)
    /\ Extracting => /\ \A f \in Files \ todo : OrNewer(installed[f], f, plan)
                     /\ ~service.up
    /\ step = "server tests" => todo = {}

\* The archive under way: what has been read of it, since its manifest was.
TakenHolds ==
    /\ job = "idle" => taken = Nothing
    /\ manifest # NoStamp =>
          \A f \in Files \cap DOMAIN taken :
              taken[f] \in 0..MaxTime /\ OrNewer(taken[f], f, manifest)

LastIsOpen == job = "tar" => archives # <<>> /\ archives[Len(archives)] = FALSE

\* No stamp is of a moment to come.
OfThePast == \A s \in {stamp, manifest, plan} : s.built \in Nat /\ s.built <= now

InstallationInv ==
    /\ TypeOK /\ LastIsOpen /\ OfThePast
    /\ From(stamp) /\ From(manifest)
    /\ PlanHolds /\ TakenHolds /\ StampIsTrueOrAdmitsIt

\* The first n of a sequence.
LEMMA Prefix ==
    ASSUME NEW S, NEW s \in Seq(S), NEW n \in Nat, n <= Len(s)
    PROVE  /\ SubSeq(s, 1, n) \in Seq(S)
           /\ Len(SubSeq(s, 1, n)) = n
           /\ \A i \in 1..n : SubSeq(s, 1, n)[i] = s[i]
<1>1. SubSeq(s, 1, n) \in Seq(S) OBVIOUS
<1>2. Len(SubSeq(s, 1, n)) = n OBVIOUS
<1>3. \A i \in 1..n : SubSeq(s, 1, n)[i] = s[i] OBVIOUS
<1> QED BY <1>1, <1>2, <1>3

\* The last of a sequence written anew.
LEMMA Replaced ==
    ASSUME NEW S, NEW s \in Seq(S), s # <<>>, NEW e \in S
    PROVE  LET w == Append(Front(s), e) IN
           /\ w \in Seq(S) /\ Len(w) = Len(s) /\ w[Len(s)] = e
           /\ \A i \in 1..(Len(s) - 1) : w[i] = s[i]
<1>1. Len(s) - 1 \in Nat /\ Len(s) - 1 <= Len(s) /\ Len(s) \in Nat
  OBVIOUS
<1>2. /\ Front(s) \in Seq(S) /\ Len(Front(s)) = Len(s) - 1
      /\ \A i \in 1..(Len(s) - 1) : Front(s)[i] = s[i]
  BY <1>1, Prefix DEF Front
<1> QED BY <1>1, <1>2

\* The last k of a sequence: what rotation keeps.
LEMMA Newest ==
    ASSUME NEW S, NEW s \in Seq(S), NEW k \in Nat \ {0}, Len(s) > k
    PROVE  LET w == SubSeq(s, Len(s) - k + 1, Len(s)) IN
           w \in Seq(S) /\ Len(w) = k /\ w[k] = s[Len(s)]
<1>1. SubSeq(s, Len(s) - k + 1, Len(s)) \in Seq(S) OBVIOUS
<1>2. Len(SubSeq(s, Len(s) - k + 1, Len(s))) = k OBVIOUS
<1>3. SubSeq(s, Len(s) - k + 1, Len(s))[k] = s[Len(s)] OBVIOUS
<1> QED BY <1>1, <1>2, <1>3

\* One more at the end.
LEMMA OneMore ==
    ASSUME NEW S, NEW s \in Seq(S), NEW e \in S
    PROVE  LET w == Append(s, e) IN
           w \in Seq(S) /\ Len(w) = Len(s) + 1 /\ w[Len(s) + 1] = e /\ w # <<>>
  OBVIOUS

USE DeployAssumption

\* The first installation is in range.
LEMMA InitTyped == Init => TypeOK
<1> SUFFICES ASSUME Init PROVE TypeOK
  OBVIOUS
<1>1. First \in Trees /\ FirstStamp \in [commit : Trees, built : 0..MaxTime]
  BY DEF First, FirstStamp, Trees
<1>2. DeployTypeOK
  BY <1>1 DEF Init, DeployInit, DeployTypeOK, Stamps
<1>3. archives \in Seq(BOOLEAN) /\ Len(archives) <= MaxArchives
  BY BackupAssumption DEF Init
<1> QED BY <1>2, <1>3 DEF Init, TypeOK, Stamps, Nothing

\* Every step of the people and of the deploy keeps the range of every variable.
LEMMA DeployTyped == DeployTypeOK /\ [DeployNext]_deploy => DeployTypeOK'
<1> SUFFICES ASSUME DeployTypeOK, [DeployNext]_deploy PROVE DeployTypeOK'
  OBVIOUS
<1>a. NoStamp \in Stamps /\ plan \in Stamps
  BY DEF DeployTypeOK, Stamps
<1>b. First \in Trees /\ FirstStamp \in [commit : Trees, built : 0..MaxTime]
  BY DEF First, FirstStamp, Trees
<1>c. Tick => now' \in 0..MaxTime
  <2>1. now \in 0..MaxTime BY DEF DeployTypeOK
  <2> QED BY <2>1 DEF Tick
<1>d. ASSUME NEW t \in Trees, NEW f \in Files, NEW m \in 0..MaxTime
       PROVE  [t EXCEPT ![f] = m] \in Trees
  BY DEF Trees
<1> USE DEF DeployTypeOK
<1>1. ASSUME NEW f \in Files, Edit(f) PROVE DeployTypeOK' BY <1>1, <1>c, <1>d DEF Edit, Tick
<1>2. ASSUME NEW f \in Files, EditServer(f) PROVE DeployTypeOK' BY <1>2, <1>c, <1>d DEF EditServer, Tick
<1>3. ASSUME NEW f \in Files, Extract(f) PROVE DeployTypeOK' BY <1>3 DEF Extract, Trees
<1>4. CASE Commit BY <1>4 DEF Commit
<1>5. CASE Restart BY <1>5 DEF Restart, Start, Drifted
<1>6. CASE Check BY <1>6 DEF Check, Local
<1>7. CASE Archive BY <1>7 DEF Archive, Local
<1>8. CASE Stop BY <1>8 DEF Stop
<1>9. CASE Stamp BY <1>9, <1>a DEF Stamp
<1>10. CASE StartService BY <1>10, <1>b DEF StartService, Start, End, Drifted
<1>11. CASE Fail
  <2>1. \/ UNCHANGED <<now, installed>>
        \/ Tick /\ \E f \in todo : installed' = [installed EXCEPT ![f] = now']
    BY <1>11 DEF Fail
  <2>a. now' \in 0..MaxTime
    BY <2>1, <1>c
  <2>b. installed' \in Trees
    <3>1. CASE UNCHANGED installed BY <3>1
    <3>2. ASSUME NEW f \in Files, installed' = [installed EXCEPT ![f] = now']
          PROVE  installed' \in Trees
      BY <3>2, <2>a, <1>d
    <3> QED BY <2>1, <3>1, <3>2
  <2>3. stamp' \in Stamps
    BY <1>11, <1>a DEF Fail
  <2> QED BY <1>11, <1>b, <2>a, <2>b, <2>3 DEF Fail, End
<1>12. CASE UNCHANGED deploy BY <1>12 DEF deploy
<1> QED
  BY <1>1, <1>2, <1>3, <1>4, <1>5, <1>6, <1>7, <1>8, <1>9, <1>10, <1>11, <1>12 DEF DeployNext

\* So does every step of the nightly job, the archives aside.
LEMMA BackupTyped ==
    TypeOK /\ BackupNext => /\ manifest' \in Stamps
                            /\ DOMAIN taken' \subseteq Files \cup {VERSION}
                            /\ job' \in {"idle", "tar"}
  BY DEF TypeOK, DeployTypeOK, BackupNext, Manifest, Read, Verify, JobFails, Nothing, Stamps

\* Verification rotates only when the newest archive is good, and otherwise drops none:
\* if one was good before, one is after.  The newest was the one being written, so it
\* was not the good one.
LEMMA VerifyEffect ==
    ASSUME TypeOK, LastIsOpen, Verify
    PROVE  /\ archives' \in Seq(BOOLEAN) /\ Len(archives') <= MaxArchives
           /\ \A i \in 1..Len(archives) :
                  archives[i] = TRUE => \E j \in 1..Len(archives') : archives'[j] = TRUE
<1>1. archives \in Seq(BOOLEAN) /\ archives # <<>> /\ archives[Len(archives)] = FALSE
      /\ Len(archives) <= MaxArchives
  BY DEF Verify, LastIsOpen, TypeOK
<1>2. PICK r \in BOOLEAN :
         LET w == Append(Front(archives), r) IN
         archives' = IF r /\ Len(w) > BACKUP_KEEP
                     THEN SubSeq(w, Len(w) - BACKUP_KEEP + 1, Len(w)) ELSE w
  BY DEF Verify
<1> DEFINE w == Append(Front(archives), r)
<1>3. /\ w \in Seq(BOOLEAN) /\ Len(w) = Len(archives) /\ w[Len(archives)] = r
      /\ \A i \in 1..(Len(archives) - 1) : w[i] = archives[i]
  BY <1>1, Replaced
<1>4. Len(archives) \in Nat /\ Len(archives) > 0
  BY <1>1
<1> HIDE DEF w
<1>5. CASE r = TRUE /\ Len(w) > BACKUP_KEEP
  <2>1. archives' = SubSeq(w, Len(w) - BACKUP_KEEP + 1, Len(w))
    BY <1>2, <1>5 DEF w
  <2>2. archives' \in Seq(BOOLEAN) /\ Len(archives') = BACKUP_KEEP /\ archives'[BACKUP_KEEP] = TRUE
    BY <2>1, <1>3, <1>5, Newest, BackupAssumption
  <2> QED BY <2>2, <1>1, <1>3, <1>4, <1>5, BackupAssumption
<1>6. CASE ~(r = TRUE /\ Len(w) > BACKUP_KEEP)
  <2>1. archives' = w
    BY <1>2, <1>6 DEF w
  <2> QED BY <2>1, <1>1, <1>3, <1>4
<1> QED BY <1>5, <1>6

\* The archives stay within their bound, and one being written is the newest.
LEMMA ArchivesTyped ==
    ASSUME TypeOK, LastIsOpen, BackupNext
    PROVE  archives' \in Seq(BOOLEAN) /\ Len(archives') <= MaxArchives /\ LastIsOpen'
<1>1. CASE Manifest
  <2>1. archives \in Seq(BOOLEAN) /\ archives' = Append(archives, FALSE)
        /\ Len(archives) < MaxArchives
    BY <1>1 DEF Manifest, TypeOK
  <2>2. /\ archives' \in Seq(BOOLEAN) /\ Len(archives') = Len(archives) + 1
        /\ archives'[Len(archives) + 1] = FALSE /\ archives' # <<>>
    BY <2>1, OneMore, FALSE \in BOOLEAN
  <2>3. Len(archives) \in Nat
    BY <2>1
  <2>4. Len(archives') <= MaxArchives
    BY <2>1, <2>2, <2>3, BackupAssumption
  <2> QED BY <2>2, <2>4 DEF LastIsOpen
<1>2. ASSUME NEW entry \in Files \cup {VERSION}, Read(entry)
      PROVE  archives' = archives /\ job' = job
  BY <1>2 DEF Read
<1>3. CASE Verify
  BY <1>3, VerifyEffect DEF Verify, LastIsOpen
<1>4. CASE JobFails BY <1>4 DEF JobFails, TypeOK, LastIsOpen
<1> QED BY <1>1, <1>2, <1>3, <1>4 DEF BackupNext, TypeOK, LastIsOpen

\* Every step keeps every variable in its range.
LEMMA StepTyped == TypeOK /\ LastIsOpen /\ [Next]_vars => TypeOK' /\ LastIsOpen'
<1> SUFFICES ASSUME TypeOK, LastIsOpen, [Next]_vars PROVE TypeOK' /\ LastIsOpen'
  OBVIOUS
<1>1. CASE BackupNext
  <2>1. UNCHANGED deploy
    BY <1>1 DEF BackupNext, Manifest, Read, Verify, JobFails
  <2>2. DeployTypeOK'
    BY <2>1, DeployTyped DEF TypeOK
  <2> QED BY <1>1, <2>2, BackupTyped, ArchivesTyped DEF TypeOK
<1>2. CASE [DeployNext]_deploy /\ UNCHANGED backup
  BY <1>2, DeployTyped DEF TypeOK, LastIsOpen, backup
<1> QED BY <1>1, <1>2 DEF Next, vars

-----------------------------------------------------------------------------
(* The invariant, step by step.                                            *)

\* A file written after a stamp was made leaves the rest as it was.
LEMMA WrittenSince ==
    ASSUME NEW s, NEW files \in Trees, NEW g \in Files, NEW m, m > s.built, Since(files, s)
    PROVE  Since([files EXCEPT ![g] = m], s)
<1> SUFFICES ASSUME NEW f \in Files PROVE OrNewer([files EXCEPT ![g] = m][f], f, s)
  BY DEF Since
<1>1. CASE f = g
  <2>1. [files EXCEPT ![g] = m][f] = m BY <1>1 DEF Trees
  <2> QED BY <2>1 DEF OrNewer
<1>2. CASE f # g
  <2>1. [files EXCEPT ![g] = m][f] = files[f] BY <1>2 DEF Trees
  <2> QED BY <2>1 DEF Since
<1> QED BY <1>1, <1>2

\* Whatever the people and the deploy do, what is of a stamp or newer remains so.
LEMMA FromKept ==
    ASSUME DeployTypeOK, NEW s \in Stamps, s.built \in Nat, s.built <= now, From(s), DeployNext
    PROVE  From(s)'
<1> SUFFICES ASSUME s # NoStamp PROVE From(s)'
  BY DEF From
<1>a. /\ Since(tree, s) /\ Since(installed, s) /\ Shipping => Since(shipped, s)
      /\ tree \in Trees /\ installed \in Trees /\ todo \subseteq Files
  BY DEF From, DeployTypeOK
<1>b. Tick => now' > s.built
  <2>1. now \in 0..MaxTime BY DEF DeployTypeOK
  <2>2. now \in Nat BY <2>1
  <2> QED BY <2>2 DEF Tick
<1> USE <1>a, <1>b, WrittenSince DEF From, Shipping
<1>1. ASSUME NEW f \in Files, Edit(f) PROVE From(s)'
  BY <1>1 DEF Edit
<1>2. ASSUME NEW f \in Files, EditServer(f) PROVE From(s)'
  BY <1>2 DEF EditServer
<1>3. ASSUME NEW f \in Files, Extract(f) PROVE From(s)'
  BY <1>3 DEF Extract, Since, Trees
<1>4. CASE Commit BY <1>4 DEF Commit
<1>5. CASE Restart BY <1>5 DEF Restart
<1>6. CASE Check BY <1>6 DEF Check, Local
<1>7. CASE Archive BY <1>7 DEF Archive, Local
<1>8. CASE Stop BY <1>8 DEF Stop
<1>9. CASE Stamp BY <1>9 DEF Stamp
<1>10. CASE StartService BY <1>10 DEF StartService, End
<1>11. CASE Fail
  <2>1. UNCHANGED tree /\ ~Shipping'
    BY <1>11 DEF Fail, End
  <2>2. CASE UNCHANGED installed
    BY <2>1, <2>2
  <2>3. ASSUME NEW f \in todo, Tick, installed' = [installed EXCEPT ![f] = now']
        PROVE  From(s)'
    BY <2>1, <2>3
  <2> QED BY <1>11, <2>2, <2>3 DEF Fail
<1> QED
  BY <1>1, <1>2, <1>3, <1>4, <1>5, <1>6, <1>7, <1>8, <1>9, <1>10, <1>11 DEF DeployNext

\* A stamp is planned now and the clock only goes on.
LEMMA PastKept == TypeOK /\ OfThePast /\ [Next]_vars => OfThePast'
<1> SUFFICES ASSUME TypeOK, OfThePast, [Next]_vars PROVE OfThePast'
  OBVIOUS
<1>1. now \in Nat /\ now' \in Nat /\ now <= now'
  <2>1. now \in 0..MaxTime
    BY DEF TypeOK, DeployTypeOK
  <2>2. now' = now \/ now' = now + 1
    BY DEF Next, vars, deploy, BackupNext, Manifest, Read, Verify, JobFails, DeployNext, Edit,
           EditServer, Extract, Commit, Restart, Check, Archive, Stop, Stamp, StartService,
           Fail, Tick, Local
  <2> QED BY <2>1, <2>2
<1>2. stamp' \in {stamp, plan, NoStamp}
  BY DEF Next, vars, deploy, BackupNext, Manifest, Read, Verify, JobFails, DeployNext, Edit,
         EditServer, Extract, Commit, Restart, Check, Archive, Stop, Stamp, StartService,
         Fail, Local
<1>3. manifest' \in {manifest, stamp, NoStamp}
  BY DEF Next, vars, backup, BackupNext, Manifest, Read, Verify, JobFails
<1>4. plan' \in {plan, FirstStamp, [commit |-> head, built |-> now]}
  BY DEF Next, vars, deploy, BackupNext, Manifest, Read, Verify, JobFails, DeployNext, Edit,
         EditServer, Extract, Commit, Restart, Check, Archive, Stop, Stamp, StartService,
         Fail, End, Local
<1>5. \A s \in {stamp, manifest, plan, NoStamp, FirstStamp, [commit |-> head, built |-> now]} :
         s.built \in Nat /\ s.built <= now
  BY <1>1 DEF OfThePast, NoStamp, FirstStamp
<1>6. \A s \in {stamp', manifest', plan'} : s.built \in Nat /\ s.built <= now
  BY <1>2, <1>3, <1>4, <1>5
<1> QED BY <1>1, <1>6 DEF OfThePast

\* A stamp is written when the files of its archive are all there.
LEMMA StampKept ==
    TypeOK /\ OfThePast /\ From(stamp) /\ PlanHolds /\ DeployNext => From(stamp)'
<1> SUFFICES ASSUME TypeOK, OfThePast, From(stamp), PlanHolds, DeployNext PROVE From(stamp)'
  OBVIOUS
<1>1. CASE UNCHANGED stamp
  <2>1. PICK s \in Stamps : s = stamp
    BY DEF TypeOK, DeployTypeOK
  <2>2. From(s)'
    BY <2>1, FromKept DEF TypeOK, OfThePast, From
  <2> QED BY <2>1, <2>2, <1>1 DEF From
<1>2. CASE Stamp
  <2>1. Since(tree, plan) /\ Since(shipped, plan) /\ Since(installed, plan)
    BY <1>2 DEF Stamp, PlanHolds, Shipping, Extracting, Since
  <2> QED BY <2>1, <1>2 DEF Stamp, From
<1>3. CASE stamp' = NoStamp
  BY <1>3 DEF From
<1> QED
  BY <1>1, <1>2, <1>3
     DEF DeployNext, Edit, EditServer, Extract, Commit, Restart, Check, Archive, Stop,
         StartService, Fail, Local

\* The manifest copies the stamp; a later stamp takes nothing away from what was true of it.
LEMMA ManifestKept ==
    TypeOK /\ OfThePast /\ From(stamp) /\ From(manifest) /\ [Next]_vars => From(manifest)'
<1> SUFFICES ASSUME TypeOK, OfThePast, From(stamp), From(manifest), [Next]_vars
             PROVE  From(manifest)'
  OBVIOUS
<1>1. CASE DeployNext /\ UNCHANGED backup
  <2>1. PICK s \in Stamps : s = manifest
    BY DEF TypeOK
  <2>2. From(s)'
    BY <1>1, <2>1, FromKept DEF TypeOK, OfThePast, From
  <2> QED BY <2>1, <2>2, <1>1 DEF From, backup
<1>2. CASE UNCHANGED deploy /\ manifest' \in {manifest, stamp, NoStamp}
  <2> USE DEF From, deploy, Shipping, Since, OrNewer
  <2>1. CASE manifest' = manifest BY <1>2, <2>1
  <2>2. CASE manifest' = stamp BY <1>2, <2>2
  <2>3. CASE manifest' = NoStamp BY <2>3
  <2> QED BY <1>2, <2>1, <2>2, <2>3
<1>3. CASE BackupNext
  <2>1. UNCHANGED deploy /\ manifest' \in {manifest, stamp, NoStamp}
    BY <1>3 DEF BackupNext, Manifest, Read, Verify, JobFails
  <2> QED BY <2>1, <1>2
<1>4. CASE UNCHANGED vars
  BY <1>2, <1>4 DEF vars, backup
<1> QED BY <1>1, <1>3, <1>4 DEF Next

\* From the clean-tree check on, the archive and then the server have what was
\* committed or what has been written since the check.
LEMMA PlanKept == TypeOK /\ OfThePast /\ PlanHolds /\ DeployNext => PlanHolds'
<1> SUFFICES ASSUME TypeOK, OfThePast, PlanHolds, DeployNext PROVE PlanHolds'
  OBVIOUS
<1>a. /\ step # "idle" => Since(tree, plan)
      /\ Shipping => Since(shipped, plan)
      /\ Extracting => /\ \A f \in Files \ todo : OrNewer(installed[f], f, plan)
                       /\ ~service.up
      /\ step = "server tests" => todo = {}
  BY DEF PlanHolds
<1>b. /\ tree \in Trees /\ installed \in Trees /\ shipped \in Trees /\ todo \subseteq Files
       /\ service \in [up : BOOLEAN, code : Trees, drifted : BOOLEAN]
  BY DEF TypeOK, DeployTypeOK
<1>c. Tick => now' > plan.built
  <2>1. now \in 0..MaxTime BY DEF TypeOK, DeployTypeOK
  <2>2. now \in Nat BY <2>1
  <2> QED BY <2>2 DEF Tick, OfThePast
<1> USE <1>a, <1>b, <1>c DEF PlanHolds, Shipping, Extracting
<1>1. ASSUME NEW f \in Files, Edit(f) PROVE PlanHolds'
  BY <1>1, WrittenSince DEF Edit
<1>2. ASSUME NEW f \in Files, EditServer(f) PROVE PlanHolds'
  BY <1>2 DEF EditServer, OrNewer, Trees
<1>3. ASSUME NEW f \in Files, Extract(f) PROVE PlanHolds'
  BY <1>3 DEF Extract, Since, Trees
<1>4. CASE Commit BY <1>4 DEF Commit
<1>5. CASE Restart BY <1>5 DEF Restart
<1>6. CASE Check BY <1>6 DEF Check, Local, Since, OrNewer
<1>7. CASE Archive BY <1>7 DEF Archive, Local
<1>8. CASE Stop BY <1>8 DEF Stop
<1>9. CASE Stamp BY <1>9 DEF Stamp
<1>10. CASE StartService BY <1>10 DEF StartService, End
<1>11. CASE Fail BY <1>11 DEF Fail, End
<1> QED
  BY <1>1, <1>2, <1>3, <1>4, <1>5, <1>6, <1>7, <1>8, <1>9, <1>10, <1>11 DEF DeployNext

\* The service loads what is there, and finds every file that is not the stamp's.
LEMMA TruthKept ==
    TypeOK /\ From(stamp) /\ PlanHolds /\ StampIsTrueOrAdmitsIt /\ DeployNext
        => StampIsTrueOrAdmitsIt'
<1> SUFFICES ASSUME TypeOK, From(stamp), PlanHolds, StampIsTrueOrAdmitsIt, DeployNext
             PROVE  StampIsTrueOrAdmitsIt'
  OBVIOUS
<1>1. ASSUME Start, UNCHANGED stamp PROVE StampIsTrueOrAdmitsIt'
  <2> SUFFICES ASSUME ~Drifted, stamp # NoStamp PROVE installed = stamp.commit
    BY <1>1 DEF Start, StampIsTrueOrAdmitsIt
  <2>1. \A f \in Files : ~(installed[f] > stamp.built)
    BY DEF Drifted
  <2>2. \A f \in Files : installed[f] = stamp.commit[f]
    BY <2>1 DEF From, Since, OrNewer
  <2>3. installed \in Trees /\ stamp.commit \in Trees
    BY DEF TypeOK, DeployTypeOK, Stamps
  <2> QED BY <2>2, <2>3 DEF Trees
<1>2. CASE Stamp
  BY <1>2 DEF Stamp, StampIsTrueOrAdmitsIt, PlanHolds, Extracting
<1>3. CASE Stop
  BY <1>3 DEF Stop, StampIsTrueOrAdmitsIt, TypeOK, DeployTypeOK
<1>4. ASSUME UNCHANGED service, stamp' \in {stamp, NoStamp} PROVE StampIsTrueOrAdmitsIt'
  BY <1>4 DEF StampIsTrueOrAdmitsIt
<1> QED
  BY <1>1, <1>2, <1>3, <1>4
     DEF DeployNext, Edit, EditServer, Extract, Commit, Restart, Check, Archive,
         StartService, Fail, Local

\* The archive reads what is there, whenever tar comes to it.
LEMMA TakenKept ==
    TypeOK /\ From(stamp) /\ From(manifest) /\ TakenHolds /\ [Next]_vars => TakenHolds'
<1> SUFFICES ASSUME TypeOK, From(stamp), From(manifest), TakenHolds, [Next]_vars
             PROVE  TakenHolds'
  OBVIOUS
<1>1. ASSUME NEW entry \in Files \cup {VERSION}, Read(entry) PROVE TakenHolds'
  <2>0. job' = "tar" /\ UNCHANGED manifest
    BY <1>1 DEF Read
  <2> SUFFICES ASSUME manifest # NoStamp, NEW f \in Files, f \in DOMAIN taken'
               PROVE  taken'[f] \in 0..MaxTime /\ OrNewer(taken'[f], f, manifest)
    BY <2>0 DEF TakenHolds
  <2>1. CASE f \in DOMAIN taken
    BY <1>1, <2>1 DEF Read, TakenHolds
  <2>2. CASE f \notin DOMAIN taken
    <3>1. taken'[f] = installed[f]
      BY <1>1, <2>2, BackupAssumption DEF Read
    <3>2. installed[f] \in 0..MaxTime
      BY DEF TypeOK, DeployTypeOK, Trees
    <3> QED BY <3>1, <3>2 DEF From, Since
  <2> QED BY <2>1, <2>2
<1>2. CASE UNCHANGED <<job, manifest, taken>>
  BY <1>2 DEF TakenHolds
<1>3. CASE Manifest
  BY <1>3 DEF Manifest, TakenHolds, Nothing
<1>4. ASSUME manifest' = NoStamp, taken' = Nothing PROVE TakenHolds'
  BY <1>4 DEF TakenHolds
<1> QED BY <1>1, <1>2, <1>3, <1>4 DEF Next, vars, backup, BackupNext, Verify, JobFails

-----------------------------------------------------------------------------
\* Every reachable state satisfies the invariant.
THEOREM InstallationInvHolds == Spec => []InstallationInv
<1>1. Init => InstallationInv
  <2> SUFFICES ASSUME Init PROVE InstallationInv
    OBVIOUS
  <2>1. /\ stamp = FirstStamp /\ tree = First /\ installed = First /\ step = "idle"
        /\ plan = FirstStamp /\ manifest = NoStamp /\ job = "idle" /\ taken = Nothing
        /\ service = [up |-> TRUE, code |-> First, drifted |-> FALSE] /\ now = 0
    BY DEF Init, DeployInit
  <2>2. From(stamp) /\ From(manifest)
    BY <2>1 DEF From, Since, OrNewer, Shipping, FirstStamp
  <2>3. OfThePast
    BY <2>1 DEF OfThePast, FirstStamp, NoStamp
  <2>4. PlanHolds /\ TakenHolds /\ LastIsOpen /\ StampIsTrueOrAdmitsIt
    BY <2>1 DEF PlanHolds, Shipping, Extracting, TakenHolds, LastIsOpen,
                StampIsTrueOrAdmitsIt, FirstStamp
  <2> QED BY <2>2, <2>3, <2>4, InitTyped DEF InstallationInv
<1>2. InstallationInv /\ [Next]_vars => InstallationInv'
  <2> SUFFICES ASSUME InstallationInv, [Next]_vars PROVE InstallationInv'
    OBVIOUS
  <2>1. /\ TypeOK' /\ LastIsOpen' /\ OfThePast'
        /\ From(manifest)' /\ TakenHolds'
    BY StepTyped, PastKept, ManifestKept, TakenKept DEF InstallationInv
  <2>2. CASE DeployNext
    BY <2>1, <2>2, StampKept, PlanKept, TruthKept DEF InstallationInv
  <2>3. CASE UNCHANGED deploy
    <3>1. From(stamp)'
      BY <2>3 DEF InstallationInv, deploy, From, Since, OrNewer, Shipping
    <3>2. PlanHolds' /\ StampIsTrueOrAdmitsIt'
      BY <2>3 DEF InstallationInv, deploy, PlanHolds, Since, OrNewer, Shipping, Extracting,
                  StampIsTrueOrAdmitsIt
    <3> QED BY <2>1, <3>1, <3>2 DEF InstallationInv
  <2> QED
    BY <2>2, <2>3 DEF Next, vars, BackupNext, Manifest, Read, Verify, JobFails
<1> QED BY <1>1, <1>2, PTL DEF Spec

\* A running service is of the commit it names, names none, or has said that it no
\* longer is, wherever any deploy stopped.
THEOREM TheStampIsTrue == Spec => []StampIsTrueOrAdmitsIt
<1>1. InstallationInv => StampIsTrueOrAdmitsIt BY DEF InstallationInv
<1> QED BY <1>1, InstallationInvHolds, PTL

\* An archive whose manifest and stamp agree, and no file of which is newer than the
\* stamp, holds the files of its commit, though deploys were writing them meanwhile.
THEOREM ArchivesTraceBack == Spec => []ArchiveTracesBack
<1>1. InstallationInv => ArchiveTracesBack
  <2> SUFFICES ASSUME InstallationInv, DOMAIN taken = Files \cup {VERSION},
                      manifest = taken[VERSION], manifest # NoStamp,
                      NEW f \in Files, taken[f] <= manifest.built,
                      ~(taken[f] = manifest.commit[f])
               PROVE  FALSE
    BY DEF ArchiveTracesBack
  <2>1. taken[f] > manifest.built
    BY DEF InstallationInv, TakenHolds, OrNewer
  <2>2. taken[f] \in 0..MaxTime /\ manifest.built \in Nat
    BY DEF InstallationInv, TakenHolds, OfThePast
  <2> QED BY <2>1, <2>2
<1> QED BY <1>1, InstallationInvHolds, PTL

\* Once an archive can be read there always is one, however many are kept and however
\* many runs fail.
THEOREM GoodArchivesStay == Spec => AGoodArchiveStays
<1>1. InstallationInv /\ [Next]_vars =>
         ((\E i \in DOMAIN archives : archives[i]) => \E i \in DOMAIN archives' : archives'[i])
  <2> SUFFICES ASSUME InstallationInv, [Next]_vars, NEW i \in DOMAIN archives, archives[i]
               PROVE  \E j \in DOMAIN archives' : archives'[j]
    OBVIOUS
  <2>1. archives \in Seq(BOOLEAN) /\ archives[i] = TRUE
    BY DEF InstallationInv, TypeOK
  <2>2. CASE Verify
    <3>1. i \in 1..Len(archives)
      BY <2>1
    <3>2. archives' \in Seq(BOOLEAN) /\ \E j \in 1..Len(archives') : archives'[j] = TRUE
      BY <2>1, <2>2, <3>1, VerifyEffect DEF InstallationInv
    <3> QED BY <3>2
  <2>3. CASE Manifest
    BY <2>1, <2>3 DEF Manifest
  <2>4. CASE UNCHANGED archives
    BY <2>4
  <2> QED
    BY <2>2, <2>3, <2>4 DEF Next, vars, backup, BackupNext, Read, JobFails
<1> QED BY <1>1, InstallationInvHolds, PTL DEF Spec, AGoodArchiveStays

-----------------------------------------------------------------------------
(***************************************************************************)
(* watch-tasks.sh: Watcher.                                                *)
(***************************************************************************)

-----------------------------------------------------------------------------
(* The inductive invariant.                                                *)

AtTheDoor(w) == at[w] \in {"check", "claim"}

\* Whoever polls is named in the lock, and nobody has found the lock free
\* while somebody polls.
LockInv ==
    /\ \A v, w \in Watchers : AtTheDoor(v) /\ AtTheDoor(w) => v = w
    /\ \A w \in Polling : lock = w
    /\ \A w \in Watchers : at[w] = "claim" => Polling = {}

\* What has been announced has been recorded, and what is about to be has not
\* been announced.
NewsInv ==
    /\ \A j \in Jobs : woken[j] <= 1 /\ (woken[j] = 1 => j \in seen)
    /\ \A w \in Watchers : at[w] = "remember" => queued[w] \cap seen = {}
    /\ \A w \in Watchers : at[w] = "announce" =>
          queued[w] \subseteq seen /\ \A j \in queued[w] : woken[j] = 0

WatcherInv == /\ WatchTypeOK /\ trap \subseteq Polling
              /\ ~raced => LockInv /\ NewsInv

USE WatcherAssumption

\* Nobody has been armed yet.
LEMMA InitInv == WatchInit => WatcherInv
<1> SUFFICES ASSUME WatchInit PROVE WatcherInv
  OBVIOUS
<1>1. WatchTypeOK
  <2>1. at \in [Watchers -> Places] /\ queued \in [Watchers -> SUBSET Jobs]
    BY DEF WatchInit, Places
  <2>2. /\ kills \in 0..MaxKills /\ spell \in [Jobs -> 0..MaxSpells]
        /\ told \in [Jobs -> 0..MaxSpells] /\ woken \in [Jobs -> Nat]
    BY DEF WatchInit
  <2> QED BY <2>1, <2>2 DEF WatchInit, WatchTypeOK
<1>2. Polling = {} /\ trap = {} /\ LockInv
  BY DEF WatchInit, LockInv, Polling, AtTheDoor
<1>3. NewsInv
  BY DEF WatchInit, NewsInv
<1> QED BY <1>1, <1>2, <1>3 DEF WatcherInv

\* Every step keeps every variable in its range, and only those who poll have set
\* the trap.
LEMMA WatchStepTyped ==
    WatchTypeOK /\ trap \subseteq Polling /\ [WatchNext]_watchVars => WatchTypeOK' /\ (trap \subseteq Polling)'
<1> SUFFICES ASSUME WatchTypeOK, trap \subseteq Polling, [WatchNext]_watchVars
             PROVE  WatchTypeOK' /\ (trap \subseteq Polling)'
  OBVIOUS
<1> USE DEF WatchTypeOK, Polling, Places, jobs, news, observed
<1>1. ASSUME NEW w \in Watchers, Arm(w) PROVE WatchTypeOK' /\ (trap \subseteq Polling)'
  BY <1>1 DEF Arm, Free, Goto
<1>2. ASSUME NEW w \in Watchers, CheckLock(w) PROVE WatchTypeOK' /\ (trap \subseteq Polling)'
  BY <1>2 DEF CheckLock, Goto, Exit
<1>3. ASSUME NEW w \in Watchers, Claim(w) PROVE WatchTypeOK' /\ (trap \subseteq Polling)'
  BY <1>3 DEF Claim, Goto
<1>4. ASSUME NEW w \in Watchers, List(w) PROVE WatchTypeOK' /\ (trap \subseteq Polling)'
  BY <1>4 DEF List, Goto
<1>5. ASSUME NEW w \in Watchers, Compare(w) PROVE WatchTypeOK' /\ (trap \subseteq Polling)'
  BY <1>5 DEF Compare, Goto
<1>6. ASSUME NEW w \in Watchers, Remember(w) PROVE WatchTypeOK' /\ (trap \subseteq Polling)'
  BY <1>6 DEF Remember, Goto
<1>7. ASSUME NEW w \in Watchers, Announce(w) PROVE WatchTypeOK' /\ (trap \subseteq Polling)'
  <2>1. woken' \in [Jobs -> Nat] /\ told' \in [Jobs -> 0..MaxSpells]
    BY <1>7 DEF Announce
  <2> QED BY <1>7, <2>1 DEF Announce, Goto, Exit
<1>8. ASSUME NEW w \in Watchers, GiveUp(w) PROVE WatchTypeOK' /\ (trap \subseteq Polling)'
  BY <1>8 DEF GiveUp, Goto, Exit
<1>9. ASSUME NEW w \in Watchers, KillWatcher(w) PROVE WatchTypeOK' /\ (trap \subseteq Polling)'
  <2>1. /\ kills' \in 0..MaxKills /\ dropped' \subseteq Jobs
        /\ UNCHANGED <<seen, due, jobs, told, woken, raced>>
    BY <1>9 DEF KillWatcher
  <2>2. CASE Exit(w)
    BY <2>1, <2>2 DEF Goto, Exit
  <2>3. CASE Goto(w, "killed") /\ trap' = trap \ {w} /\ UNCHANGED <<lock, queued, thief>>
    BY <2>1, <2>3 DEF Goto
  <2> QED BY <1>9, <2>2, <2>3 DEF KillWatcher
<1>10. ASSUME NEW j \in Jobs, Queue(j) PROVE WatchTypeOK' /\ (trap \subseteq Polling)'
  <2>1. spell' \in [Jobs -> 0..MaxSpells]
    BY <1>10 DEF Queue
  <2> QED BY <1>10, <2>1 DEF Queue
<1>11. ASSUME NEW j \in Jobs, Work(j) PROVE WatchTypeOK' /\ (trap \subseteq Polling)'
  BY <1>11 DEF Work
<1>12. CASE TakeTurn BY <1>12 DEF TakeTurn
<1>13. CASE UNCHANGED watchVars BY <1>13 DEF watchVars
<1> QED
  BY <1>1, <1>2, <1>3, <1>4, <1>5, <1>6, <1>7, <1>8, <1>9, <1>10, <1>11, <1>12, <1>13
     DEF WatchNext, WatcherStep

\* As long as no two have looked for the lock at once, the step keeps the lock true.
LEMMA StepKeepsLock ==
    WatchTypeOK /\ trap \subseteq Polling /\ ~raced' /\ LockInv /\ [WatchNext]_watchVars => LockInv'
<1> SUFFICES ASSUME WatchTypeOK, trap \subseteq Polling, ~raced', LockInv, [WatchNext]_watchVars
             PROVE  LockInv'
  OBVIOUS
<1> USE DEF WatchTypeOK, LockInv, Polling, AtTheDoor
<1>1. ASSUME NEW w \in Watchers, Arm(w) PROVE LockInv'
  BY <1>1 DEF Arm, Free, Goto
<1>2. ASSUME NEW w \in Watchers, CheckLock(w) PROVE LockInv'
  BY <1>2 DEF CheckLock, Goto, Exit, Locked, Alive
<1>3. ASSUME NEW w \in Watchers, Claim(w) PROVE LockInv'
  BY <1>3 DEF Claim, Goto
<1>4. ASSUME NEW w \in Watchers, Exit(w) PROVE LockInv'
  BY <1>4 DEF Exit, Goto
<1>5. ASSUME NEW w \in Watchers, List(w) PROVE LockInv'
  BY <1>5 DEF List, Goto
<1>6. ASSUME NEW w \in Watchers, Compare(w) PROVE LockInv'
  BY <1>6 DEF Compare, Goto
<1>7. ASSUME NEW w \in Watchers, Remember(w) PROVE LockInv'
  BY <1>7 DEF Remember, Goto
<1>8. ASSUME NEW w \in Watchers, KillWatcher(w) PROVE LockInv'
  BY <1>8, <1>4 DEF KillWatcher, Goto
<1>9. CASE UNCHANGED <<at, lock>> BY <1>9
<1> QED
  BY <1>1, <1>2, <1>3, <1>4, <1>5, <1>6, <1>7, <1>8, <1>9
     DEF WatchNext, WatcherStep, Announce, GiveUp, Queue, Work, TakeTurn, watchVars

\* One poller at a time, so nobody records or announces between its steps.
LEMMA StepKeepsNews ==
    WatchTypeOK /\ LockInv /\ NewsInv /\ [WatchNext]_watchVars => NewsInv'
<1> SUFFICES ASSUME WatchTypeOK, LockInv, NewsInv, [WatchNext]_watchVars PROVE NewsInv'
  OBVIOUS
<1>a. ASSUME NEW v \in Watchers, NEW w \in Watchers,
             at[v] \in {"remember", "announce"}, at[w] \in {"remember", "announce"}
      PROVE  v = w
  BY <1>a DEF LockInv, Polling
<1> USE DEF WatchTypeOK, NewsInv, jobs, news, observed
<1>1. ASSUME NEW w \in Watchers, Compare(w) PROVE NewsInv'
  BY <1>1 DEF Compare, Goto
<1>2. ASSUME NEW w \in Watchers, Remember(w) PROVE NewsInv'
  BY <1>2, <1>a DEF Remember, Goto
<1>3. ASSUME NEW w \in Watchers, Announce(w) PROVE NewsInv'
  BY <1>3, <1>a DEF Announce, Exit, Goto
<1>4. ASSUME NEW w \in Watchers, Exit(w), UNCHANGED <<seen, woken>> PROVE NewsInv'
  BY <1>4 DEF Exit, Goto
<1>5. ASSUME NEW w \in Watchers, NEW place \in {"check", "claim", "watch", "compare", "killed"},
             Goto(w, place), UNCHANGED <<seen, woken>>, \A v \in Watchers \ {w} : queued'[v] = queued[v]
      PROVE  NewsInv'
  BY <1>5 DEF Goto
<1>6. CASE UNCHANGED <<at, queued, seen, woken>> BY <1>6
<1> QED
  BY <1>1, <1>2, <1>3, <1>4, <1>5, <1>6
     DEF WatchNext, WatcherStep, Arm, CheckLock, Claim, List, GiveUp, KillWatcher, Queue, Work,
         TakeTurn, watchVars

\* Every reachable state satisfies the invariant, once two have raced vacuously so.
THEOREM WatcherInvHolds == WatchSpec => []WatcherInv
<1>1. WatcherInv /\ [WatchNext]_watchVars => WatcherInv'
  <2>1. raced /\ [WatchNext]_watchVars /\ WatchTypeOK => raced'
    BY DEF WatchTypeOK, WatchNext, WatcherStep, Arm, CheckLock, Claim, List, Compare, Remember, Announce,
           GiveUp, KillWatcher, Queue, Work, TakeTurn, watchVars, observed
  <2> QED BY <2>1, WatchStepTyped, StepKeepsLock, StepKeepsNews DEF WatcherInv
<1> QED BY <1>1, InitInv, PTL DEF WatchSpec

\* Unless two have looked for the lock at once, one watcher polls, whoever is killed
\* and wherever.
THEOREM OnePolls == WatchSpec => []OneWatcherPolls
<1>1. WatcherInv => OneWatcherPolls
  <2> SUFFICES ASSUME WatcherInv, ~raced PROVE Cardinality(Polling) <= 1
    BY DEF OneWatcherPolls
  <2>1. \A v, w \in Polling : v = w
    BY DEF WatcherInv, LockInv
  <2>2. CASE Polling = {}
    BY <2>2, FS_EmptySet
  <2>3. ASSUME NEW w \in Polling PROVE Cardinality(Polling) = 1
    <3>1. Polling = {w} BY <2>1
    <3> QED BY <3>1, FS_Singleton
  <2> QED BY <2>2, <2>3
<1> QED BY <1>1, WatcherInvHolds, PTL

\* Unless two have looked for the lock at once, no job wakes the session twice.
THEOREM NothingTwice == WatchSpec => []NothingIsAnnouncedTwice
<1>1. WatcherInv => NothingIsAnnouncedTwice
  BY DEF WatcherInv, NewsInv, NothingIsAnnouncedTwice
<1> QED BY <1>1, WatcherInvHolds, PTL
=============================================================================
