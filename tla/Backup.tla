-------------------------------- MODULE Backup --------------------------------
(***************************************************************************)
(* scripts/backup.sh over an installation that is being deployed to: the   *)
(* nightly job reads the stamp for its manifest, archives the directory    *)
(* file by file while deploy.sh may be writing it, verifies what it wrote  *)
(* and rotates.                                                            *)
(*                                                                         *)
(* An archive is there from the moment tar opens it.  Its name is a local  *)
(* time; names are taken to be in the order of the runs.                   *)
(***************************************************************************)
EXTENDS Deploy, Sequences, SequencesExt

CONSTANTS BACKUP_KEEP,
          MaxArchives   \* bound: archives at the destination

VERSION == "VERSION"

ASSUME BackupAssumption ==
    /\ BACKUP_KEEP \in Nat \ {0} /\ MaxArchives \in Nat
    /\ VERSION \notin Files

VARIABLES
  job,       \* where the nightly job is
  manifest,  \* "git commit" of MANIFEST.txt
  taken,     \* what tar has read so far
  archives   \* at the destination, oldest first: whether each can be read

backup == <<job, manifest, taken, archives>>
vars == <<deploy, backup>>

Nothing == [entry \in {} |-> 0]

Init == /\ DeployInit
        /\ job = "idle" /\ manifest = NoStamp /\ taken = Nothing
        /\ archives = <<>>

-----------------------------------------------------------------------------
\* The stamp is read for the manifest.
Manifest == /\ job = "idle" /\ Len(archives) < MaxArchives
            /\ manifest' = stamp
            /\ job' = "tar" /\ archives' = Append(archives, FALSE)
            /\ UNCHANGED <<deploy, taken>>

\* tar reads one more entry, in the order the directory has them.
Read(entry) ==
    /\ job = "tar" /\ entry \notin DOMAIN taken
    /\ taken' = [e \in DOMAIN taken \cup {entry} |->
                    IF e \in DOMAIN taken THEN taken[e]
                    ELSE IF e = VERSION THEN stamp ELSE installed[e]]
    /\ UNCHANGED <<deploy, job, manifest, archives>>

\* A slip: rotation before the archive has been read back.
RotateFirst ==
    /\ job = "tar" /\ DOMAIN taken = Files \cup {VERSION}
    /\ \E readable \in BOOLEAN :
          archives' = LET written == Append(Front(archives), readable) IN
                      IF Len(written) > BACKUP_KEEP
                      THEN SubSeq(written, Len(written) - BACKUP_KEEP + 1, Len(written))
                      ELSE written
    /\ job' = "idle" /\ taken' = Nothing /\ manifest' = NoStamp
    /\ UNCHANGED deploy

\* The archive is read back: if it can be, the newest BACKUP_KEEP names stay.
Verify ==
    /\ job = "tar" /\ DOMAIN taken = Files \cup {VERSION}
    /\ \E readable \in BOOLEAN :
          archives' = LET written == Append(Front(archives), readable) IN
                      IF readable /\ Len(written) > BACKUP_KEEP
                      THEN SubSeq(written, Len(written) - BACKUP_KEEP + 1, Len(written))
                      ELSE written
    /\ job' = "idle" /\ taken' = Nothing /\ manifest' = NoStamp
    /\ UNCHANGED deploy

\* tar fails, the disk is full, the job is killed: the file stays as it is.
JobFails ==
    /\ job = "tar"
    /\ job' = "idle" /\ taken' = Nothing /\ manifest' = NoStamp
    /\ UNCHANGED <<deploy, archives>>

BackupNext == \/ Manifest \/ Verify \/ JobFails
              \/ \E entry \in Files \cup {VERSION} : Read(entry)

Next == BackupNext \/ (DeployNext /\ UNCHANGED backup)

Spec == Init /\ [][Next]_vars

-----------------------------------------------------------------------------
TypeOK == /\ DeployTypeOK
          /\ manifest \in Stamps
          /\ DOMAIN taken \subseteq Files \cup {VERSION}
          /\ job \in {"idle", "tar"}
          /\ archives \in Seq(BOOLEAN) /\ Len(archives) <= MaxArchives

\* "A restored archive can always be traced back to a version": when the manifest
\* and the stamp inside agree and no file inside is newer than the stamp, the
\* files are those of the commit, though a deploy was writing them meanwhile.
ArchiveTracesBack ==
    DOMAIN taken = Files \cup {VERSION} =>
        LET inside == taken[VERSION] IN
        manifest = inside /\ inside # NoStamp /\ (\A f \in Files : taken[f] <= inside.built) =>
            \A f \in Files : taken[f] = inside.commit[f]

\* "Verify before rotating": once there is an archive that can be read there
\* always is one, however many runs have failed since.
AGoodArchiveStays ==
    [][(\E i \in DOMAIN archives : archives[i]) => \E i \in DOMAIN archives' : archives'[i]]_vars
===============================================================================
