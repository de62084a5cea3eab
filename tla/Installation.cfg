\* Two files are what it takes to have half of them; two writes after the first
\* installation, an edit and a deploy to be of two ages.  Of three archives one
\* is more than is kept.
SPECIFICATION Spec
CONSTANTS
    core = core
    tools = tools
    Files <- TwoFiles
    MaxTime = 2
    BACKUP_KEEP = 1
    MaxArchives = 3
SYMMETRY Alike
INVARIANTS
    StampIsTrueOrAdmitsIt
    ArchiveTracesBack
PROPERTY AGoodArchiveStays
CHECK_DEADLOCK FALSE
