-------------------------------- MODULE Deploy --------------------------------
(***************************************************************************)
(* scripts/deploy.sh from the developer's working tree to the installation *)
(* on the server, and what core/version.py makes of it when the service    *)
(* starts.                                                                 *)
(*                                                                         *)
(* A file is known by the moment it was last written, which is both its    *)
(* content and its modification time: tar keeps it.  Two writes are more   *)
(* than the second of slack of version.py apart, and the two machines have *)
(* one clock.  The developer writes at any moment, before, during and      *)
(* after; the deploy may fail or be cut off at any step.  The service may  *)
(* be started by hand, by systemd or by a reboot, though by nobody while   *)
(* the remote half of a deploy is at work.                                 *)
(***************************************************************************)
EXTENDS Naturals, FiniteSets

CONSTANTS Files,
          MaxTime   \* bound: writes, after the first installation

ASSUME DeployAssumption == MaxTime \in Nat

Trees == [Files -> 0..MaxTime]
NoStamp == [commit |-> <<>>, built |-> 0]
Stamps == [commit : Trees, built : 0..MaxTime] \cup {NoStamp}

VARIABLES
  now,
  tree,       \* the developer's files
  head,       \* what is committed, which stands for the commit's name
  step,       \* where the deploy is
  plan,       \* COMMIT and BUILT, while it runs
  shipped,    \* the archive, likewise
  todo,       \* what has not been extracted yet
  installed,  \* the files on the server
  stamp,      \* VERSION, there
  service     \* whether it runs, what it loaded, what it found at start-up

deploy == <<now, tree, head, step, plan, shipped, todo, installed, stamp, service>>

First == [f \in Files |-> 0]
FirstStamp == [commit |-> First, built |-> 0]

\* An installation that is what it says.
DeployInit ==
    /\ now = 0
    /\ tree = First /\ head = First
    /\ step = "idle" /\ plan = FirstStamp /\ shipped = First /\ todo = {}
    /\ installed = First /\ stamp = FirstStamp
    /\ service = [up |-> TRUE, code |-> First, drifted |-> FALSE]

-----------------------------------------------------------------------------
(* The people.                                                             *)

Tick == now < MaxTime /\ now' = now + 1

Edit(f) == /\ Tick /\ tree' = [tree EXCEPT ![f] = now']
           /\ UNCHANGED <<head, step, plan, shipped, todo, installed, stamp, service>>

Commit == /\ head' = tree
          /\ UNCHANGED <<now, tree, step, plan, shipped, todo, installed, stamp, service>>

\* One file copied onto the server by hand.
EditServer(f) == /\ Tick /\ installed' = [installed EXCEPT ![f] = now']
                 /\ UNCHANGED <<tree, head, step, plan, shipped, todo, stamp, service>>

-----------------------------------------------------------------------------
(* The service: core/version.py.                                           *)

\* modified_since_deploy(): the files newer than the stamp; none without one.
Drifted == stamp # NoStamp /\ \E f \in Files : installed[f] > stamp.built

\* The check is made once, at start-up, on the files that are then loaded; the
\* commit is read from the stamp whenever somebody asks.
Start == service' = [up |-> TRUE, code |-> installed, drifted |-> Drifted]

\* By hand, by systemd after a crash, by a reboot.
Restart == /\ step \notin {"extract", "server tests"}
           /\ Start
           /\ UNCHANGED <<now, tree, head, step, plan, shipped, todo, installed, stamp>>

-----------------------------------------------------------------------------
(* deploy.sh, on the developer's machine.                                  *)

Local == <<now, tree, head, installed, stamp, service>>

\* COMMIT, a clean tree, BUILT: three commands in a row, taken as one.
Check == /\ step = "idle" /\ tree = head
         /\ plan' = [commit |-> head, built |-> now]
         /\ step' = "tests"
         /\ UNCHANGED <<Local, shipped, todo>>

\* A slip: BUILT is when the archive is made.
ArchiveStamped == /\ step = "tests"
                  /\ shipped' = tree /\ plan' = [plan EXCEPT !.built = now]
                  /\ step' = "copy"
                  /\ UNCHANGED <<Local, todo>>

\* The tests have passed, and tar takes the tree as it is now.
Archive == /\ step = "tests"
           /\ shipped' = tree
           /\ step' = "copy"
           /\ UNCHANGED <<Local, plan, todo>>

-----------------------------------------------------------------------------
(* The remote half.                                                        *)

\* The archive is there, the safety copy taken, and the service stopped.
Stop == /\ step = "copy"
        /\ service' = [service EXCEPT !.up = FALSE]
        /\ todo' = Files /\ step' = "extract"
        /\ UNCHANGED <<now, tree, head, plan, shipped, installed, stamp>>

\* One file after the other; none is ever removed.
Extract(f) == /\ step = "extract" /\ f \in todo
              /\ installed' = [installed EXCEPT ![f] = shipped[f]]
              /\ todo' = todo \ {f}
              /\ UNCHANGED <<now, tree, head, step, plan, shipped, stamp, service>>

\* A slip: the stamp without waiting for the files.
StampAtOnce == /\ step = "extract"
               /\ stamp' = plan
               /\ step' = IF todo = {} THEN "server tests" ELSE "extract"
               /\ UNCHANGED <<now, tree, head, plan, shipped, todo, installed, service>>

\* "Written after extraction."
Stamp == /\ step = "extract" /\ todo = {}
         /\ stamp' = plan
         /\ step' = "server tests"
         /\ UNCHANGED <<now, tree, head, plan, shipped, todo, installed, service>>

\* What is left of a run of the script when it ends.
End == step' = "idle" /\ todo' = {} /\ plan' = FirstStamp /\ shipped' = First

\* The tests pass there too, and the service starts on what was extracted.
StartService == /\ step = "server tests"
                /\ Start /\ End
                /\ UNCHANGED <<now, tree, head, installed, stamp>>

\* Any step fails, or the script is cut off in the middle of it: a refusal, a
\* failing test, a copy that does not arrive, a file half extracted, which bears
\* the time it was begun, a stamp opened and not written.
Fail == /\ step # "idle"
        /\ End
        /\ \/ UNCHANGED <<now, installed, stamp>>
           \/ /\ Tick
              /\ \E f \in todo : installed' = [installed EXCEPT ![f] = now']
              /\ UNCHANGED stamp
           \/ /\ step = "extract" /\ todo = {}
              /\ stamp' = NoStamp
              /\ UNCHANGED <<now, installed>>
        /\ UNCHANGED <<tree, head, service>>

DeployNext == \/ \E f \in Files : Edit(f) \/ EditServer(f) \/ Extract(f)
              \/ Commit \/ Restart
              \/ Check \/ Archive \/ Stop \/ Stamp \/ StartService \/ Fail

-----------------------------------------------------------------------------
DeployTypeOK ==
    /\ now \in 0..MaxTime
    /\ tree \in Trees /\ head \in Trees /\ shipped \in Trees /\ installed \in Trees
    /\ step \in {"idle", "tests", "copy", "extract", "server tests"}
    /\ plan \in [commit : Trees, built : 0..MaxTime]
    /\ todo \subseteq Files
    /\ stamp \in Stamps
    /\ service \in [up : BOOLEAN, code : Trees, drifted : BOOLEAN]

\* A running service is of the commit it names, names none, or has said at
\* start-up that it no longer is: whatever was edited while the deploy was
\* checking, wherever it stopped, and whoever started the service after that.
StampIsTrueOrAdmitsIt ==
    service.up /\ ~service.drifted /\ stamp # NoStamp =>
        service.code = stamp.commit
===============================================================================
