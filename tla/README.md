# EMMA in TLA+

This directory specifies and verifies the logic of EMMA: a personal assistant
that answers on Telegram, remembers the conversation in SQLite, and commissions
work on her own code through a queue a developer works off over ssh. The
modules are translated from the Python and the shell of the repository; where a
comment or a document and the code disagree, the model follows the code and the
disagreement is named below.

1. [The system](#the-system) – components, state, interactions
2. [Modules](#modules) – which module models what, and how
3. [Runs](#runs) – what each checks, within which bounds
4. [Disagreements](#disagreements-between-the-code-and-what-it-says)
5. [Proofs](#proofs)
6. [Assumptions](#assumptions) and [what is left out](#what-is-not-modelled)
7. [Plan](#plan)

## The system

| component | state | operations | correct when |
|---|---|---|---|
| development queue, `core/tasks.py` | `tasks` rows, `dev_heartbeat` | create, answer, advance, finish, abandon, touch | a job is one side's to move, and that side has something to move on; an answer settles one question |
| development tools, `tools/development.py` | none of their own | commission, report, answer, drop a job from the chat | what they decide on is still true when they write |
| `scripts/task-queue.sh` | one process per ssh call | eight verbs, each after a heartbeat | the heartbeat covers the work; nothing the user said is wiped unread |
| tool switch, `tools/toolstate` | `tool_state` rows | `remove_tool`, `enable_tool` | removal takes two occasions an hour apart; no lock-out |
| router, `core/router.py` | the turn under way | the agentic loop, tool execution, memory | every call answered by id, what is off stays quiet, every turn ends, `handle` never raises |
| conversation memory, `core/memory.py` | `messages` rows, or a list | append, prune | the window starts with the user, pairs stay paired |
| snapshots and recovery, `core/memory.py` | four files | open, recover, snapshot, close | only disk faults lose history, and one loses nothing that was in a snapshot |
| model clients, `core/llm.py`, `core/retry.py` | one call; none between calls | the retry ladder; messages to and from two dialects | a rate limit is waited out or refused, rightly, and named as one; every request is well formed and says what the model said |
| Telegram adapter, `adapters/telegram.py` | one update | whitelist, send with retries, split | every chunk tried, what was delivered in its place; strangers get nothing |
| lifespan, `main.py` | what has been started | start-up, unwinding, shutdown | nothing stranded, users stop before what they use, also with a turn under way |
| facts, `tools/facts` | `facts` rows | remember, forget, render | bounded, none twice; a number stands for one fact; remembering displaces nothing |
| `scripts/watch-tasks.sh` | a lock file, a file of announced ids | poll, announce | one watcher, nothing announced twice, new jobs announced while turns are taken |
| `scripts/deploy.sh`, `core/version.py` | the installation and its `VERSION` stamp | check, archive, extract, stamp, start; drift | the service is what its stamp says, or admits that it is not |
| `scripts/backup.sh` | archives | manifest, tar, verify, rotate | an archive traces back to a commit; a readable one always stays |
| `scripts/queue-brief.sh` | a cache | print it | not modelled |

How they interact. A Telegram update runs one turn of the router at a time
(python-telegram-bot handles updates one by one). The turn reads the history,
gathers facts from context providers, calls the model, and runs the tools it
asks for; the tools read and write the stores. All the stores are tables of one
SQLite file in WAL mode. The developer's side is another program: each ssh call
runs `task-queue.sh`, which opens the same file with `sqlite3`, one statement
per run. On the developer's machine the hooks of a session start
`watch-tasks.sh`, which polls the queue over ssh and wakes the session. From the
same machine `deploy.sh` replaces the installation, which the nightly
`backup.sh` archives, on the server, at any moment.

What is hard: two programs writing one table with no protocol between them;
reads that a later write relies on; a set of tools that a tool can change under
the turn it runs in; an append in two transactions; recovery and rotation in
several renames; sends that time out and take effect later; a lock file claimed
by test and then write; start-up and shutdown that fail halfway or with a turn
under way; a transaction a failed write leaves open; an installation that is
written while it is read. `PROJECT.json`
lists each hazard at its line, with the properties that cover it or the reason
none does.

## Modules

`TaskQueue` implements `Handoff`, `History` implements `Window`. Components that
interact are composed: `Turn` extends `Facts`, `History` extends `Translation`,
`Delivery` extends `SplitMessage`, `Backup` extends `Deploy`, and `Service` runs
`Lifespan` and `ModelCall` side by side. The other modules are state machines of
their own. `Subsequence` is the one idea three of them share: a loop, or a list
comprehension, with a condition. Recursion is written as recursive functions
throughout (`Those`, `backoff_delay` and `remaining_backoff`, `Fitting`), so that
there can be proofs about it. The comment over a definition names the code it stands for; the map in
`PROJECT.json` gives the lines. Definitions introduced by "A slip" are plausible
bugs: each replaces the definition after it in a run that must then fail, which
shows that the property depends on the code. Each module has a `TypeOK`; `queue`
checks one, and the proofs establish those they rest on.

**Handoff** – what the queue promises, columns aside: a job is nobody's, the
developer's, the user's or closed; an answer needs a question standing.

**TaskQueue** – `core/tasks.py`, `tools/development.py` and
`scripts/task-queue.sh` together. One SQL statement is one step. `rows` are the
columns; a question is the number of the checkpoint that put it. `emma` holds
what a tool has read before its second statement (`work_status` reads the queue,
then the heartbeat; `abandon_development` reads, then writes). Each session's
`call` is an ssh call that has recorded its beat and not yet done its work.
The rest only observes: `told`, `asked`, `answered`, `workAge`, and `listed` and
`offList`, which record the jobs the developer acted on without `list` having
printed them since the last write. Any verb may name any job; the two properties
about what the user said hold of jobs worked from the list. The refinement
mapping to `Handoff` reads `status`, and maps `asked` and `answered` to
themselves.

**ToolSwitch** – `tools/toolstate`. `remove_tool` is up to four steps (disable,
since, look for a job, create one), inside a turn of bounded length, with the
clock running, jobs closed, closed jobs reopened by `advance`, and the service
restarted on other code between any two. `removals` counts the removal jobs of a
tool, those open since they were filed apart from those that were closed and
reopened: `existing_job` sees both, the properties are about what `remove_tool`
files. `PROTECTED` is the code's set.

**Facts / Turn** – one turn of `Router`, with the facts it gathers once and the
tools change as it runs. The gate is asked at each round and again for each call;
it may be unreadable, which the code takes as "nothing is off". A tool may fail
before or after it took effect. A reply is a sequence of `tool_use` blocks by id.
A fact is a text, known by a number, which AUTOINCREMENT never gives again; no
statement deletes a row, so the next number is one more than there are.
`Fitting` is the greedy choice of `FactsContext`.

**Window** – the window as `InMemoryConversationMemory` keeps it.

**Translation / History** – what the model reads in a turn, and how the turn is
remembered. The provider sends any reply of its dialect, with any number of calls
and arguments that are one of `Objects`, each like itself only, or no object at all; `Response`, `to_assistant_message` and
`to_groq_messages` are what `core/llm.py` makes of it, and `AnthropicAccepts` and
`GroqAccepts` what the APIs demand. What the provider sent is kept as it was sent
(`said`), and `Echoes` says what of it must come back: every object with its own call,
`{}` in place of anything else. `Insert` and `Prune` are the two transactions
of one append; either may fail or never happen. A write that finds the database
locked leaves the driver's transaction open (`conn`): the next commit closes it,
unless another connection commits first, and then nothing is written until a
restart. What a frozen connection reads is `rows`, which is also what was there
when it froze. The refinement maps `window` to the rows *as the next pruning would
leave them*; a pruning put off is then a stutter.

**SnapshotStore** – the file, its two snapshots and `.tmp`, each call to the
file system a step. A file is absent, damaged, half copied, or sound with some
number of messages. A recovery may be cut short and a check may fail on a sound
file; `cut` and `misread` observe it. `kept` observes how much history the last
snapshot that was put in place held.

**ModelCall** – `_RetryLadder.run`, `_check_rate_limit`, `_exhausted`,
`pause_before_retry`, and what `handle()` catches. The provider's rate limit
ends at a moment it knows; time passes in calls and pauses.

**SplitMessage / Delivery** – an update from the whitelist to the last chunk.
The loop that cuts the chunks is a part of it, over any set of letters, each like
itself only, and two blanks, the space and the newline; `rstrip`, `rfind` and slicing are modelled by what they
do. Once the answer is cut, a chunk is known by its number. A request that timed out
is still under way (`flight`): it reaches the chat at any later moment, after its own
retry, after later chunks or after the turn, or never.

**Lifespan** – the list of what has been started against what is really held,
with every call of an `open()` or a release step able to raise.

**Service** – the lifespan beside the turn, which Telegram's application runs and
whose `stop()` waits for it. Signals, calls that raise and polling that dies by
itself come at any point of the turn and of its model call.

**Watcher** – watchers by pid, the lock file, the announced ids, and the jobs
as `list` shows them. Looking an id up and recording it are two steps. Killed by
SIGKILL the lock stays; by SIGTERM the trap runs. Of the session there is what arms a
watcher: a hook is `due` at its start and at the end of a turn, a turn begins when
somebody writes or a watcher exits 2, and an idle session arms nobody. `raced`
observes that two watchers have looked for the lock at once, `dropped` the jobs of
a watcher that was killed after it had recorded them and before it announced them.

**Deploy / Backup** – a file is the moment it was written, which is its content
and its modification time; a commit is a tree of files. `Deploy` is
`deploy.sh` step by step, the extraction file by file and each step able to fail;
people edit and commit at any moment; the service starts on whatever is
installed, and checks the drift then. `Backup` reads the stamp for its manifest
and the files one by one, with a deploy at work between any two.

The `MC` modules give TLC its values; `*Proofs` modules are described
[below](#proofs).

## Runs

| run | question | bounds and why they are enough |
|---|---|---|
| `queue` | any job, any order: are moves actionable, answers bounded, the heartbeat honest? does working from the list keep answers with their questions and unwiped? does the table implement `Handoff`? | two calls at once and EMMA make every overlap of two writers with a third; three checkpoints put a question again after an answer; two of the six stages (the code never compares them). One job: no statement touches two rows. The theorems are for any number. |
| `tool_switch` | two occasions, evidence, one job, the wait not restarted | an ordinary tool beside `remove_tool` itself, which can be removed too; two jobs of each, so that one is reopened beside another; six ticks cover off, wait, removal, on, off again with a wait of two and a turn of one |
| `turn` | calls answered, the gate a guarantee, facts bounded, their numbers stable, none displaced, turns end | two calls in a reply are a switch-off and a use in one breath; two rounds a use later, or a forgetting by a number read before; three texts of three lengths, of which not every two fit |
| `history` | are requests well formed and replies replayed, in both dialects? are answers kept with their questions, and does the table implement the window, with faults, kills and a frozen connection? | a window of three splits a pair at its edge; three turns roll it over and prune it late; two rounds of up to two calls replay one reply beside another; two objects tell whose arguments came back |
| `snapshots` | do only faults lose history, and does one lose only what was not in a snapshot? | three faults can damage every file; three messages tell three generations apart; kills, errors and misread files without limit |
| `delivery` | nothing visible lost in the cuts, lines spared, delivered chunks in place, no chunk skipped | every text of up to nine characters against a limit of four, so up to three chunks and a blank of either kind at every place around the cuts; two letters, so that an order can be told; the project's three attempts |
| `watcher` | one poller, nothing twice, a stale lock blocks nobody, new jobs announced | two pids, one of which may be killed: a stale lock, and a race for it; two jobs, one known and one new, each of which may come back. A pid whose process was killed is free again once the lock does not name it, so that a hook never lacks one for long |
| `service` | nothing stranded, users first, no turn outlives what it uses; is a limit refused exactly when hopeless? | the application's own six components; the project's three attempts; limits below, on and above the pauses left at each attempt |
| `installation` | does the service admit what it is not? does an archive trace back? does a readable archive stay? | two files make half an installation; two writes make an edit and a deploy of two ages; three archives are one more than is kept, plus one |
| `queue_drops_finished`, `snapshots_interrupted`, `watcher_race` | see [Disagreements](#disagreements-between-the-code-and-what-it-says) | the smallest instance that shows it |

`CHECK_DEADLOCK FALSE` stands where the model stops because a counter is used up
or the process is gone; `turn` runs with the deadlock check on. Symmetry is used
for sessions in `queue` and files in `installation`, which check only safety; no property tells their members apart.

Fairness. `Turn`: weak fairness of the turn's steps while a turn is under way –
the event loop resumes it, and every awaited call ends in a reply, an error or a
timeout. `Watcher`: weak fairness of a running watcher's steps; strong fairness
of listing, since a watcher lists before it can give up for time; weak fairness
of arming, since a hook that is due runs. Nothing makes anybody write, and a
watcher that gives up exits 0 and wakes nobody: `NewJobsWakeTheSession` states as
its own hypothesis that turns go on being taken, `WatchingResumes` starts from a
hook that is due.

## Disagreements between the code and what it says

Three are runs that TLC must refute; `PROJECT.json` quotes the lines.

| run | what the code does |
|---|---|
| `queue_drops_finished` | `abandon_development` reads, then writes: a finish in between is overwritten |
| `snapshots_interrupted` | a recovery cut short after the rename starts empty beside a sound snapshot, and two rotations later the snapshot is gone |
| `watcher_race` | a watcher that lost the race removes the winner's lock |

The others are known divergences, met while translating. The models contain the
behaviour, and no property claims the opposite:

* `advance` ignores the status, so a parked job moves on with its question
  unanswered (`core/tasks.py:15`), and a job the user abandoned is reopened
  (`core/tasks.py:44`, "kept so it does not come back"). It blanks the answer, so an
  advance without a fresh list may wipe one unread, or leave a question standing that
  the user was not told of; the two properties about answers stop there.
* The queue the facts of a turn describe can change while the turn runs
  (`core/router.py:392` says it cannot).
* `_file_is_healthy()` takes any failure for damage, so a sound database it could
  not read is set aside (`core/memory.py:174`, "only on verified corruption").
* `handle()` lets through an exception that is neither a quota nor an outage
  (`core/router.py:302`, "does not raise").
* A write that finds the database locked leaves the connection's transaction open,
  and once another connection has committed it writes nothing more until a restart
  (`core/memory.py:277`; `core/tasks.py:21`, "WAL mode makes the concurrent access
  safe").
* A removal job that was closed can be reopened beside another filed since, so two
  identical jobs can be open (`tools/toolstate/tools.py:89`, "without this, every
  further request opens another identical job"): what `remove_tool` looks for before
  it files is all it can promise.
* A reply is not replayed "verbatim" (`core/llm.py:164`, `core/router.py:424`):
  arguments that are no JSON object come back as `{}` (`core/llm.py:789`), and blocks
  that are neither text nor a call do not come back.
* Rotation moves the current snapshot over the older one without reading it
  (`core/memory.py:467`), so a damaged one replaces a sound one (`core/memory.py:436`,
  "never replaced by something worse than itself"); a fault of the database before
  the new snapshot is in place, or a rename that fails there and a fault later, then
  loses everything though two generations are kept (`core/memory.py:182`).
* Not every active fact is in front of the model: beyond 4000 characters the fit is
  greedy (`tools/facts/tools.py:4`), and to forget one can make room that hides
  another, shorter and younger, which was shown. Case is compared with SQLite's
  `lower()`, which knows ASCII only.
* The Groq client is built without the timeout of the configuration and with the
  SDK's own retries (`core/llm.py:591`); a Groq reply cut at the token limit in the
  middle of its calls is taken for an answer.
* The commit of the health report is read from the stamp on request, so it changes
  under a running service (`main.py:171`, "the answer cannot change while the
  process runs").
* Files removed from the repository stay on the server and are no drift; a stamp
  that was opened and not written makes the commit unknown, which is no drift
  either.
* Tests that fail on the server leave the service stopped (`scripts/deploy.sh:141`,
  "cannot leave the service stopped halfway through").
* The archive of a failed run stays and counts in the rotation
  (`scripts/backup.sh:331`), and one without the database may rotate out one with
  it. The manifest alone may be wrong under a concurrent deploy
  (`scripts/backup.sh:10`): `ArchiveTracesBack` needs the stamp inside as well.
* A `telegram.start()` that fails after `application.start()` leaves it running.
* Nothing waits for a request that timed out (`adapters/telegram.py:230`): a chunk
  none of whose calls returned may turn up below later ones, and the log may report an
  answer as never delivered that is delivered later.
* Chunks are counted in code points, while Telegram counts UTF-16 units
  (`adapters/telegram.py:41`).
* A job that comes back answered has an id already announced and wakes nobody
  (`scripts/watch-tasks.sh:12`); one whose watcher was killed between recording and
  announcing it is announced by nobody.
* A watcher that gives up wakes nobody (`scripts/watch-tasks.sh:86`), and an idle
  session runs no hook that would arm another: a job that comes then waits for the
  next turn (`scripts/watch-tasks.sh:97`, "what keeps it running for as long as the
  session is open"; `REVISIONE.md:1691` says that nothing happening is no event).
* An `open()` that fails after its first call is not on the list that is unwound
  (`main.py:155`).

## Proofs

Eight modules hold the theorems. Each rests on the named assumptions of the module
it extends and on nothing else, and holds for every value of the constants. In each
an inductive invariant is shown to hold at first and to be kept by every action;
the properties follow from it. The invariants of the runs are not inductive as they
stand; what is added is the point of the proof.

**TaskQueueProofs** – `TypeOK`, `MoveIsActionable`, `AnswersNeverOutnumberQuestions`,
`HeartbeatCoversWork`, that `TaskQueue` implements `Handoff`, and, of the jobs the
developer works from the list, `AnswerMatchesQuestion` and `NoAnswerErasedUnread`.
`QueueInv` adds:

* `LedgerInv` – rows beyond the AUTOINCREMENT sequence are absent, and an absent
  row is pristine (or an insert would not give an untouched job); a job waiting
  for the user has fewer answers than questions (or the next answer would break
  the bound).
* `BeatRecorded` – while any call is between its beat and its work, the
  heartbeat is fresh (or a write could leave `workAge` younger than it). It holds
  because the clock does not move within a call.

For the jobs worked from the list `WorkedInv` adds:

* `ListedIsCurrent` – what the developer was shown of a job and has not acted on
  since is what it still is, unless the user dropped it (only the user's side can
  then have moved it, and a queued job gives that side nothing else to do);
* `ToldIsStanding` – a question the user was told of, or `work_status` is about to
  tell them of, is the one that stands. A session that acts on a job in the user's
  hands acts off the list, which is where the property stops (`offList`).

For the refinement every statement maps to one action of `Handoff` and everything
else to a stutter.

**ToolSwitchProofs** – `WaitIsNotRestarted`, `OneRemovalJobPerTool`,
`RemovalRestsOnEvidence`, `TwoOccasions`. `SwitchInv` adds what a `remove_tool` has
established at each of its four steps (`Evidence`: past the first the tool is off,
past the second it has been for the whole wait, past the third no removal job it
filed is open still, though one it filed before may be put back to work) and that a turn is short (`TurnIsShort`), which makes the last of the four
theorems: a tool switched off in this turn cannot have been off for the wait.

**TurnProofs** – `EveryCallAnswered`, `OffToolsStayQuiet`, `ActiveFactsBounded`,
`NumbersStandForOneFact`, `RememberingDisplacesNothing`. `TurnInv` adds:

* `CallsInv` – the results gathered so far answer the first calls of the round, in
  order;
* `FactsInv` – the facts are a finite table numbered without gaps, so that a new
  number is new;
* `ShownInv` – every number the model was shown is in the table, under the text it
  was shown with. What changes the facts only adds a number or stamps one
  (`FactsEndure`).

That remembering displaces nothing is about two runs of one loop, over the table
and over the table with one more row. They agree up to the last number, one step
at a time (`StepwiseAgree`, below), and the last step only adds.

**MemoryProofs**, the table – `AnswersFollowTheirQuestions`, and that `History`
implements `Window`. `HistoryInv` adds who the last row belongs to while an append is
under way (`Filing`): the answer of a turn is inserted only on top of its question.
Pruning leaves a suffix that starts with the user (`PrunedIsSuffix`), and a suffix of
an ordered table is ordered. The core of the refinement is that pruning late changes
nothing: pruning a table and one more row is pruning the pruned table and that row
(`PrunedLate`), with a mapping that reads the table as the next pruning would leave
it.

**MemoryProofs**, the conversation – `RequestsAreWellFormed` and `RepliesAreReplayed`,
for both dialects, any number of calls in a reply and of rounds in a turn. Each needs
an invariant of its own:

* `Asking` – the table begins with the user, what was said in the turn is what a provider
  can send, and the messages are ones of the router's that either API accepts. A round
  adds a reply that calls tools, and right after it a message with one result for each of
  its calls, by id, and that keeps a request acceptable (`AnthropicAcceptsARound`, `GroqAcceptsARound`); the Groq half speaks of the messages
  that one message of the router becomes, so each of its lemmas is about a sequence
  of sequences, flattened.
* `Replaying` – the messages at the end, two for each reply of the turn, hold a faithful
  replay of every reply said, in order (`Faithful`). That a single reply means the same
  after the way there and back is `GroqReplayEchoes` and `AnthropicReplayEchoes`.

**MemoryProofs**, the snapshots – `OnlyFaultsLoseHistory`, `EmptyOnlyWithoutSnapshot`,
`OneFaultLosesOnlyTheUnsaved`. `SnapshotInv` adds that a copy under way has a sound source
(`Copying`), that what is rotated in is the database itself (`Rotating`), and,
unless a file was misread or a recovery cut short, that the recovery has nothing
sound in its way (`Recovering`) and that the database is as long as either
generation and the newer generation as long as the older (`Ordered`). For the last
property `Kept` adds what one fault may take: before it, what the last snapshot held is
in the database and in a generation besides (`TwiceKept`), and rotation keeps it so,
because it moves a generation down before it puts the next in its place; after it, no
step but another fault leaves less than there was (`BestIsKept`).

**DeliveryProofs** – `NothingWrittenIsLost`, `LinesCutOnlyWhenUnavoidable`,
`ChunksReadInOrder`, `EveryChunkIsTried`. `DeliveryInv` adds of the split that what has
been cut and what remains have the ink of the text (`Cutting`). Each pass keeps it: what
a chunk loses to `rstrip` is blank, a cut at a newline drops that newline, and the second
newline of a blank line is where the cut steps back (`PassLosesNothing`). That the line
is spared follows from where `rfind` looks (`LastNewline`, `CutIsAtNewline`): a step
back of one never takes the cut below a newline the property is about. Of the sends it adds
that every chunk before the one being sent is settled, that later ones are untried
and that the attempts at this one are counted (`Progress`), and that of the chunks
beyond it the chat shows none and no request is under way (`Shown`): so a chunk whose
call returns is in its place, and what arrives later, below it, does not move it
(`Arrives`).

**ServiceProofs**, the process – `NobodyIsStranded`, `UsersStopFirst`,
`NoTurnOutlivesWhatItUses`. `ServiceInv` is four parts:

* `ListInv` – the lifespan's list is what was opened, in order; what is left to stop is
  its beginning, and the rest is exactly what has been asked to stop;
* `HoldInv` – what is held of a component not yet asked to stop is all that opening it
  took, but for polling, which may have died; what is left of one that was asked is about
  to be released, or its release raised;
* `OrderInv` – until the application is released nothing but the adapter has been asked to
  stop, which is why the wait for the turn protects the stores;
* `TurnInv` – a turn is run by an application that is held.

**ServiceProofs**, the retry ladder – `RefusedOnlyWhenHopeless`, `NoFutileAttempt`. The
code compares a wait with a sum of powers of two; the properties speak of a difference.
The two are equal because each pause is twice the last (`BackoffDoubles`,
`BackoffTelescopes`). `LadderInv` adds what a pause for a rate limit rests on: the
limit outlasts the call that met it, and what was advised is what is left of it and no more
than the pauses to come.

**ScriptProofs**, the watcher – `OneWatcherPolls`, `NothingIsAnnouncedTwice`.
`WatcherInv` adds, unless two watchers have looked for the lock at once, that whoever
polls is named in the lock and nobody is about to claim it (`LockInv`), and that what has
been announced is on file, but for the one being recorded (`NewsInv`).

**ScriptProofs**, the installation – `StampIsTrueOrAdmitsIt`, `ArchiveTracesBack`,
`AGoodArchiveStays`. `InstallationInv` says of everything on its way to the server – the
tree, the archive, what is extracted, what tar has read – that it is of the commit named
or newer than the stamp's moment, which is what the drift check looks for; and that the
archive being written is the last one.

**Induction** – what the others need of recursion. The library's induction takes the
statement as an operator, which the provers installed here cannot instantiate, so it is stated
of sets instead (`SetInduction`, from the least element of a well-founded set): a proof
names the set of the numbers of which a fact holds. From it come the existence and the
equations of a recursive function (`PrimitiveRecursion`), that two recursions with the
same steps agree (`StepwiseAgree`), and what `Those` and `FlattenSeq` do with the ends
of a sequence and with two sequences joined.

Every safety invariant, action property and refinement of the passing runs is stated by
a theorem. Only model-checked is liveness, which the prover cannot treat under fairness:
`TurnsEnd`, `WatchingResumes` and `NewJobsWakeTheSession`.

## Assumptions

* A turn is shorter than `MIN_TIME_OFF_SECONDS`: five rounds of three attempts
  at a minute each are well within an hour. The Groq client has the SDK's timeout and
  retries on top of these (`core/llm.py:591`), which nothing here bounds; an hour leaves
  room for them. `ToolSwitchAssumption` states it.
* The window holds at least two messages. The configuration accepts one, which
  remembers no answer (`HistoryAssumption`).
* Of the writes that fail, `History` follows the transaction they leave open; in
  the other stores a failed statement is taken to leave nothing behind.
* Disk faults strike while the service is down or running, not within `open()`
  or a rotation; kills strike anywhere.
* The clock does not move between the beat and the write of one ssh call.
* The provider is consistent: the wait it announces is the wait it imposes.
* A pid is not used again while a lock names it; the lock file can be written. A hook
  that is due runs, in the end.
* Two objects of arguments are the same or not, whatever is in them: `Objects` are
  told apart by nothing else (`TranslationAssumption`).
* Updates are handled one at a time, as `Router.handle` says it relies on, and the
  `stop()` of python-telegram-bot's application returns when the update under way
  has been handled. A turn of `Service` makes one call to the model; the rounds are
  those of `Turn`.
* In `deploy.sh` the commit, the check for a clean tree and `BUILT` are one moment;
  writes are more than the second of slack of `core/version.py` apart; the two
  machines have one clock. Nobody starts the service by hand during the remote half
  of a deploy: the script's own start would then do nothing, and the service would
  claim the new commit while it runs half of the old code.
* Backups go to one destination, and their names, local times, are in the order of
  the runs.

## What is not modelled

* `queue-brief.sh`: a cached count, printed with its age when a session starts; it
  writes nothing that another part reads.
* Configuration: parsed and validated once, no behaviour over time. The clock and
  inventory tools and `/health`: they only read and format.
* The systemd units and `backup-dev.ps1`: declarations, and a copy on the
  developer's own machine.
* Of `backup.sh`: the choice of the destination, the snapshot of the database and the
  health probe. Of `deploy.sh`: the safety copies and permissions. Of
  `watch-tasks.sh`: the default mode, which keeps no state.
* Of what is modelled: words, formatting and logging; the parsing of the ssh command
  line; the tally of turns; `_to_groq_tools`; what the SDKs do inside a call.

## Plan

What would come next:

1. `SnapshotStore` with `TaskQueue`: a restored snapshot is older than the queue the
   developer has listed, and gives job numbers out again.
2. The default destination and the database snapshot of `Backup`, for archives
   without a database in the rotation.
3. Proofs: the type invariants that no run checks as theorems of their own, and the
   invariants that 1 and 2 will need.
