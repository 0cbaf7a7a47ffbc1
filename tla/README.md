# A verification project for remote-plugin

remote-plugin is a command line tool that synchronises a local workspace to a
remote machine (or a container on it), runs commands there, keeps a record of
each job and shows which jobs occupy which machine. It has no daemon: every
command is a short-lived process, the only shared state is a directory of JSON
files, and everything remote happens in shell scripts sent over ssh. What is
hard about it follows from that: processes overlap without a lock, scripts go
on when their sender is gone, and a broken connection leaves open what has
happened.

This directory holds TLA+ modules of that behaviour, TLC instances of them and
proofs for TLAPS. Paths are relative to the repository; `runner.py` stands for
`src/remote_plugin/runner.py` and so on.

## Components

| component | state it keeps | operations | hard behaviour | correct when |
|---|---|---|---|---|
| job host side (scripts of `runner.py`) | process group, waiter, `<workspace>/.remote-logs/<id>` with pid, done, log | launcher, waiter, cleanup | scripts outlive the connection; two writers of done | done means ended; the time limit holds alone |
| run (`runner.py`) | one `meta.json`, a log file, a detached fetcher | foreground, background, cleanup after a timeout | ssh failing before, after or during the effect | a running command is visible as occupancy; its log comes home |
| jobs, stop, logs (`jobs.py`) | `state/jobs/*` | query with reconcile, stop, follow | records are loaded, ssh is awaited, records are saved | stale, stopped and running say the truth; followers return |
| job ids and records (`jobs.py`, `runner.py`) | ids, `meta.json`, `meta.json.tmp` | new id, save | check and creation, shared temporary name | records are whole and belong to one job |
| sync (`sync_git.py`, `snapshot.py`) | snapshot commits, temporary refs, last state; mirrors and work trees on the machine | snapshot, probe, push, materialize, verify, save | kills, overlapping syncs, lost delta bases | success is true; an undisturbed sync succeeds |
| up, down (`updown.py`, `bootstrap.py`) | endpoint marker; key, image, container, workspace | login, image, container, marker, workspace; remove | retries after partial failure, up against down | ok means ready; retries converge |
| ssh (`ssh.py`) | none | run, pipe, argv | two processes and bounded pipes; 255 is a return code, a timeout an exception | success delivers; the call returns |
| path sync, pull (`sync_paths.py`, `pull.py`) | none | list, hash, tar stream, hash | files edited between any two steps, other transfers | what is reported as verified lay at the source at one moment |
| machines (`machines.py`, `probes.py`) | facts files | verify, list, status | a probe script that may say less than it should; a file written in place | the verdict is true; a verify repairs its file |
| configuration, discovery (`config.py`, `workspace.py`, `snapshot.py`) | files written by the user | merge, walk, mount | nested repositories, worktrees, several files | one definition per machine, one parent per repository |
| install, CLI, output, local tools | none | parse, print, link | | |

Processes interact only through the files under `state/`, through the machine,
and through ssh's answer. `run` spawns the fetcher; `jobs` reads what `run` and
`stop` write; `sync` and `run` depend on what `up` has left on the machine.

## Modules

* `RemoteHost` is the remote side of a job. `launcher`, `leader`, `child`,
  `waiter` are processes, `dir` and `files` the log directory. Each action is a
  stretch of one of the generated scripts between two points where another
  script or signal can come in: `LauncherPrepares` .. `LauncherFinishes` follow
  `_launcher` from top to bottom, `WaiterPolls` .. `WaiterMarks` its waiter loop.
* `RemoteJobs` extends it with the local processes: `Submit` .. `RunnerDies`
  are `run_remote` with its foreground and background branches, `Fetcher...`
  the detached fetcher, `LoadRecords` .. `QueryReturns` are `jobs()` and
  `_reconcile`, `Stop...` is `job_stop`, `Follow...` is `logs --follow`. Every
  ssh call is split into call, remote effect and reaction.
* `RemoteJobsProofs` holds the theorems about it, the refinement of `JobRecord`
  among them.
* `JobStore` looks closer at what `RemoteJobs` takes as atomic: how ids are
  chosen and how `save_job` opens, writes and renames its file, down to the
  file a handle refers to after a rename, and at the remote `cmd.sh`.
  `JobStoreProofs` has its theorems.
* `SyncGit` is `sync_git` with `snapshot.py`: snapshot commits bottom-up,
  parity probe, skip/delta/full, temporary ref, pipe, materialize script,
  verification, fast path, saved state; plus edits, pruning, remote changes,
  `down` and `up`. A commit is the sequence of trees on its first-parent line,
  which makes "the same trees and parents are the same object" equality.
  `SyncGitProofs` has its theorems.
* `MachineUp` is `machine_up` and `machine_down`, one ssh call per action, and
  the guards of `sync` and `run`. `MachineUpProofs` has its theorems.
* `JobRecord` is an abstract specification: one job's record, its process, and
  what the record promises about it. `RemoteJobs!Promise(j)` instantiates it
  with a refinement mapping, `RecordKeepsPromises` says that `RemoteJobs`
  implements it for every job.
* `PathTransfer` is `sync --paths` and `pull`: `Starts`, `Finds`, `Sums`,
  `Walks`, `Reads`, `Unpacks`, `Checks` visit one file each, so that edits and
  other transfers can come between any two files. `PathTransferProofs` has its
  theorems.
* `MachineVerify` is `remote verify`, `machines` and `status`: what the probe
  script finds on a host and how it may fail to say so (`Outcomes`), the awk
  program over the rows of npu-smi (`CardLines`), the judgement, and the facts
  file in the steps in which it is written. `MachineVerifyProofs` has its
  theorems.
* `Layout` is what a sync finds before it starts: workspace root, state
  directory, merged machines, worktrees, and `_discover_tree` with its stack.
  Its `TreeSound` gives `SyncGit` the tree its assumption asks for.
  `LayoutProofs` has its theorems.
* `SshPipe` is `ssh_pipe` with its two processes, two bounded pipes and the
  time limit; it is the inside of what `SyncGit` and `PathTransfer` take as one
  stream. `SshPipeProofs` has its theorems.
* `MC...` modules give the constants a `.cfg` cannot write and the symmetry.

Definitions marked "faulty variant" are plausible mistakes in the code that
follows them; nothing uses them, they document what each property rules out.

## Runs

Passing runs:

| run | instance | shows |
|---|---|---|
| `jobs_faults` | 1 job, any mode, children, ssh session held or not, 2 queriers, stopper, 2 faults | `TypeOK`, `DoneMeansEnded`, `StaleIsJustified`, `RecordKeepsPromises`, `StatusFinal` |
| `jobs_calm` | 2 jobs on one machine, querier, no stop, no fault | `OccupancyVisible`, `QueryReleasesEnded`, `LogNotLost` |
| `jobs_live` | 1 job, any mode, no reaping, querier, stopper, follower, limit 2, 1 fault, fairness | `OccupancyVisible`, `LimitEnforced`, `LogComesHome` |
| `store_records` | 2 processes, in turn or overlapping, 2 numbers a second, 2 seconds, 3 jobs, 1 further save, 1 kill | `TypeOK`, `RecordsWhole`, `RecordsKept`, `SavesSettle` |
| `sync_alone` | root and child, 2 contents, 2 edits and 2 faults | `TypeOK`, `QuietSyncSucceeds`, `SuccessWasTrue`, `MirrorsClosed` |
| `sync_pair` | 2 processes, 1 edit or 1 fault | `SuccessWasTrue`, `MirrorsComplete`, `QuietSyncSucceeds` |
| `up_retry` | 2 processes, up/down/sync/run, both modes, workspace writable or not, 2 tries, 2 faults | `TypeOK`, `UpMeansReady`, `UpConverges`, `DownCleans` |
| `transfer` | 2 processes, push and pull of a directory with 2 files, of a file whose hash line the parser drops and of one it misreads, 1 fault, 2 edits, 2 calls, 3 events in all | `TypeOK`, `ReadyIsSnapshot`, `UndisturbedCopies` |
| `verify` | 2 processes, 14 hosts, 7 configurations, 3 events | `TypeOK`, `VerdictTrue`, `CardsTrue`, `VerifyRepairs` |
| `layout` | 5 directories up to 3 deep; every set of repositories with up to 2 submodules and 1 worktree; every set of `.remote` with several machines files | `TypeOK`, `TreeSound`, `NothingForgotten`, `NearestWins` |
| `pipe` | up to 3 blocks through a pipe of 2, 2 messages against a pipe of 1, any failure or stall, fairness | `SuccessDelivers`, `PipeReturns`, `NobodyLeft` |

The run `jobs_stop_dropped` refutes a sentence of the code instead: `jobs.py:279`
says that stop kills the process group, but ssh returns 255 and the job counts
as stopped. Its trace is the finding in `PROJECT.json`.

`CHECK_DEADLOCK FALSE` everywhere: when all calls are made and all commands
have ended the system rightly stops.

### Further deviations

The model shows more places where the code does not do what its documentation
says, or not what a user may expect. They have no run of their own; each appears
when a configuration or a property is changed as described, and each explains a
premise of a property above.

| code | what happens | how to see it |
|---|---|---|
| `jobs.py:182` | a query that loaded a job before a stop saves stale over stopped, and a stop saves stopped over the stale of a query | `jobs_faults` with `StatusFinal` without its first disjunct |
| `jobs.py:182` | a query that could not reach the machine saves stale over done or failed | `jobs_faults` with `StatusFinal` without its second disjunct |
| `jobs.py:267` | a group member that ignores TERM survives a leader that obeys it, because KILL is sent only to a leader still alive | `jobs_stop_dropped` with `Forks = TRUE`, `MaxFaults = 0`: `StoppedMeansKilled` |
| `runner.py:270` | a launch that breaks after the command was started is recorded as failed and left running | `jobs_calm` with `MaxFaults = 1` and `OccupancyVisible` without `faults = 0` |
| `runner.py:115` | where the session stays open as long as the waiter has its output, a healthy background job runs into the 60 s limit of its launch and is recorded as failed | `jobs_calm` with `SessionHeld = {TRUE}`: `OccupancyVisible` |
| `runner.py:230` | the remote half of a fetcher deletes the log although its local half is gone | `jobs_calm` with `MaxFaults = 1`: `LogNotLost` |
| `runner.py:230` | a child that outlives the leader writes on into a log that the fetcher has copied and deletes | `jobs_calm` with `Forks = TRUE`: `LogNotLost` |
| `jobs.py:322` | the fetcher removes the directory between two polls of a follower, which then waits for done for ever | `jobs_live` with `PROPERTY FollowerReturns` |
| `runner.py:304` | two processes take the same id in the same second and a record is replaced by another job's | `store_records` with `RecordsKept` without `~overlap` |
| `jobs.py:119` | two saves share the temporary file, one renames the other's truncated file into place | `store_records` with `RecordsWhole` without `overlap` |
| `jobs.py:119` | two saves that have the temporary file open together mix their texts in it; without any failure the mix can stay as `meta.json`, which `load_job` calls corrupt and `jobs()` passes over | `store_records` with `SavesSettle` without its last disjunct |
| `runner.py:360` | run works in a workspace no up has completed (PRD 3 says it is blocked) | `up_retry` with `INVARIANT RunNeedsUp` |
| `bootstrap.py:325` | a container that refuses docker exec ends in an error, not in needs_repair | `up_retry` with `INVARIANT UnexecutableNeedsRepair` |
| `updown.py:57` | a broken inspect counts as not_found: down reports success and the container stays | `up_retry` with `Procs = {p1}`, `INVARIANT DownRemoves` |
| `updown.py:36` | an up writes the marker after a concurrent down has removed container and marker | `up_retry` with `INVARIANT NoOrphanMarker` |
| `jobs.py:162` | under `tail -f /dev/null` as PID 1 an ended leader stays a zombie that `kill -0` finds; its job is never found stale (PRD 2.2) | `jobs_calm` with `Reaps = FALSE`: `QueryReleasesEnded` |
| `runner.py:304` | runs without a record may have the same id, share `cmd.sh`, and one executes the other's command (PRD 5) | `store_records` with `INVARIANT OwnCommand` |
| `runner.py:179` | a foreground cleanup that comes before the launcher has written pid removes the directory and leaves the command | `jobs_faults`, where `JobRecord` has to count this timeout as a failure |
| `sync_git.py:106` | a repository at the path `root` shares the mirror of the workspace root (`sync_git.py:115`: one mirror per repository) | `sync_alone` with `MirrorOf` set to one mirror for both: `QuietSyncSucceeds` |
| `updown.py:165` | the script that makes the workspace has no `set -e`, so its code is that of the last `git config`: where `mkdir` fails up still reports ok | `up_retry` with `INVARIANT UpMakesWorkspace` |
| `updown.py:35` | the marker that means complete (`updown.py:179`, PRD 3) is written before the workspace exists | `up_retry` with `INVARIANT SyncNeedsUp` |
| `pull.py:152` | a file of the manifest that disappears before tar reads it is verified against the old local copy; a file that appears in between is delivered and not verified | `transfer` with `ReadyIsSnapshot` without `\cap sent[p]`; the second by the definition of `names` |
| `sync_paths.py:128` | names that sha256sum escapes are dropped by the parser: pull never verifies such a file, a push of one always fails | `transfer` with `UndisturbedCopies` without its condition on `Legible` |
| `sync_paths.py:128` | a name that begins with a blank or an asterisk is kept without it: an undisturbed pull then misses the file it has just unpacked (`pull.py:152`), a push of one always fails | likewise |
| `machines.py:159` | facts of `{}` (no space for a temporary file) are judged ok, although the look at the workspace is called obligatory (`machines.py:106`) | `verify` with `Speaks` without `space` |
| `probes.py:175` | without python3 the script prints the pip index without quotes: what it prints is no JSON and the verdict degraded (`probes.py:5`: a single JSON object) | `verify` with `Speaks` without `python` |
| `machines.py:138` | a missing container makes docker exec fail and is judged degraded, not needs_up (PRD 178: a missing workspace asks for up) | `verify` with `Speaks` without `up` |
| `machines.py:172` | a broken driver with no number of cards configured is judged ok | `verify` with `VerdictTrue` without its premise on `smi` |
| `machines.py:365` | a live probe is said not to raise, but a parse error of it loses the whole listing | by reading; `Probes` has rows that parse |
| `snapshot.py:204` | a worktree registered above a submodule is mounted where the submodule's parent already has a gitlink | `layout` with `TreeSound` without `Tidy` |
| `workspace.py:128` | worktrees of submodules two or more levels down are never asked for, and a deep repository nobody registered becomes a gitlink without content | `layout`: `NothingForgotten` for all of `world.git` |
| `config.py:100` | machines come from every machines file above the current directory, also one that only a farther file names; the documents say only the nearest file is found (PRD 3.1, `docs/PRD.md:169`; `docs/spec.md:55`). `NearestWins` says what the docstring of `load_machines` says | `layout` with `INVARIANT OnlyNearestFile` |
| `machines.py:222` | a facts file that is no UTF-8 raises UnicodeDecodeError and ends the listing | second disjunct of `MachineVerify!Reads` |
| `sync_git.py:119` | two syncs of one commit pipe into the same file on the machine and remove it: either may fail though nothing is broken | `sync_pair` reaches `SharesBundle`, where `SshFails` is no fault |
| `ssh.py:116` | a local command with more error output than its pipe takes blocks for ever, and with it the CLI, when the connection breaks | `pipe` with `PipeReturns` without its premise |

### Bounds and why they are enough

`MaxFaults`, `MaxEdits`, `MaxEvents`, `MaxCalls`, `MaxMarks`, `MaxClock`,
`MaxSeq`, `TimeLimit` and `Tries` are the only bounds, each a guard. One job
suffices for everything that happens to a job, since jobs meet only in a
reconcile of one machine (`jobs_calm`) and in their names (`JobStore`). Two
queriers, or a querier and a stopper, are needed for a lost update and a third
adds no new order of one load and one save. Two faults reach "a failure while
recovering from a failure". A root and one child have both roles a repository
can have; longer chains repeat them. `TimeLimit` 1 or 2 separates "before",
"at" and "after" the limit. `MaxSeq` 2 makes the sequence number wrap.
`MaxEvents` bounds edits and faults together, so that `sync_pair` can take one
of either.

In `transfer`, `MaxContent`, `MaxFaults` and `MaxCalls` are bounded together by
`MaxEvents` 3: two overlapping transfers and an edit, or a transfer and two
edits, the least that can undo an edit between two readings. Two files are
needed for "together at one moment". In `verify` the hosts differ from a good
one in any one way, the configurations likewise; 3 events are two calls and a
change, kill or listing. In `layout` five directories hold a chain of three and
a sibling, so that a candidate can lie in a child, in a grandchild or beside
both. In `pipe` `MaxData` exceeds `OutCap` and `MaxTalk` `ErrCap`, so that both
pipes fill.

The faults of a run are chosen for its properties. `OccupancyVisible` and
`MirrorsComplete` suppose that nothing has failed, `LogComesHome` that nothing
fails, and `jobs_calm` has no faults at all, because `LogNotLost` is exactly
what one fault breaks; it needs no stop, and its ssh session ends with the
launcher. `StatusFinal` is checked in `jobs_faults`, where stops, queries and
failures meet. `jobs_live` has a stop and a follower
instead. `Forks` is FALSE where whole logs are required: a child that outlives
its leader may write after the log was copied. `Reaps` is TRUE in `jobs_calm`,
for its absence is the zombie of the table above. In `store_records` the variable
`overlap`, chosen at the start, says whether a call may begin while another is
under way; `RecordsWhole` and `RecordsKept` speak of processes in turn.

### Fairness

`RemoteJobs!Fairness` is weak fairness of each process that is under way: the
sequential steps of a CLI process, of a shell script on the machine and of the
fetcher. An operating system schedules them; a step that stays possible is
taken. Nothing is assumed about when users call, when a command ends or what
fails: `LimitEnforced` holds against commands that would run for ever and
processes that ignore TERM. A restart or a lost connection has no fairness, so
no property waits for one.

`SshPipe!Fairness` is weak fairness of the local command, of ssh with the remote
command, of the CLI, and of the clock of the time limit. A stalled network is a
state in which ssh has no step; failures have no fairness.

## Proofs

Every invariant and action property that a passing run checks is proved for all
values of the constants; the runs' liveness properties are not. Each theorem is
about its module's `Spec`, under the module's assumptions on the constants and
the hypotheses named below.

| module | theorem | states |
|---|---|---|
| `RemoteJobsProofs` | `TypeCorrect`, `DoneAfterEnd`, `StaleHasEnded` | `TypeOK`, `DoneMeansEnded`, `StaleIsJustified` |
| | `KeepsPromises` | `RecordKeepsPromises` (`RemoteJobs` implements `JobRecord`) |
| | `RunningVisible`, if no session is held | `OccupancyVisible` |
| | `EndedReleased`, if init reaps | `QueryReleasesEnded` |
| | `LogSafe`, if nothing outlives a leader, until a fault | `LogNotLost` |
| | `FinalKept` | `StatusFinal` |
| `JobStoreProofs` | `TypeCorrect`, `Whole`, `OwnRecords`, `Settled` | `TypeOK`, `RecordsWhole`, `RecordsKept`, `SavesSettle` |
| `SyncGitProofs` | `TypeCorrect`, `HistoryKept`, `SuccessTrue` | `TypeOK`, `MirrorsClosed`, `SuccessWasTrue` |
| | `MountsFollow`, `QuietSucceeds`, with a mirror for each repository | `MirrorsComplete`, `QuietSyncSucceeds` |
| `MachineUpProofs` | `TypeCorrect`, `OkMeansReady`, `Converges`, `DownLeavesNothing` | `TypeOK`, `UpMeansReady`, `UpConverges`, `DownCleans` |
| `PathTransferProofs` | `TypeCorrect`, `SnapshotDelivered`, `Undisturbed` | `TypeOK`, `ReadyIsSnapshot`, `UndisturbedCopies` |
| `MachineVerifyProofs` | `TypeCorrect`, `Verdict`, `CardsListed`, `Repairs` | `TypeOK`, `VerdictTrue`, `CardsTrue`, `VerifyRepairs` |
| `LayoutProofs` | `TypeCorrect`, `NearestMachine`, `AllMounted`, `TreeCorrect` | `TypeOK`, `NearestWins`, `NothingForgotten`, `TreeSound` |
| | `TreeForSync` | that `SyncGit`'s assumption about its tree is met |
| `SshPipeProofs` | `TypeCorrect`, `Delivered` | `TypeOK`, `SuccessDelivers` |
| | `NeverStuck`, `Finite` | what `PipeReturns` needs beside fairness |

### Jobs

`RemoteJobsProofs` speaks of all finite or infinite sets of jobs, machines,
queriers, stoppers and followers, all modes, limits and fault bounds, under the
two assumptions `HostAssumption` and `JobsAssumption` on the types of constants.

`DoneMeansEnded` and `StaleIsJustified` are not inductive. That done follows the
end of the command depends on every writer of done having seen the end or
brought it about before, and that a saved stale is right depends on a verdict
reached in the past on a record loaded still earlier. The argument is that a
leader's life goes in one direction: none, alive, zombie or dead (lemma
`LeaderAges`), so whatever a process has once learned stays true while others
act. `IndInv` records what is learned where: `LauncherInv` (a leader exists
exactly after the spawn line, and run_remote sends one launcher), `PidInv`
(whoever holds a pid, on disk, in a loaded snapshot or in a stop, holds that of
a command that was started), `DoneInv` (a waiter or stop about to mark, and a
done file, come after the end) and `StaleInv` (a pending or saved stale mark has
seen a dead leader or belongs to a job somebody gave up looking at). The proof
has a lemma for what the host steps keep, one per part of the invariant, and a
step per group of actions.

`KeepsPromises`: the initial state maps to the initial state of `JobRecord`, and
each action of `RemoteJobs` maps to one of its steps or leaves the mapped
variables alone. Beside `IndInv` that needs to know what a process that is about
to save will save: `SavedInv` (a saved record goes with the state of its run),
`LoadedInv` (a query or stop holds a record that was once saved),
`ForegroundInv` and `CleanupInv` (a foreground run that is over without a fault
has seen its command end or killed it) and `TrustInv` (which of the record's
statements may be relied on). The other theorems stand on these and one
invariant each:

* `RunningVisible` on `VisibleInv`: while nothing fails, the launcher starts a
  command only while run_remote waits for it, and run_remote is about to save
  another outcome than running only when the command is over or was never
  started. It supposes that no session stays open with the waiter, since then
  the 60 s of a background launch pass with the command running
  (`runner.py:115`, see above).
* `EndedReleased` on `LateInv` (a loaded record with a pid is one run_remote
  will not save again as running) and `ReleaseInv` (what a query found ended is
  still to be asked for, about to be marked, or not recorded as running any
  more). It supposes that init reaps: `kill -0` finds a zombie (`jobs.py:162`).
* `LogSafe` on `LogInv`: who deletes the log of a recorded background job is its
  fetcher, with the whole of it in the local file. It supposes that a command
  leaves no process behind, which could go on writing.
* `FinalKept` on `FinalInv`: whoever is about to save a verdict on a job (a query
  with a mark, a stop that holds it, a run under way) finds its record open,
  or already judged by the other of stop and query, or stale because a query
  could not look. It has no hypothesis: which verdicts may replace each other
  (`jobs.py:182`) is said by the property itself.

### Transfers and pipes

`PathTransferProofs` speaks of any files, processes, requests and bounds.
`SnapshotInv`, behind `SnapshotDelivered`, rests on contents never being used
again: if a file has the same content when it is read first and when it is read
again, it has had it all the time in between. The moment at which all files lay
at the source together is the end of the first reading; `HashedAt` and
`DeliveredAt` say which tree of that moment a hash or a delivered file belongs to.

`Undisturbed` is about a call during which nothing else happens, but which may
start among the remains of others. `CalmInv` says of such a call, step by step,
that what it has found, hashed, put into its stream and unpacked is what lies at
the source now, so that its verdict depends on its arguments and on what the
parser makes of their names (`Sound`) alone: a push fails for any name that does
not come back, a pull for one that comes back as another and not for one that is
dropped.

`SshPipeProofs` speaks of pipes and streams of any size. `PipeInv`, behind
`Delivered`, says that blocks are conserved (each is unwritten, in the pipe or
read) and that ssh ends well only after an empty pipe without a writer.
`NeverStuck` says where the local command may block: never while the CLI waits
for it, because `finally` has closed the pipe by then and ssh is over, and not
on its messages if they fit into their pipe (`WaitInv`). `Finite` gives a number
that every step makes smaller. From the two and the fairness of the processes
`PipeReturns` follows; that last step is the one only TLC takes.

### Records and machines

`JobStoreProofs` proves `TypeCorrect`, `Whole` (`Spec => []RecordsWhole`),
`OwnRecords` (`Spec => RecordsKept`) and `Settled` (`Spec => []SavesSettle`) for
any processes, calls, kills, seconds and sequence numbers. `CallInv` says what a
call knows of itself, `DirsInv` that a directory holds a record or the temporary
file of one, and `SettleInv` that without kills a temporary file belongs to
somebody who is about to rename it. `WriterInv` says of each file, temporary or
renamed already, that an empty one is still held by a writer and that, unless
two saves have had it open together (history variable `clashed`), one writer at
most holds it and nothing is mixed in it. So `Settled` allows a mixed record,
and no truncated one, exactly where two saves have clashed. `TurnInv` is for
processes in turn: only one is under way, its id has no other job's record, and
its handle and temporary file are its own.

`MachineUpProofs` proves `TypeCorrect`, `OkMeansReady`, `Converges` and
`DownLeavesNothing`, which state `UpMeansReady`, `UpConverges` and `DownCleans`
for any processes, tries and faults and any state the machine starts in.
`CalmInv` is what an up has made sure of at each of its steps and only a down or
a fault takes away, the workspace only where the user may make it
(`updown.py:165`, see above); `AloneInv` is what a call has seen and any other process may
change. The steps of other processes fall into three kinds, each with its lemma:
quiet ones leave standing what `Gentle` lists, disturbing ones end every other
call's `alone`, faults end every call's `calm`.

`MachineVerifyProofs` has two arguments. What the awk program prints is defined
by a recursion over the rows it reads; `ReadExists` shows that there is such a
function and `ReadPrints` by induction over the rows that it holds the numbers
of the cards read so far (see below for the induction). From that follows, by
cases, that the judgement of what the script says is the true one. `IndInv`
carries it through the calls: a process that judges or writes has facts that
the host it met could have given under the entry it loaded (`CallInv`), and a
process with sole access finds the file as it has left it (`FileInv`).

### Sync

`SyncGitProofs` speaks of any tree of repositories and any number of
overlapping syncs, edits and faults. `CallInv` says what a call knows in
whatever state the mirrors are: its queue is a rest of `Order`, and every
snapshot it has finished is `Built`, that is, records the snapshots of what is
mounted in it and lies one commit above its base. The lemma `MountedFirst`
carries the argument: what is mounted in a repository comes before it in the
order, so a later snapshot or push never changes what an earlier one relied on.
`PushInv` says what a push knows of the mirrors while nothing has failed: the
visited ones hold its snapshots and the probed parity commits are still there.
It begins with the probe, which reads one repository after the other while
another sync pushes, so that its answers are true each of its own moment.

`SuccessTrue` stands on `ReadsInv`. A verification reads HEAD and then the
status of each repository, the root last, so the moment at which all were as
reported is the root's. That the moment exists is not true of every behaviour:
between the last two reads another sync may check out another commit of the
root. The history variable `moved` says exactly that, and the property excludes
exactly that.

`QuietSucceeds` stands on `QuietsInv`, which follows a sync that nothing
disturbs through its steps: its snapshots are of the files as they are, a
mirror's parity ref is its snapshot or still the one it has probed, a work tree
is the snapshot's or the script has still to come to it, and a verification
reads what the script has done. Two facts about the tree are needed. The lemmas
from `ReachHolds` on show that the script reaches every repository (`Below`,
a recursive function, is the least set closed under mounting), and the deltas
apply because `HistoryKept` holds of whatever earlier syncs have left.

`MountsFollow` and `QuietSucceeds` assume that each repository has a mirror of
its own (`OneMirrorEach`; `sync_git.py:106` breaks it for a repository at the
path `root`, see above) and that `None` is no commit.

### Discovery

`LayoutProofs` speaks of every file system: any set of directories closed under
parents, any repositories, submodules, worktrees, ignore rules and machines
files. It begins with the facts about paths on which the rest stands
(`PathOrder`: prefixes of one path are comparable; `NearestIs`, `NearestOnly`).

* `NearestMachine` on `MergeInv`: the files merged so far come before those that
  are left, and each machine is defined by the last of them that defines it.
* `AllMounted` on `ScanInv` (what the owners asked so far have registered),
  `StackInv` (the calls under way lie inside each other, from the root on) and
  `ExtrasInv` (a candidate is still to be looked at or lies in a child that is
  mounted; when a call is over, every candidate below it is).
* `TreeCorrect` on `TreeInv`: of two mounted repositories one above the other
  the upper has a child above the lower (`ReachInv`); two children never lie in
  each other (`ApartInv`); nobody is finished twice or while under way
  (`OnceInv`); submodules come first and then candidates by depth, which is why
  a new child never lies above an old one (`TurnsInv`); what is mounted in a
  finished repository was finished before (`PostInv`). Together they give that
  being mounted in a repository and having it nearest above are the same.
* `TreeForSync` draws the conclusion for `SyncGit`: the repositories, order and
  children that discovery ends with satisfy `SyncAssumption`, on which all
  theorems of `SyncGitProofs` rest. It needs `Tidy`, the premise of `TreeSound`.

That a submodule lies strictly inside its repository is in `LayoutAssumption`,
because git accepts no other path in an index.

### How induction is done

The library's induction theorems take an operator as a parameter and cannot be
instantiated here. Where data have to be followed (rows of awk, repositories
below one, the nearest of several paths) the proofs use that `<` on the naturals
is well-founded instead: a set of numbers that is not empty has a least element
(`LeastNatural`), a bounded one a greatest (`GreatestNatural`), and the step is
a contradiction with it.

### Only model-checked

`LimitEnforced`, `LogComesHome`, `PipeReturns` and `NobodyLeft`: liveness, for
which the prover has neither fairness nor ENABLED. `StoppedMeansKilled` is the
refuted one. The hypotheses above are not needed in order to prove, they are
needed for the property to be true: the table of deviations says for each how
to see it fail.

## Abstractions

Shared by all modules: file contents, output, previews and messages are left
out. In `RemoteJobs` a record's load and save are atomic (`JobStore` opens them
up); pids are not reused; the `status` file of the log directory is left out
because nothing reads it; a stop or cleanup script whose connection breaks is
cut off where it stands, while a cut launcher may also run on; the KILL of a
cleanup follows its TERM in one step; one child stands for a group's other
members. `unseen`, `ended`, `agreed`, `quiet`, `moved`, `calm`, `alone` and
`clashed` are history variables: no action's guard reads them.

In `SyncGit` a process starts a second sync only when its earlier script is
over, the materialize script visits siblings in reverse postorder,
git's own object and ref updates are atomic, and `SuccessWasTrue` is asserted
unless another sync checks out another commit of the root between the
verification's readings of the root's HEAD and status. The bundle file on the
machine is not a variable: where two syncs pipe the same commit
(`SharesBundle`), either pipe may fail, since git refuses a bundle that is cut
or gone. In `MachineUp` docker version and the device probe belong to the
following step, and unlinking the marker is one step with looking for it;
whether the user may make the workspace (`writable`) is a property of the
machine that others may change, and where it is missing a sync or run fails. In
`JobStore` a call is a foreground run, and a killed process takes its remote
script with it.

In `PathTransfer` a content is a number never used before and a hash is the
content itself; tar's own "file changed as we read it" is one of the failures of
`Breaks`; a tar whose connection broke has stopped before the process's next
call; directories and symbolic links are left out; a path that the parser
misreads is taken to name no file. In `MachineVerify` only the
facts that decide a verdict or a list of cards are kept: load, memory, network
and versions are copied; a live probe has rows that parse; a card whose second
row is missing has the index of its first as its own number, and no host of the
run separates the two. In `SshPipe` ssh and the remote command are one
process. In `Layout` nothing changes while the command looks.

Not modelled: `install` (links made once by hand), command line, output and
local tool lookup (no state), and, of the configuration, the type checks of
single fields and the choice of fields in `resolve_endpoint` (a list of
independent conditions about text).

## Plan

Done, in this order: `RemoteHost` and `RemoteJobs` with their proofs,
`SyncGit`, `MachineUp`, `JobStore`, `PathTransfer` with its proofs,
`MachineVerify`, `Layout`, `JobRecord` with the refinement and its proof,
`SshPipe` with its proofs, the proofs about `JobStore`, `MachineUp`, `SyncGit`,
`MachineVerify` and `Layout`, and those of the remaining safety properties of
`RemoteJobs` and `PathTransfer`. Left:

1. An abstract `Sync` (the remote work tree is some snapshot; success means it
   was the caller's), refined by `SyncGit`.
2. `UpAndSync`, composing the marker of `MachineUp` with the `up` of `SyncGit`.
3. What `LimitEnforced` and `LogComesHome` need beside fairness, as `NeverStuck`
   and `Finite` say it for `PipeReturns`.
