----------------------------- MODULE RemoteJobs -----------------------------
(***************************************************************************)
(* The life of a job: `remote run' (runner.py), the log fetcher it spawns, *)
(* `remote jobs' with its reconcile, `remote stop' and                     *)
(* `remote logs --follow' (jobs.py), as processes that share the job       *)
(* records under state/jobs/ and, over ssh, the remote side described in   *)
(* module RemoteHost.                                                      *)
(*                                                                         *)
(* Every ssh call is split where another process can come between: the     *)
(* call, the steps of the script on the remote side, the local reaction.   *)
(* A lost connection, a timeout, a killed CLI, a restarted machine or a    *)
(* removed configuration is a fault; MaxFaults bounds their number.        *)
(***************************************************************************)
EXTENDS RemoteHost

CONSTANTS
    Machines,   \* the aliases in machines.json
    MachineOf,  \* MachineOf[j]: where job j is sent
    Queriers,   \* processes that call jobs()
    Stoppers,   \* processes that call job_stop()
    Followers,  \* processes that call `remote logs --follow'
    SessionHeld,\* does an ssh session stay open while the waiter, which
                \* inherited its stdout, lives?  sshd: {TRUE}; docker exec:
                \* {FALSE}; left open: BOOLEAN
    MaxFaults,  \* bound on the number of faults
    NoJob       \* no job

ASSUME JobsAssumption ==
    /\ MachineOf \in [Jobs -> Machines]
    /\ SessionHeld \subseteq BOOLEAN
    /\ MaxFaults \in Nat
    /\ NoJob \notin Jobs

VARIABLES
    run,        \* run[j]: control state of the `remote run' of j
    mine,       \* mine[j]: its Job object in memory
    meta,       \* meta[j]: state/jobs/<j>/meta.json
    fetcher,    \* fetcher[j]: the log fetcher process
    log,        \* log[j]: the local log file
    query,      \* query[q]: control state of a jobs() call
    snap,       \* snap[q]: the records it loaded
    todo,       \* todo[q]: machines it has not asked yet
    marks,      \* marks[q]: loaded jobs it is about to save as stale
    ended,      \* ended[q]: (history) jobs whose recorded process had ended
                \* when the call loaded the records
    unseen,     \* (history) jobs given up without looking at their process
    stop,       \* stop[s]: control state of a job_stop() call
    held,       \* held[s]: its job and the record it loaded
    follow,     \* follow[w]: control state of a `logs --follow'
    watched,    \* watched[w]: its job
    faults      \* number of faults so far

runVars    == <<run, mine>>
fetchVars  == <<fetcher, log>>
queryVars  == <<query, snap, todo, marks, ended, unseen>>
stopVars   == <<stop, held>>
followVars == <<follow, watched>>
localVars  == <<runVars, meta, fetchVars, queryVars, stopVars, followVars>>
vars       == <<hostVars, localVars, faults>>

(* "absent" is the status of a job that has no meta.json.                  *)
Status == {"absent", "running", "done", "failed", "timeout", "stopped", "stale"}
Record == [status : Status, pid : BOOLEAN]
NoRecord == [status |-> "absent", pid |-> FALSE]

(* A job object whose status alone is assigned.                            *)
WithStatus(rec, status) == [status |-> status, pid |-> rec.pid]

RunState == {"idle", "connecting", "waiting", "cleaning", "saving",
             "spawning", "ended", "dead"}
FetchState == {"off", "waiting", "deaf", "removing", "ended", "lost"}
LogState == {"absent", "empty", "cut", "full"}
StopState == {"idle", "terming", "killing", "marking", "saving"}

TypeOK ==
    /\ HostTypeOK
    /\ run \in [Jobs -> RunState]
    /\ mine \in [Jobs -> Record]
    /\ meta \in [Jobs -> Record]
    /\ fetcher \in [Jobs -> FetchState]
    /\ log \in [Jobs -> LogState]
    /\ query \in [Queriers -> {"idle", "asking", "listed"}]
    /\ snap \in [Queriers -> [Jobs -> Record]]
    /\ todo \in [Queriers -> SUBSET Machines]
    /\ marks \in [Queriers -> SUBSET Jobs]
    /\ ended \in [Queriers -> SUBSET Jobs]
    /\ unseen \in SUBSET Jobs
    /\ stop \in [Stoppers -> StopState]
    /\ held \in [Stoppers -> [job : Jobs \cup {NoJob}, rec : Record]]
    /\ follow \in [Followers -> {"idle", "remote", "local", "ended"}]
    /\ watched \in [Followers -> Jobs \cup {NoJob}]
    /\ faults \in 0 .. MaxFaults

Init ==
    /\ HostInit
    /\ run = [j \in Jobs |-> "idle"]
    /\ mine = [j \in Jobs |-> NoRecord]
    /\ meta = [j \in Jobs |-> NoRecord]
    /\ fetcher = [j \in Jobs |-> "off"]
    /\ log = [j \in Jobs |-> "absent"]
    /\ query = [q \in Queriers |-> "idle"]
    /\ snap = [q \in Queriers |-> [j \in Jobs |-> NoRecord]]
    /\ todo = [q \in Queriers |-> {}]
    /\ marks = [q \in Queriers |-> {}]
    /\ ended = [q \in Queriers |-> {}]
    /\ unseen = {}
    /\ stop = [s \in Stoppers |-> "idle"]
    /\ held = [s \in Stoppers |-> [job |-> NoJob, rec |-> NoRecord]]
    /\ follow = [w \in Followers |-> "idle"]
    /\ watched = [w \in Followers |-> NoJob]
    /\ faults = 0

Fault == faults < MaxFaults /\ faults' = faults + 1
NoFault == UNCHANGED faults

(* The connection breaks: the rest of a script that bash -s still reads    *)
(* from it may never arrive.                                               *)
Disconnect(j) ==
    \E l \in {launcher[j]} \cup
             (IF launcher[j] \in {"exited", "failed"} THEN {} ELSE {"cut"}) :
       launcher' = [launcher EXCEPT ![j] = l]

hostButLauncher == <<mode, leader, child, waiter, elapsed, dir, files>>

-----------------------------------------------------------------------------
(* run_remote                                                              *)

(* Take a fresh id and, unless --logs none, save the running record.       *)
Submit(j) ==
    /\ run[j] = "idle"
    /\ run' = [run EXCEPT ![j] = "connecting"]
    /\ mine' = [mine EXCEPT ![j] = [status |-> "running", pid |-> FALSE]]
    /\ meta' = [meta EXCEPT ![j] = IF mode[j].kept THEN mine'[j] ELSE @]
    /\ UNCHANGED <<hostVars, fetchVars, queryVars, stopVars, followVars>>
    /\ NoFault

(* Start ssh with the launcher script.                                     *)
Connect(j) ==
    /\ run[j] = "connecting"
    /\ run' = [run EXCEPT ![j] = "waiting"]
    /\ launcher' = [launcher EXCEPT ![j] = "sent"]
    /\ UNCHANGED <<hostButLauncher, mine, meta, fetchVars, queryVars,
                   stopVars, followVars>>
    /\ NoFault

(* The in-memory job gets its outcome; what follows is the final save.     *)
Conclude(j, status, pid) ==
    /\ mine' = [mine EXCEPT ![j] = [status |-> status, pid |-> pid]]
    /\ run' = [run EXCEPT ![j] = "saving"]

(* The waiter inherits the session's stdout and stderr.  sshd may end the  *)
(* session with the launcher or keep it open until the waiter ends, which  *)
(* may be later than QUICK_SSH_TIMEOUT_SEC.                                *)
SessionEnds(j) == FALSE \in SessionHeld \/ waiter[j] \in {"ended", "lost"}
SessionStalls(j) == TRUE \in SessionHeld /\ waiter[j] \notin {"ended", "lost"}

(* ssh returns 0 and the pid marker: the job stays running.                *)
BackgroundStarted(j) ==
    /\ run[j] = "waiting" /\ mode[j].bg
    /\ launcher[j] = "exited"
    /\ SessionEnds(j)
    /\ Conclude(j, "running", TRUE)
    /\ UNCHANGED <<hostVars, meta, fetchVars, queryVars, stopVars, followVars>>
    /\ NoFault

(* The launcher itself failed, in the background or the foreground.        *)
LaunchFailed(j) ==
    /\ run[j] = "waiting"
    /\ launcher[j] = "failed"
    /\ Conclude(j, "failed", FALSE)
    /\ log' = [log EXCEPT ![j] = IF mode[j].kept /\ ~mode[j].bg THEN "full" ELSE @]
    /\ UNCHANGED <<hostVars, meta, fetcher, queryVars, stopVars, followVars>>
    /\ NoFault

(* A held session outlives QUICK_SSH_TIMEOUT_SEC: SSHError, no fault.      *)
BackgroundTimesOut(j) ==
    /\ run[j] = "waiting" /\ mode[j].bg
    /\ launcher[j] = "exited" /\ SessionStalls(j)
    /\ Conclude(j, "failed", FALSE)
    /\ UNCHANGED <<hostVars, meta, fetchVars, queryVars, stopVars, followVars>>
    /\ NoFault

(* SSHError, or return code 255 without an exception: failed either way,   *)
(* and nothing is cleaned up on the remote side.                           *)
BackgroundLost(j) ==
    /\ run[j] = "waiting" /\ mode[j].bg
    /\ Disconnect(j)
    /\ Conclude(j, "failed", FALSE)
    /\ UNCHANGED <<hostButLauncher, meta, fetchVars, queryVars, stopVars,
                   followVars>>
    /\ Fault

(* The command of a foreground job has ended and ssh returns its code.     *)
ForegroundAnswered(j) ==
    /\ run[j] = "waiting" /\ ~mode[j].bg
    /\ launcher[j] = "exited"
    /\ \E status \in {"done", "failed"} : Conclude(j, status, TRUE)
    /\ log' = [log EXCEPT ![j] = IF mode[j].kept THEN "full" ELSE @]
    /\ UNCHANGED <<hostVars, meta, fetcher, queryVars, stopVars, followVars>>
    /\ NoFault

(* ssh returns 255: a CompletedProcess like any other, so no cleanup.      *)
ForegroundDropped(j) ==
    /\ run[j] = "waiting" /\ ~mode[j].bg
    /\ Disconnect(j)
    /\ \E pid \in BOOLEAN :
          /\ pid => launcher[j] \in {"reported", "exited"}
          /\ Conclude(j, "failed", pid)
    /\ log' = [log EXCEPT ![j] = IF mode[j].kept THEN "cut" ELSE @]
    /\ UNCHANGED <<hostButLauncher, meta, fetcher, queryVars, stopVars,
                   followVars>>
    /\ Fault

(* --timeout elapses while the command runs: SSHError, then _cleanup_remote*)
ForegroundTimesOut(j) ==
    /\ run[j] = "waiting" /\ ~mode[j].bg
    /\ launcher[j] = "reported"
    /\ run' = [run EXCEPT ![j] = "cleaning"]
    /\ mine' = [mine EXCEPT ![j] = WithStatus(@, "timeout")]
    /\ UNCHANGED <<hostVars, meta, fetchVars, queryVars, stopVars, followVars>>
    /\ NoFault

(* SSHError at any other moment: the timeout of a stalled connection, or   *)
(* ssh could not be run.                                                   *)
ForegroundErrs(j) ==
    /\ run[j] = "waiting" /\ ~mode[j].bg
    /\ Disconnect(j)
    /\ run' = [run EXCEPT ![j] = "cleaning"]
    /\ \E status \in {"timeout", "failed"} :
          mine' = [mine EXCEPT ![j] = WithStatus(@, status)]
    /\ UNCHANGED <<hostButLauncher, meta, fetchVars, queryVars, stopVars,
                   followVars>>
    /\ Fault

EmptyLog(j) ==
    log' = [log EXCEPT ![j] = IF mode[j].kept THEN "empty" ELSE @]

(* The cleanup script: kill the group named in the pid file, if there is   *)
(* one, then remove the directory.                                         *)
CleanupRuns(j) ==
    /\ run[j] = "cleaning"
    /\ IF "pid" \in files[j] THEN KillGroup(j) ELSE UNCHANGED <<leader, child>>
    /\ RemoveDir(j)
    /\ run' = [run EXCEPT ![j] = "saving"]
    /\ EmptyLog(j)
    /\ UNCHANGED <<mode, launcher, waiter, elapsed, mine, meta, fetcher,
                   queryVars, stopVars, followVars>>
    /\ NoFault

(* The cleanup's own SSHError is swallowed.                                *)
CleanupLost(j) ==
    /\ run[j] = "cleaning"
    /\ run' = [run EXCEPT ![j] = "saving"]
    /\ EmptyLog(j)
    /\ UNCHANGED <<hostVars, mine, meta, fetcher, queryVars, stopVars,
                   followVars>>
    /\ Fault

(* save_job, unless --logs none; a background job that runs goes on to its *)
(* log fetcher.                                                            *)
SaveOutcome(j) ==
    /\ run[j] = "saving"
    /\ meta' = [meta EXCEPT ![j] = IF mode[j].kept THEN mine[j] ELSE @]
    /\ run' = [run EXCEPT ![j] =
                  IF mode[j].kept /\ mine[j].status = "running"
                  THEN "spawning" ELSE "ended"]
    /\ UNCHANGED <<hostVars, mine, fetchVars, queryVars, stopVars, followVars>>
    /\ NoFault

(* _spawn_log_fetcher: truncate the local log, start ssh.                  *)
SpawnFetcher(j) ==
    /\ run[j] = "spawning"
    /\ run' = [run EXCEPT ![j] = "ended"]
    /\ fetcher' = [fetcher EXCEPT ![j] = "waiting"]
    /\ log' = [log EXCEPT ![j] = "empty"]
    /\ UNCHANGED <<hostVars, mine, meta, queryVars, stopVars, followVars>>
    /\ NoFault

(* Popen fails, or its ssh never connects: a warning at most.              *)
SpawnFails(j) ==
    /\ run[j] = "spawning"
    /\ run' = [run EXCEPT ![j] = "ended"]
    /\ log' = [log EXCEPT ![j] = "empty"]
    /\ UNCHANGED <<hostVars, mine, meta, fetcher, queryVars, stopVars,
                   followVars>>
    /\ Fault

(* The CLI is killed, or resolve_endpoint raises, between two of its steps.*)
RunnerDies(j) ==
    /\ run[j] \in {"connecting", "waiting", "cleaning", "saving", "spawning"}
    /\ run' = [run EXCEPT ![j] = "dead"]
    /\ IF run[j] = "waiting" THEN Disconnect(j) ELSE UNCHANGED launcher
    /\ UNCHANGED <<hostButLauncher, mine, meta, fetchVars, queryVars, stopVars,
                   followVars>>
    /\ Fault

RunStep(j) ==
    \/ Connect(j) \/ BackgroundStarted(j) \/ LaunchFailed(j)
    \/ BackgroundTimesOut(j) \/ ForegroundAnswered(j) \/ ForegroundTimesOut(j)
    \/ CleanupRuns(j) \/ SaveOutcome(j) \/ SpawnFetcher(j)

RunFault(j) ==
    \/ BackgroundLost(j) \/ ForegroundDropped(j) \/ ForegroundErrs(j)
    \/ CleanupLost(j) \/ SpawnFails(j) \/ RunnerDies(j)

-----------------------------------------------------------------------------
(* The log fetcher: one ssh process whose remote script polls for done,    *)
(* prints the log and removes the directory.                               *)

FetcherCopies(j) ==
    /\ fetcher[j] = "waiting"
    /\ "done" \in files[j]
    /\ fetcher' = [fetcher EXCEPT ![j] = "removing"]
    /\ log' = [log EXCEPT ![j] = IF GroupAlive(j) THEN "cut" ELSE "full"]
    /\ UNCHANGED <<hostVars, runVars, meta, queryVars, stopVars, followVars>>
    /\ NoFault

(* The local end is gone, the remote script goes on: its cat fails, its    *)
(* rm -rf does not.                                                        *)
FetcherCopiesToNobody(j) ==
    /\ fetcher[j] = "deaf"
    /\ "done" \in files[j]
    /\ fetcher' = [fetcher EXCEPT ![j] = "removing"]
    /\ UNCHANGED <<hostVars, runVars, meta, log, queryVars, stopVars,
                   followVars>>
    /\ NoFault

FetcherRemoves(j) ==
    /\ fetcher[j] = "removing"
    /\ fetcher' = [fetcher EXCEPT ![j] = "ended"]
    /\ RemoveDir(j)
    /\ UNCHANGED <<mode, launcher, leader, child, waiter, elapsed, runVars,
                   meta, log, queryVars, stopVars, followVars>>
    /\ NoFault

FetcherStep(j) ==
    FetcherCopies(j) \/ FetcherCopiesToNobody(j) \/ FetcherRemoves(j)

FetcherDisconnects(j) ==
    /\ fetcher[j] = "waiting"
    /\ fetcher' = [fetcher EXCEPT ![j] = "deaf"]
    /\ UNCHANGED <<hostVars, runVars, meta, log, queryVars, stopVars,
                   followVars>>
    /\ Fault

-----------------------------------------------------------------------------
(* jobs(): load every record, then _reconcile machine by machine.          *)

RunningIn(q, m) ==
    {j \in Jobs : MachineOf[j] = m /\ snap[q][j].status = "running"}

(* The recorded process of j is no longer executing.                       *)
RecordedEnded(j) ==
    meta[j].status = "running" /\ meta[j].pid /\ leader[j] # "alive"

LoadRecords(q) ==
    /\ query[q] = "idle"
    /\ query' = [query EXCEPT ![q] = "asking"]
    /\ snap' = [snap EXCEPT ![q] = meta]
    /\ todo' = [todo EXCEPT ![q] =
                  {m \in Machines : \E j \in Jobs :
                       MachineOf[j] = m /\ meta[j].status = "running"}]
    /\ ended' = [ended EXCEPT ![q] = {j \in Jobs : RecordedEnded(j)}]
    /\ UNCHANGED <<hostVars, runVars, meta, fetchVars, marks, unseen,
                   stopVars, followVars>>
    /\ NoFault

(* The next machine of the loop; its stale marks are saved before the next.*)
AskingNext(q, m) ==
    /\ query[q] = "asking"
    /\ marks[q] = {}
    /\ m \in todo[q]
    /\ todo' = [todo EXCEPT ![q] = @ \ {m}]

(* No record with a pid: nothing can be verified, the jobs stay running.   *)
NothingToAsk(q, m) ==
    /\ AskingNext(q, m)
    /\ \A j \in RunningIn(q, m) : ~snap[q][j].pid
    /\ UNCHANGED <<hostVars, runVars, meta, fetchVars, query, snap, marks,
                   ended, unseen, stopVars, followVars>>
    /\ NoFault

(* Faulty variants: the answer for a pid is looked up under another key    *)
(* and never found; one live process on the machine vouches for all.       *)
FoundNoAnswer(q, m) == {j \in RunningIn(q, m) : snap[q][j].pid}

FoundAllDead(q, m) ==
    IF \E j \in RunningIn(q, m) : snap[q][j].pid /\ Signalable(j)
    THEN {} ELSE {j \in RunningIn(q, m) : snap[q][j].pid}

(* Of the jobs of a machine that answered, those to mark.                  *)
FoundDead(q, m) ==
    {j \in RunningIn(q, m) : snap[q][j].pid /\ ~Signalable(j)}

(* The machine answers kill -0 for every pid.                              *)
MachineAnswers(q, m) ==
    /\ AskingNext(q, m)
    /\ \E j \in RunningIn(q, m) : snap[q][j].pid
    /\ marks' = [marks EXCEPT ![q] = FoundDead(q, m)]
    /\ UNCHANGED <<hostVars, runVars, meta, fetchVars, query, snap, ended,
                   unseen, stopVars, followVars>>
    /\ NoFault

(* ssh returns 255 with no output: every pid counts as not alive.          *)
MachineDrops(q, m) ==
    /\ AskingNext(q, m)
    /\ \E j \in RunningIn(q, m) : snap[q][j].pid
    /\ marks' = [marks EXCEPT ![q] = {j \in RunningIn(q, m) : snap[q][j].pid}]
    /\ unseen' = unseen \cup marks'[q]
    /\ UNCHANGED <<hostVars, runVars, meta, fetchVars, query, snap, ended,
                   stopVars, followVars>>
    /\ Fault

(* Its configuration is gone, or SSHError when there is a pid to ask for:  *)
(* all its running jobs, also those without a pid.                         *)
MachineUnreachable(q, m) ==
    /\ AskingNext(q, m)
    /\ marks' = [marks EXCEPT ![q] = RunningIn(q, m)]
    /\ unseen' = unseen \cup RunningIn(q, m)
    /\ UNCHANGED <<hostVars, runVars, meta, fetchVars, query, snap, ended,
                   stopVars, followVars>>
    /\ Fault

(* _mark_stale saves the record as it was loaded.                          *)
MarkStale(q, j) ==
    /\ j \in marks[q]
    /\ marks' = [marks EXCEPT ![q] = @ \ {j}]
    /\ meta' = [meta EXCEPT ![j] = WithStatus(snap[q][j], "stale")]
    /\ UNCHANGED <<hostVars, runVars, fetchVars, query, snap, todo, ended,
                   unseen, stopVars, followVars>>
    /\ NoFault

ListJobs(q) ==
    /\ query[q] = "asking" /\ todo[q] = {} /\ marks[q] = {}
    /\ query' = [query EXCEPT ![q] = "listed"]
    /\ UNCHANGED <<hostVars, runVars, meta, fetchVars, snap, todo, marks,
                   ended, unseen, stopVars, followVars>>
    /\ NoFault

(* The call returns; its process may later call again.                     *)
QueryReturns(q) ==
    /\ query[q] = "listed"
    /\ query' = [query EXCEPT ![q] = "idle"]
    /\ snap' = [snap EXCEPT ![q] = [j \in Jobs |-> NoRecord]]
    /\ ended' = [ended EXCEPT ![q] = {}]
    /\ UNCHANGED <<hostVars, runVars, meta, fetchVars, todo, marks, unseen,
                   stopVars, followVars>>
    /\ NoFault

ReconcileStep(q) ==
    \/ \E m \in Machines : NothingToAsk(q, m) \/ MachineAnswers(q, m)
    \/ \E j \in Jobs : MarkStale(q, j)
    \/ ListJobs(q) \/ QueryReturns(q)

QueryFault(q) ==
    \E m \in Machines : MachineDrops(q, m) \/ MachineUnreachable(q, m)

-----------------------------------------------------------------------------
(* job_stop(): load and check, run the stop script, save.                  *)

(* Faulty variant: a job that is over is stopped all the same.             *)
StopLoadsFinished(s, j) ==
    /\ stop[s] = "idle"
    /\ meta[j].status # "stopped" /\ meta[j].pid
    /\ stop' = [stop EXCEPT ![s] = "terming"]
    /\ held' = [held EXCEPT ![s] = [job |-> j, rec |-> meta[j]]]
    /\ UNCHANGED <<hostVars, runVars, meta, fetchVars, queryVars, followVars>>
    /\ NoFault

(* Only a running record with a pid gets further; "stopped" returns at     *)
(* once and any other status is an error, without effect.                  *)
StopLoads(s, j) ==
    /\ stop[s] = "idle"
    /\ meta[j].status = "running" /\ meta[j].pid
    /\ stop' = [stop EXCEPT ![s] = "terming"]
    /\ held' = [held EXCEPT ![s] = [job |-> j, rec |-> meta[j]]]
    /\ UNCHANGED <<hostVars, runVars, meta, fetchVars, queryVars, followVars>>
    /\ NoFault

StopTerms(s, j) ==
    /\ stop[s] = "terming" /\ held[s].job = j
    /\ TermGroup(j)
    /\ stop' = [stop EXCEPT ![s] = "killing"]
    /\ UNCHANGED <<mode, launcher, waiter, elapsed, dir, files, held, runVars,
                   meta, fetchVars, queryVars, followVars>>
    /\ NoFault

(* After 2 s the group is killed if its leader can still be signalled.     *)
StopKills(s, j) ==
    /\ stop[s] = "killing" /\ held[s].job = j
    /\ IF Signalable(j) THEN KillGroup(j) ELSE UNCHANGED <<leader, child>>
    /\ stop' = [stop EXCEPT ![s] = "marking"]
    /\ UNCHANGED <<mode, launcher, waiter, elapsed, dir, files, held, runVars,
                   meta, fetchVars, queryVars, followVars>>
    /\ NoFault

StopMarks(s, j) ==
    /\ stop[s] = "marking" /\ held[s].job = j
    /\ WriteFile(j, "done")
    /\ stop' = [stop EXCEPT ![s] = "saving"]
    /\ UNCHANGED <<mode, launcher, leader, child, waiter, elapsed, dir, held,
                   runVars, meta, fetchVars, queryVars, followVars>>
    /\ NoFault

(* Save the loaded record as stopped, whatever return code ssh had.        *)
StopSaves(s, j) ==
    /\ stop[s] = "saving" /\ held[s].job = j
    /\ meta' = [meta EXCEPT ![j] = WithStatus(held[s].rec, "stopped")]
    /\ stop' = [stop EXCEPT ![s] = "idle"]
    /\ held' = [held EXCEPT ![s] = [job |-> NoJob, rec |-> NoRecord]]
    /\ UNCHANGED <<hostVars, runVars, fetchVars, queryVars, followVars>>
    /\ NoFault

StopStep(s, j) ==
    \/ StopTerms(s, j) \/ StopKills(s, j) \/ StopMarks(s, j) \/ StopSaves(s, j)

(* ssh returns 255, for instance before the script arrived; not checked.   *)
StopDropped(s) ==
    /\ stop[s] \in {"terming", "killing", "marking"}
    /\ stop' = [stop EXCEPT ![s] = "saving"]
    /\ UNCHANGED <<hostVars, runVars, meta, fetchVars, queryVars, held,
                   followVars>>
    /\ Fault

(* SSHError: the exception leaves the record as it is.                     *)
StopErrs(s) ==
    /\ stop[s] \in {"terming", "killing", "marking"}
    /\ stop' = [stop EXCEPT ![s] = "idle"]
    /\ held' = [held EXCEPT ![s] = [job |-> NoJob, rec |-> NoRecord]]
    /\ UNCHANGED <<hostVars, runVars, meta, fetchVars, queryVars, followVars>>
    /\ Fault

-----------------------------------------------------------------------------
(* `remote logs --follow': over ssh while the record is running and names  *)
(* a remote log, else by polling the local log and record.                 *)

FollowStarts(w, j) ==
    /\ follow[w] = "idle"
    /\ meta[j].status # "absent"
    /\ follow' = [follow EXCEPT ![w] =
                    IF meta[j].status = "running" /\ meta[j].pid
                    THEN "remote" ELSE "local"]
    /\ watched' = [watched EXCEPT ![w] = j]
    /\ UNCHANGED <<hostVars, runVars, meta, fetchVars, queryVars, stopVars>>
    /\ NoFault

FollowEnds(w, j) ==
    /\ watched[w] = j
    /\ \/ follow[w] = "remote" /\ "done" \in files[j]
       \/ follow[w] = "local" /\ meta[j].status # "running"
    /\ follow' = [follow EXCEPT ![w] = "ended"]
    /\ UNCHANGED <<hostVars, runVars, meta, fetchVars, queryVars, stopVars,
                   watched>>
    /\ NoFault

-----------------------------------------------------------------------------
(* A machine restarts: its processes and scripts are gone, its files stay. *)
HostRestarts(m) ==
    LET here(f, from, to) ==
          [j \in Jobs |-> IF MachineOf[j] = m /\ f[j] \in from THEN to ELSE f[j]]
    IN
    /\ leader' = here(leader, {"alive", "zombie"}, "dead")
    /\ child' = here(child, {"alive"}, "dead")
    /\ launcher' = here(launcher, LauncherState \ {"off", "exited", "failed"},
                        "cut")
    /\ waiter' = here(waiter, {"polling", "killing", "marking"}, "lost")
    /\ fetcher' = here(fetcher, {"waiting", "deaf", "removing"}, "lost")
    /\ stop' = [s \in Stoppers |->
                  IF /\ stop[s] \in {"terming", "killing", "marking"}
                     /\ held[s].job \in {j \in Jobs : MachineOf[j] = m}
                  THEN "saving" ELSE stop[s]]
    /\ UNCHANGED <<mode, elapsed, dir, files, runVars, meta, log, queryVars,
                   held, followVars>>
    /\ Fault

-----------------------------------------------------------------------------
HostMoves(j) ==
    HostStep(j) /\ UNCHANGED localVars /\ NoFault

Next ==
    \/ \E j \in Jobs :
          \/ Submit(j) \/ RunStep(j) \/ RunFault(j)
          \/ HostMoves(j)
          \/ FetcherStep(j) \/ FetcherDisconnects(j)
    \/ \E q \in Queriers :
          LoadRecords(q) \/ ReconcileStep(q) \/ QueryFault(q)
    \/ \E s \in Stoppers :
          \/ \E j \in Jobs : StopLoads(s, j) \/ StopStep(s, j)
          \/ StopDropped(s) \/ StopErrs(s)
    \/ \E w \in Followers, j \in Jobs : FollowStarts(w, j) \/ FollowEnds(w, j)
    \/ \E m \in Machines : HostRestarts(m)

Spec == Init /\ [][Next]_vars

(* Every process that has started a call finishes it; when a command ends, *)
(* when a user calls and when something fails is left open.                *)
Fairness ==
    /\ \A j \in Jobs :
          /\ WF_vars(RunStep(j))
          /\ WF_vars((LauncherStep(j) \/ WaiterStep(j))
                     /\ UNCHANGED localVars /\ NoFault)
          /\ WF_vars(FetcherStep(j))
    /\ \A q \in Queriers : WF_vars(ReconcileStep(q))
    /\ \A s \in Stoppers, j \in Jobs : WF_vars(StopStep(s, j))
    /\ \A w \in Followers, j \in Jobs : WF_vars(FollowEnds(w, j))

FairSpec == Spec /\ Fairness

-----------------------------------------------------------------------------
(* Properties.                                                             *)

Over(j) == leader[j] \in {"zombie", "dead"}

(* The done file, which lets the fetcher of a background job copy and      *)
(* delete the log, exists only after the command's leader has ended,       *)
(* whoever wrote it: the waiter or a stop script.                          *)
DoneMeansEnded ==
    \A j \in Jobs : "done" \in files[j] => leader[j] # "alive"

(* A record becomes stale only when its process has ended or some query    *)
(* could not look at it, also when the verdict was reached on a record     *)
(* that another process has changed since it was loaded.                   *)
StaleIsJustified ==
    \A j \in Jobs :
        meta[j].status = "stale" /\ j \notin unseen => leader[j] # "alive"

(* Occupancy is the set of running records: while the command of a         *)
(* recorded job executes, its record says running, also while a stop or a  *)
(* timeout is killing it, as long as nothing has failed.                   *)
OccupancyVisible ==
    \A j \in Jobs :
        mode[j].kept /\ leader[j] = "alive" /\ faults = 0
            => meta[j].status = "running"

(* A query that loaded a running record whose process had already ended    *)
(* does not list the job as running and leaves no such record behind.      *)
QueryReleasesEnded ==
    \A q \in Queriers :
        query[q] = "listed" => \A j \in ended[q] : meta[j].status # "running"

(* The remote copy of a recorded background job's log is deleted only      *)
(* after the whole log is in the local file.                               *)
LogNotLost ==
    \A j \in Jobs :
        mode[j] = [bg |-> TRUE, kept |-> TRUE] /\ dir[j] = "removed"
            => log[j] = "full"

(* A final status is overwritten only in two ways, whatever fails and      *)
(* however runs, queries and stops overlap: a stop and a query that both   *)
(* loaded the job as running replace each other's verdict, and a query     *)
(* that could not look may put "stale" over a verdict, which a later       *)
(* verdict may then replace.                                               *)
StatusFinal ==
    [][\A j \in Jobs :
          LET old == meta[j].status
              new == meta'[j].status
          IN  old \notin {"absent", "running"} /\ new # old
                 => \/ {old, new} = {"stopped", "stale"}
                    \/ j \in unseen /\ "stale" \in {old, new}]_vars

(* When a job is recorded as stopped, its process group has been killed.   *)
StoppedMeansKilled ==
    \A j \in Jobs : meta[j].status = "stopped" => ~GroupAlive(j)

(* Every run, stop and query together keep the promises of JobRecord: a    *)
(* verdict is the truth about the command until something fails, "done"    *)
(* and an unguessed "stale" even then.                                     *)
Promise == INSTANCE JobRecord WITH
    status  <- [j \in Jobs |-> meta[j].status],
    process <- [j \in Jobs |-> IF Over(j) THEN "over" ELSE leader[j]],
    trusted <- faults = 0,
    blind   <- unseen

RecordKeepsPromises == Promise!Spec

(* A background command whose waiter was started does not outlive its time *)
(* limit, whatever happens to the connection or to the local processes.    *)
LimitEnforced ==
    \A j \in Jobs : waiter[j] = "polling" ~> leader[j] # "alive"

(* Unless something fails, the log directory of a background job goes away *)
(* in the end, and the log of a recorded one reaches the local file.       *)
LogComesHome ==
    \A j \in Jobs :
        waiter[j] = "polling" ~>
            \/ dir[j] = "removed" /\ (mode[j].kept => log[j] = "full")
            \/ faults > 0

(* A follower of a background job whose command has ended returns.         *)
FollowerReturns ==
    \A w \in Followers, j \in Jobs :
        follow[w] = "remote" /\ watched[w] = j /\ leader[j] # "alive"
            ~> follow[w] = "ended"

-----------------------------------------------------------------------------
(* The inductive invariant behind DoneMeansEnded and StaleIsJustified,     *)
(* proved in RemoteJobsProofs.                                             *)

(* The launcher starts the leader once; before that run_remote has not     *)
(* sent it or its script is still before that line.                        *)
LauncherInv ==
    \A j \in Jobs :
        /\ launcher[j] \in {"off", "sent", "prepared"} => leader[j] = "none"
        /\ launcher[j] \in {"spawned", "reported", "exited"}
              => leader[j] # "none"
        /\ run[j] \in {"idle", "connecting"} => launcher[j] = "off"
        /\ waiter[j] # "off" => leader[j] # "none"

(* A pid in a record, on disk or in the memory of any process, is that of  *)
(* a command that was started.                                             *)
PidInv ==
    /\ \A j \in Jobs : meta[j].pid \/ mine[j].pid => leader[j] # "none"
    /\ \A q \in Queriers, j \in Jobs : snap[q][j].pid => leader[j] # "none"
    /\ \A s \in Stoppers, j \in Jobs : held[s].job = j => leader[j] # "none"

(* Whoever is about to write done, or has written it, comes after the end  *)
(* of the command.                                                         *)
DoneInv ==
    /\ \A j \in Jobs : waiter[j] = "marking" \/ "done" \in files[j] => Over(j)
    /\ \A s \in Stoppers, j \in Jobs :
          stop[s] = "marking" /\ held[s].job = j => Over(j)

(* Whoever is about to save stale, or has saved it, has seen the end of    *)
(* the command or has given up looking.                                    *)
StaleInv ==
    /\ \A j \in Jobs : mine[j].status # "stale"
    /\ \A q \in Queriers, j \in Jobs :
          j \in marks[q] => j \in unseen \/ leader[j] = "dead"
    /\ \A j \in Jobs :
          meta[j].status = "stale" => j \in unseen \/ leader[j] = "dead"

IndInv == TypeOK /\ LauncherInv /\ PidInv /\ DoneInv /\ StaleInv
=============================================================================
