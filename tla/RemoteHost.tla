----------------------------- MODULE RemoteHost -----------------------------
(***************************************************************************)
(* The remote side of `remote run`: the launcher script that run_remote    *)
(* sends over ssh, the process group of the user's command, the waiter     *)
(* that enforces the time limit of a background job, and the log directory *)
(* <workspace>/.remote-logs/<job_id> they share with every other script.   *)
(*                                                                         *)
(* A job's command is its process-group leader (bash cmd.sh) and one       *)
(* member `child' that stands for everything the command leaves in its     *)
(* group.  File contents are abstracted to which files exist.              *)
(***************************************************************************)
EXTENDS Naturals

CONSTANTS
    Jobs,       \* the job ids
    Modes,      \* the ways `remote run' is called, see Mode
    Forks,      \* may a command leave children in its process group?
    Reaps,      \* does the endpoint's init reap orphans?  FALSE in a container
                \* made by `remote up', whose PID 1 is tail -f /dev/null
    TimeLimit   \* --timeout, in polls of the waiter

(* bg: --background; kept: --logs tail or full (a job record is kept).     *)
Mode == [bg : BOOLEAN, kept : BOOLEAN]

ASSUME HostAssumption ==
    /\ Modes \subseteq Mode
    /\ Forks \in BOOLEAN
    /\ Reaps \in BOOLEAN
    /\ TimeLimit \in Nat

VARIABLES
    mode,       \* mode[j]: the options the script of j was generated for
    launcher,   \* launcher[j]: how far the launcher script has come
    leader,     \* leader[j]: the process whose pid is the job's pid
    child,      \* child[j]: the rest of its process group
    waiter,     \* waiter[j]: the background subshell of the launcher
    elapsed,    \* elapsed[j]: the waiter's ELAPSED
    dir,        \* dir[j]: does LOG_DIR exist?
    files       \* files[j]: which of LOG_DIR/pid, LOG_DIR/done exist

hostVars == <<mode, launcher, leader, child, waiter, elapsed, dir, files>>

LauncherState == {"off", "sent", "prepared", "spawned", "reported",
                  "exited", "failed", "cut"}
LeaderState   == {"none", "alive", "zombie", "dead"}
ChildState    == {"none", "alive", "dead"}
WaiterState   == {"off", "polling", "killing", "marking", "ended", "lost"}
DirState      == {"absent", "present", "removed"}

HostTypeOK ==
    /\ mode \in [Jobs -> Mode]
    /\ launcher \in [Jobs -> LauncherState]
    /\ leader \in [Jobs -> LeaderState]
    /\ child \in [Jobs -> ChildState]
    /\ waiter \in [Jobs -> WaiterState]
    /\ elapsed \in [Jobs -> 0 .. TimeLimit]
    /\ dir \in [Jobs -> DirState]
    /\ files \in [Jobs -> SUBSET {"pid", "done"}]

HostInit ==
    /\ mode \in [Jobs -> Modes]
    /\ launcher = [j \in Jobs |-> "off"]
    /\ leader = [j \in Jobs |-> "none"]
    /\ child = [j \in Jobs |-> "none"]
    /\ waiter = [j \in Jobs |-> "off"]
    /\ elapsed = [j \in Jobs |-> 0]
    /\ dir = [j \in Jobs |-> "absent"]
    /\ files = [j \in Jobs |-> {}]

-----------------------------------------------------------------------------
(* Processes and signals.                                                  *)

(* kill -0 PID succeeds, also on a zombie that nobody has waited for.      *)
Signalable(j) == leader[j] \in {"alive", "zombie"}

(* While its launcher is there, bash waits for the leader; afterwards the  *)
(* leader belongs to the endpoint's init.                                  *)
Corpse(j) ==
    IF launcher[j] \in {"exited", "cut"} /\ ~Reaps THEN "zombie" ELSE "dead"

LeaderKilled(j) == IF leader[j] = "alive" THEN Corpse(j) ELSE leader[j]
ChildKilled(j)  == IF child[j] = "alive" THEN "dead" ELSE child[j]

(* kill -TERM -- -PID: any member of the group may ignore it.              *)
TermGroup(j) ==
    /\ \E lead \in {leader[j], LeaderKilled(j)} :
          leader' = [leader EXCEPT ![j] = lead]
    /\ \E kid \in {child[j], ChildKilled(j)} :
          child' = [child EXCEPT ![j] = kid]

(* Faulty variant: the second signal is TERM again.                        *)
KillGroupPolitely(j) == TermGroup(j)

(* kill -KILL -- -PID: no member survives.                                 *)
KillGroup(j) ==
    /\ leader' = [leader EXCEPT ![j] = LeaderKilled(j)]
    /\ child' = [child EXCEPT ![j] = ChildKilled(j)]

GroupAlive(j) == leader[j] = "alive" \/ child[j] = "alive"

(* printf > LOG_DIR/f fails quietly once the directory is gone.            *)
WriteFile(j, f) ==
    files' = [files EXCEPT ![j] = IF dir[j] = "present" THEN @ \cup {f} ELSE @]

(* rm -rf LOG_DIR                                                          *)
RemoveDir(j) ==
    /\ dir' = [dir EXCEPT ![j] = IF @ = "present" THEN "removed" ELSE @]
    /\ files' = [files EXCEPT ![j] = {}]

-----------------------------------------------------------------------------
(* The launcher script.                                                    *)

(* mkdir LOG_DIR, write cmd.sh, mkdir and cd to the working directory.     *)
LauncherPrepares(j) ==
    /\ launcher[j] = "sent"
    /\ launcher' = [launcher EXCEPT ![j] = "prepared"]
    /\ dir' = [dir EXCEPT ![j] = "present"]
    /\ UNCHANGED <<mode, leader, child, waiter, elapsed, files>>

(* exit 92 .. 95: one of them fails; only 92 leaves no directory behind.   *)
LauncherFails(j) ==
    /\ launcher[j] = "sent"
    /\ launcher' = [launcher EXCEPT ![j] = "failed"]
    /\ \E d \in {"absent", "present"} : dir' = [dir EXCEPT ![j] = d]
    /\ UNCHANGED <<mode, leader, child, waiter, elapsed, files>>

(* Start bash cmd.sh in its own process group; it ends at once when a      *)
(* cleanup has already removed cmd.sh.                                     *)
LauncherSpawns(j) ==
    /\ launcher[j] = "prepared"
    /\ launcher' = [launcher EXCEPT ![j] = "spawned"]
    /\ leader' = [leader EXCEPT ![j] =
                     IF dir[j] = "present" THEN "alive" ELSE "dead"]
    /\ UNCHANGED <<mode, child, waiter, elapsed, dir, files>>

(* Write the pid file, print __RP_PID__.                                   *)
LauncherReports(j) ==
    /\ launcher[j] = "spawned"
    /\ launcher' = [launcher EXCEPT ![j] = "reported"]
    /\ WriteFile(j, "pid")
    /\ UNCHANGED <<mode, leader, child, waiter, elapsed, dir>>

(* Background: fork the waiter and exit.                                   *)
LauncherDetaches(j) ==
    /\ launcher[j] = "reported"
    /\ mode[j].bg
    /\ launcher' = [launcher EXCEPT ![j] = "exited"]
    /\ waiter' = [waiter EXCEPT ![j] = "polling"]
    /\ UNCHANGED <<mode, leader, child, elapsed, dir, files>>

(* Foreground: wait for the leader, write done, rm -rf, exit with its code.*)
LauncherFinishes(j) ==
    /\ launcher[j] = "reported"
    /\ ~mode[j].bg
    /\ leader[j] # "alive"
    /\ launcher' = [launcher EXCEPT ![j] = "exited"]
    /\ RemoveDir(j)
    /\ UNCHANGED <<mode, leader, child, waiter, elapsed>>

LauncherStep(j) ==
    \/ LauncherPrepares(j) \/ LauncherFails(j)    \/ LauncherSpawns(j)
    \/ LauncherReports(j)  \/ LauncherDetaches(j) \/ LauncherFinishes(j)

-----------------------------------------------------------------------------
(* The user's command.                                                     *)

CommandForks(j) ==
    /\ Forks
    /\ leader[j] = "alive"
    /\ child[j] = "none"
    /\ child' = [child EXCEPT ![j] = "alive"]
    /\ UNCHANGED <<mode, launcher, leader, waiter, elapsed, dir, files>>

CommandExits(j) ==
    /\ leader[j] = "alive"
    /\ leader' = [leader EXCEPT ![j] = Corpse(j)]
    /\ UNCHANGED <<mode, launcher, child, waiter, elapsed, dir, files>>

ChildExits(j) ==
    /\ child[j] = "alive"
    /\ child' = [child EXCEPT ![j] = "dead"]
    /\ UNCHANGED <<mode, launcher, leader, waiter, elapsed, dir, files>>

-----------------------------------------------------------------------------
(* The waiter of a background job.                                         *)

(* Faulty variant: one poll too many.                                      *)
WaiterPollsOnceMore(j) ==
    /\ waiter[j] = "polling"
    /\ Signalable(j)
    /\ elapsed[j] <= TimeLimit
    /\ elapsed' = [elapsed EXCEPT ![j] = @ + 1]
    /\ UNCHANGED <<mode, launcher, leader, child, waiter, dir, files>>

(* sleep 1; the poll is counted.                                           *)
WaiterPolls(j) ==
    /\ waiter[j] = "polling"
    /\ Signalable(j)
    /\ elapsed[j] < TimeLimit
    /\ elapsed' = [elapsed EXCEPT ![j] = @ + 1]
    /\ UNCHANGED <<mode, launcher, leader, child, waiter, dir, files>>

(* kill -0 failed: leave the loop.                                         *)
WaiterSeesExit(j) ==
    /\ waiter[j] = "polling"
    /\ ~Signalable(j)
    /\ waiter' = [waiter EXCEPT ![j] = "marking"]
    /\ UNCHANGED <<mode, launcher, leader, child, elapsed, dir, files>>

(* Faulty variant: the limit is compared the wrong way round.              *)
WaiterTermsTooLate(j) ==
    /\ waiter[j] = "polling"
    /\ Signalable(j)
    /\ elapsed[j] > TimeLimit
    /\ TermGroup(j)
    /\ waiter' = [waiter EXCEPT ![j] = "killing"]
    /\ UNCHANGED <<mode, launcher, elapsed, dir, files>>

(* The limit is reached: TERM, wait 2 s, then KILL.                        *)
WaiterTerms(j) ==
    /\ waiter[j] = "polling"
    /\ Signalable(j)
    /\ elapsed[j] >= TimeLimit
    /\ TermGroup(j)
    /\ waiter' = [waiter EXCEPT ![j] = "killing"]
    /\ UNCHANGED <<mode, launcher, elapsed, dir, files>>

WaiterKills(j) ==
    /\ waiter[j] = "killing"
    /\ KillGroup(j)
    /\ waiter' = [waiter EXCEPT ![j] = "marking"]
    /\ UNCHANGED <<mode, launcher, elapsed, dir, files>>

(* Faulty variants: the directory is removed although a fetcher waits for  *)
(* it; done is not written.                                                *)
WaiterMarksAndCleans(j) ==
    /\ waiter[j] = "marking"
    /\ waiter' = [waiter EXCEPT ![j] = "ended"]
    /\ RemoveDir(j)
    /\ UNCHANGED <<mode, launcher, leader, child, elapsed>>

WaiterLeavesNoMark(j) ==
    /\ waiter[j] = "marking"
    /\ waiter' = [waiter EXCEPT ![j] = "ended"]
    /\ IF mode[j].kept THEN UNCHANGED <<dir, files>> ELSE RemoveDir(j)
    /\ UNCHANGED <<mode, launcher, leader, child, elapsed>>

(* Write done; without a fetcher (--logs none) remove the directory too.   *)
WaiterMarks(j) ==
    /\ waiter[j] = "marking"
    /\ waiter' = [waiter EXCEPT ![j] = "ended"]
    /\ IF mode[j].kept
          THEN WriteFile(j, "done") /\ UNCHANGED dir
          ELSE RemoveDir(j)
    /\ UNCHANGED <<mode, launcher, leader, child, elapsed>>

WaiterStep(j) ==
    \/ WaiterPolls(j) \/ WaiterSeesExit(j) \/ WaiterTerms(j)
    \/ WaiterKills(j) \/ WaiterMarks(j)

HostStep(j) ==
    \/ LauncherStep(j) \/ WaiterStep(j)
    \/ CommandForks(j) \/ CommandExits(j) \/ ChildExits(j)
=============================================================================
