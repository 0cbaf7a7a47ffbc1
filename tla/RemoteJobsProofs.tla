-------------------------- MODULE RemoteJobsProofs --------------------------
(***************************************************************************)
(* Theorems about RemoteJobs for every set of jobs, machines and callers,  *)
(* every time limit and every number of faults: types; done and stale tell *)
(* of the end; RemoteJobs implements JobRecord; ended jobs are released,   *)
(* running ones visible, logs not lost, verdicts final.                    *)
(***************************************************************************)
EXTENDS RemoteJobs, TLAPS

-----------------------------------------------------------------------------
(* Type correctness.                                                       *)

LEMMA TypeInit == Init => TypeOK
<1> SUFFICES ASSUME Init PROVE TypeOK
  OBVIOUS
<1>1. HostTypeOK
  BY HostAssumption DEF Init, HostInit, HostTypeOK, LauncherState, LeaderState,
                        ChildState, WaiterState, DirState
<1>2. NoRecord \in Record
  BY DEF NoRecord, Record, Status
<1>3. /\ query \in [Queriers -> {"idle", "asking", "listed"}]
      /\ snap \in [Queriers -> [Jobs -> Record]]
      /\ todo \in [Queriers -> SUBSET Machines]
      /\ marks \in [Queriers -> SUBSET Jobs]
      /\ ended \in [Queriers -> SUBSET Jobs]
      /\ unseen \in SUBSET Jobs
  BY <1>2 DEF Init
<1>4. /\ stop \in [Stoppers -> StopState]
      /\ held \in [Stoppers -> [job : Jobs \cup {NoJob}, rec : Record]]
  BY <1>2 DEF Init, StopState
<1>5. /\ run \in [Jobs -> RunState]
      /\ mine \in [Jobs -> Record]
      /\ meta \in [Jobs -> Record]
      /\ fetcher \in [Jobs -> FetchState]
      /\ log \in [Jobs -> LogState]
  BY <1>2 DEF Init, RunState, FetchState, LogState
<1>6. /\ follow \in [Followers -> {"idle", "remote", "local", "ended"}]
      /\ watched \in [Followers -> Jobs \cup {NoJob}]
      /\ faults \in 0 .. MaxFaults
  BY JobsAssumption DEF Init
<1> QED
  BY <1>1, <1>3, <1>4, <1>5, <1>6 DEF TypeOK

(* What a signal leaves of a process group is a state of its members.      *)
LEMMA KilledType ==
  ASSUME HostTypeOK, NEW j \in Jobs
  PROVE  /\ Corpse(j) \in {"zombie", "dead"}
         /\ LeaderKilled(j) \in LeaderState
         /\ ChildKilled(j) \in ChildState
BY DEF HostTypeOK, Corpse, LeaderKilled, ChildKilled, LeaderState, ChildState

LEMMA SignalType ==
  ASSUME HostTypeOK, NEW j \in Jobs,
         TermGroup(j) \/ KillGroup(j) \/ UNCHANGED <<leader, child>>
  PROVE  /\ leader' \in [Jobs -> LeaderState]
         /\ child' \in [Jobs -> ChildState]
BY KilledType DEF HostTypeOK, TermGroup, KillGroup

LEMMA FileType ==
  ASSUME HostTypeOK, NEW j \in Jobs
  PROVE  /\ RemoveDir(j) => /\ dir' \in [Jobs -> DirState]
                            /\ files' \in [Jobs -> SUBSET {"pid", "done"}]
         /\ WriteFile(j, "pid") => files' \in [Jobs -> SUBSET {"pid", "done"}]
         /\ WriteFile(j, "done") => files' \in [Jobs -> SUBSET {"pid", "done"}]
BY DEF HostTypeOK, RemoveDir, WriteFile, DirState

LEMMA HostStepType ==
  ASSUME HostTypeOK, NEW j \in Jobs, HostStep(j)
  PROVE  HostTypeOK'
<1> USE DEF HostTypeOK
<1>1. CASE LauncherPrepares(j)
  BY <1>1 DEF LauncherPrepares, LauncherState, DirState
<1>2. CASE LauncherFails(j)
  BY <1>2 DEF LauncherFails, LauncherState, DirState
<1>3. CASE LauncherSpawns(j)
  BY <1>3 DEF LauncherSpawns, LauncherState, LeaderState
<1>4. CASE LauncherReports(j)
  BY <1>4, FileType DEF LauncherReports, LauncherState
<1>5. CASE LauncherDetaches(j)
  BY <1>5 DEF LauncherDetaches, LauncherState, WaiterState
<1>6. CASE LauncherFinishes(j)
  BY <1>6, FileType DEF LauncherFinishes, LauncherState
<1>7. CASE WaiterPolls(j)
  <2>1. elapsed[j] + 1 \in 0 .. TimeLimit
    BY <1>7, HostAssumption DEF WaiterPolls
  <2> QED
    BY <1>7, <2>1 DEF WaiterPolls
<1>8. CASE WaiterSeesExit(j)
  BY <1>8 DEF WaiterSeesExit, WaiterState
<1>9. CASE WaiterTerms(j)
  BY <1>9, SignalType DEF WaiterTerms, WaiterState
<1>10. CASE WaiterKills(j)
  BY <1>10, SignalType DEF WaiterKills, WaiterState
<1>11. CASE WaiterMarks(j)
  BY <1>11, FileType DEF WaiterMarks, WaiterState
<1>12. CASE CommandForks(j)
  BY <1>12 DEF CommandForks, ChildState
<1>13. CASE CommandExits(j)
  BY <1>13, KilledType DEF CommandExits, LeaderState
<1>14. CASE ChildExits(j)
  BY <1>14 DEF ChildExits, ChildState
<1> QED
  BY <1>1, <1>2, <1>3, <1>4, <1>5, <1>6, <1>7, <1>8, <1>9, <1>10, <1>11,
     <1>12, <1>13, <1>14 DEF HostStep, LauncherStep, WaiterStep

-----------------------------------------------------------------------------
(* The local side.  Every step below changes only what its action names.   *)

LEMMA RunType ==
  ASSUME TypeOK, NEW j \in Jobs, Submit(j) \/ RunStep(j)
  PROVE  TypeOK'
<1> USE JobsAssumption DEF TypeOK, NoFault, Record
<1>1. CASE Submit(j)
  <2>1. meta' \in [Jobs -> Record] /\ mine' \in [Jobs -> Record]
    BY <1>1 DEF Submit, Status
  <2> QED
    BY <1>1, <2>1 DEF Submit, RunState, hostVars, HostTypeOK, fetchVars, queryVars,
                      stopVars, followVars
<1>2. CASE Connect(j)
  BY <1>2 DEF Connect, RunState, LauncherState, hostButLauncher, HostTypeOK,
              fetchVars, queryVars, stopVars, followVars
<1>3. CASE BackgroundStarted(j)
  BY <1>3 DEF BackgroundStarted, Conclude, RunState, Status, hostVars, HostTypeOK,
              fetchVars, queryVars, stopVars, followVars
<1>4. CASE LaunchFailed(j)
  BY <1>4 DEF LaunchFailed, Conclude, RunState, Status, LogState, hostVars,
              HostTypeOK, queryVars, stopVars, followVars
<1>5. CASE BackgroundTimesOut(j)
  BY <1>5 DEF BackgroundTimesOut, Conclude, RunState, Status, hostVars,
              HostTypeOK, fetchVars, queryVars, stopVars, followVars
<1>6. CASE ForegroundAnswered(j)
  BY <1>6 DEF ForegroundAnswered, Conclude, RunState, Status, LogState,
              hostVars, HostTypeOK, queryVars, stopVars, followVars
<1>7. CASE ForegroundTimesOut(j)
  BY <1>7 DEF ForegroundTimesOut, WithStatus, RunState, Status, hostVars, HostTypeOK,
              fetchVars, queryVars, stopVars, followVars
<1>8. CASE CleanupRuns(j)
  <2>1. HostTypeOK'
    BY <1>8, SignalType, FileType DEF CleanupRuns, HostTypeOK
  <2> QED
    BY <1>8, <2>1 DEF CleanupRuns, EmptyLog, RunState, LogState, queryVars,
                      stopVars, followVars
<1>9. CASE SaveOutcome(j)
  BY <1>9 DEF SaveOutcome, RunState, hostVars, HostTypeOK, fetchVars, queryVars,
              stopVars, followVars
<1>10. CASE SpawnFetcher(j)
  BY <1>10 DEF SpawnFetcher, RunState, FetchState, LogState, hostVars,
               HostTypeOK, queryVars, stopVars, followVars
<1> QED
  BY <1>1, <1>2, <1>3, <1>4, <1>5, <1>6, <1>7, <1>8, <1>9, <1>10 DEF RunStep

LEMMA DisconnectType ==
  ASSUME HostTypeOK, NEW j \in Jobs, Disconnect(j) \/ UNCHANGED launcher,
         UNCHANGED hostButLauncher
  PROVE  HostTypeOK'
BY DEF HostTypeOK, Disconnect, hostButLauncher, LauncherState

LEMMA FaultType == TypeOK /\ Fault => faults' \in 0 .. MaxFaults
BY JobsAssumption DEF TypeOK, Fault

LEMMA RunFaultType ==
  ASSUME TypeOK, NEW j \in Jobs, RunFault(j)
  PROVE  TypeOK'
<1>1. faults' \in 0 .. MaxFaults
  BY FaultType DEF RunFault, BackgroundLost, ForegroundDropped, ForegroundErrs,
                   CleanupLost, SpawnFails, RunnerDies
<1>2. HostTypeOK'
  <2>1. HostTypeOK
    BY DEF TypeOK
  <2>2. CASE UNCHANGED hostVars
    BY <2>1, <2>2 DEF HostTypeOK, hostVars
  <2> QED
    BY <2>1, <2>2, DisconnectType
    DEF RunFault, BackgroundLost, ForegroundDropped, ForegroundErrs,
        CleanupLost, SpawnFails, RunnerDies
<1> USE <1>1, <1>2 DEF TypeOK, Record
<1>3. CASE BackgroundLost(j)
  BY <1>3 DEF BackgroundLost, Conclude, RunState, Status, fetchVars, queryVars,
              stopVars, followVars
<1>4. CASE ForegroundDropped(j)
  BY <1>4 DEF ForegroundDropped, Conclude, RunState, Status, LogState, queryVars,
              stopVars, followVars
<1>5. CASE ForegroundErrs(j)
  BY <1>5 DEF ForegroundErrs, WithStatus, RunState, Status, fetchVars,
              queryVars, stopVars, followVars
<1>6. CASE CleanupLost(j)
  BY <1>6 DEF CleanupLost, EmptyLog, RunState, LogState, queryVars, stopVars,
              followVars
<1>7. CASE SpawnFails(j)
  BY <1>7 DEF SpawnFails, RunState, LogState, queryVars, stopVars, followVars
<1>8. CASE RunnerDies(j)
  BY <1>8 DEF RunnerDies, RunState, fetchVars, queryVars, stopVars, followVars
<1> QED
  BY <1>3, <1>4, <1>5, <1>6, <1>7, <1>8 DEF RunFault

LEMMA FetcherType ==
  ASSUME TypeOK, NEW j \in Jobs, FetcherStep(j) \/ FetcherDisconnects(j)
  PROVE  TypeOK'
<1> USE DEF TypeOK, HostTypeOK, FetchState, NoFault, runVars, queryVars, stopVars,
            followVars
<1>1. CASE FetcherCopies(j)
  BY <1>1 DEF FetcherCopies, LogState, hostVars
<1>2. CASE FetcherCopiesToNobody(j)
  BY <1>2 DEF FetcherCopiesToNobody, hostVars
<1>3. CASE FetcherRemoves(j)
  BY <1>3, FileType DEF FetcherRemoves
<1>4. CASE FetcherDisconnects(j)
  BY <1>4, FaultType DEF FetcherDisconnects, hostVars
<1> QED
  BY <1>1, <1>2, <1>3, <1>4 DEF FetcherStep

LEMMA QueryType ==
  ASSUME TypeOK, NEW q \in Queriers, LoadRecords(q) \/ ReconcileStep(q)
  PROVE  TypeOK'
<1> USE DEF TypeOK, HostTypeOK, NoFault, hostVars, runVars, fetchVars, stopVars,
            followVars
<1>1. CASE LoadRecords(q)
  BY <1>1 DEF LoadRecords, RecordedEnded
<1>2. ASSUME NEW m \in Machines, NothingToAsk(q, m) PROVE TypeOK'
  BY <1>2 DEF NothingToAsk, AskingNext
<1>3. ASSUME NEW m \in Machines, MachineAnswers(q, m) PROVE TypeOK'
  BY <1>3 DEF MachineAnswers, AskingNext, FoundDead, RunningIn
<1>4. ASSUME NEW j \in Jobs, MarkStale(q, j) PROVE TypeOK'
  BY <1>4 DEF MarkStale, WithStatus, Record, Status
<1>5. CASE ListJobs(q)
  BY <1>5 DEF ListJobs
<1>6. CASE QueryReturns(q)
  BY <1>6 DEF QueryReturns, NoRecord, Record, Status
<1> QED
  BY <1>1, <1>2, <1>3, <1>4, <1>5, <1>6 DEF ReconcileStep

LEMMA QueryFaultType ==
  ASSUME TypeOK, NEW q \in Queriers, QueryFault(q)
  PROVE  TypeOK'
<1> USE DEF TypeOK, HostTypeOK, hostVars, runVars, fetchVars, stopVars,
            followVars
<1>1. ASSUME NEW m \in Machines, MachineDrops(q, m) PROVE TypeOK'
  <2>1. /\ marks' \in [Queriers -> SUBSET Jobs]
        /\ unseen' \in SUBSET Jobs
    BY <1>1 DEF MachineDrops, RunningIn
  <2> QED
    BY <1>1, <2>1, FaultType DEF MachineDrops, AskingNext
<1>2. ASSUME NEW m \in Machines, MachineUnreachable(q, m) PROVE TypeOK'
  BY <1>2, FaultType DEF MachineUnreachable, AskingNext, RunningIn
<1> QED
  BY <1>1, <1>2 DEF QueryFault

LEMMA StopType ==
  ASSUME TypeOK, NEW s \in Stoppers, NEW j \in Jobs,
         StopLoads(s, j) \/ StopStep(s, j)
  PROVE  TypeOK'
<1> USE DEF TypeOK, HostTypeOK, StopState, NoFault, runVars, fetchVars,
            queryVars, followVars
<1>1. CASE StopLoads(s, j)
  BY <1>1 DEF StopLoads, hostVars
<1>2. CASE StopTerms(s, j)
  BY <1>2, SignalType DEF StopTerms
<1>3. CASE StopKills(s, j)
  BY <1>3, SignalType DEF StopKills
<1>4. CASE StopMarks(s, j)
  BY <1>4, FileType DEF StopMarks
<1>5. CASE StopSaves(s, j)
  BY <1>5 DEF StopSaves, WithStatus, hostVars, NoRecord, Record, Status
<1> QED
  BY <1>1, <1>2, <1>3, <1>4, <1>5 DEF StopStep

LEMMA StopFaultType ==
  ASSUME TypeOK, NEW s \in Stoppers, StopDropped(s) \/ StopErrs(s)
  PROVE  TypeOK'
<1> USE DEF TypeOK, HostTypeOK, StopState, hostVars, runVars, fetchVars,
            queryVars, followVars
<1>1. CASE StopDropped(s)
  BY <1>1, FaultType DEF StopDropped
<1>2. CASE StopErrs(s)
  BY <1>2, FaultType DEF StopErrs, NoRecord, Record, Status
<1> QED
  BY <1>1, <1>2

LEMMA FollowType ==
  ASSUME TypeOK, NEW w \in Followers, NEW j \in Jobs,
         FollowStarts(w, j) \/ FollowEnds(w, j)
  PROVE  TypeOK'
<1>1. /\ follow' \in [Followers -> {"idle", "remote", "local", "ended"}]
      /\ watched' \in [Followers -> Jobs \cup {NoJob}]
  BY DEF TypeOK, FollowStarts, FollowEnds
<1>2. UNCHANGED <<hostVars, runVars, meta, fetchVars, queryVars, stopVars, faults>>
  BY DEF FollowStarts, FollowEnds, NoFault
<1>3. HostTypeOK'
  BY <1>2 DEF TypeOK, HostTypeOK, hostVars
<1> QED
  BY <1>1, <1>2, <1>3 DEF TypeOK, runVars, fetchVars, queryVars, stopVars

LEMMA RestartType ==
  ASSUME TypeOK, NEW m \in Machines, HostRestarts(m)
  PROVE  TypeOK'
<1>1. HostTypeOK'
  BY DEF TypeOK, HostTypeOK, HostRestarts, LauncherState, LeaderState,
         ChildState, WaiterState
<1>2. /\ fetcher' \in [Jobs -> FetchState]
      /\ stop' \in [Stoppers -> StopState]
  BY DEF TypeOK, HostRestarts, FetchState, StopState
<1> QED
  BY <1>1, <1>2, FaultType DEF TypeOK, HostRestarts, runVars, queryVars, followVars

LEMMA TypeStep == TypeOK /\ [Next]_vars => TypeOK'
<1> SUFFICES ASSUME TypeOK, [Next]_vars PROVE TypeOK'
  OBVIOUS
<1>1. CASE UNCHANGED vars
  BY <1>1 DEF vars, hostVars, localVars, runVars, fetchVars, queryVars, stopVars,
              followVars, TypeOK, HostTypeOK
<1>2. ASSUME NEW j \in Jobs, HostMoves(j) PROVE TypeOK'
  <2>1. HostTypeOK'
    BY <1>2, HostStepType DEF HostMoves, TypeOK
  <2> QED
    BY <1>2, <2>1 DEF HostMoves, TypeOK, localVars, runVars, fetchVars, queryVars,
                      stopVars, followVars, NoFault
<1> QED
  BY <1>1, <1>2, RunType, RunFaultType, FetcherType, QueryType, QueryFaultType,
     StopType, StopFaultType, FollowType, RestartType DEF Next

(* Every variable keeps its type: in particular a waiter never polls past  *)
(* its limit and a query only ever marks jobs.                             *)
THEOREM TypeCorrect == Spec => []TypeOK
<1>1. QED
  BY TypeInit, TypeStep, PTL DEF Spec

-----------------------------------------------------------------------------
(* The inductive invariant.  Once started a leader can only end, and an    *)
(* end is final: everything else in IndInv rests on this.                  *)

LeaderEnds ==
    \A j \in Jobs :
        \/ leader'[j] = leader[j]
        \/ leader[j] \in {"alive", "zombie"} /\ leader'[j] \in {"zombie", "dead"}

(* What LeaderEnds, or the start of a leader, does to the other states.    *)
Ages ==
    \A j \in Jobs :
        /\ leader[j] # "none" => leader'[j] # "none"
        /\ Over(j) => leader'[j] \in {"zombie", "dead"}

(* A leader found dead stays dead; a zombie may be reaped by a restart.    *)
DeadStay == \A j \in Jobs : leader[j] = "dead" => leader'[j] = "dead"

LEMMA EndsAges == LeaderEnds => Ages /\ DeadStay
BY DEF LeaderEnds, Ages, DeadStay, Over

LEMMA SignalEnds ==
  ASSUME TypeOK, NEW j \in Jobs,
         TermGroup(j) \/ KillGroup(j) \/ UNCHANGED <<leader, child>>
  PROVE  LeaderEnds
BY DEF TypeOK, HostTypeOK, TermGroup, KillGroup, LeaderKilled, Corpse, LeaderEnds

LEMMA KillEnds ==
  ASSUME TypeOK, NEW j \in Jobs, leader[j] # "none", KillGroup(j)
  PROVE  leader'[j] \in {"zombie", "dead"}
BY DEF TypeOK, HostTypeOK, KillGroup, LeaderKilled, Corpse, LeaderState

LEMMA UnsignalableIsDead ==
  ASSUME TypeOK, NEW j \in Jobs, leader[j] # "none", ~Signalable(j)
  PROVE  leader[j] = "dead"
BY DEF TypeOK, HostTypeOK, Signalable, LeaderState

(* What a step must leave alone for each part to survive it.               *)
LEMMA LauncherKept ==
  ASSUME LauncherInv, LeaderEnds, UNCHANGED <<launcher, run, waiter>>
  PROVE  LauncherInv'
BY DEF LauncherInv, LeaderEnds

LEMMA PidKept ==
  ASSUME PidInv, Ages, UNCHANGED <<meta, mine, snap, held>>
  PROVE  PidInv'
BY DEF PidInv, Ages

LEMMA DoneKept ==
  ASSUME DoneInv, Ages, UNCHANGED <<waiter, stop, held>>,
         \A j \in Jobs : files'[j] \subseteq files[j]
  PROVE  DoneInv'
BY DEF DoneInv, Ages, Over

LEMMA StaleKept ==
  ASSUME StaleInv, DeadStay, UNCHANGED <<mine, meta, marks, unseen>>
  PROVE  StaleInv'
BY DEF StaleInv, DeadStay

Parts == LauncherInv /\ PidInv /\ DoneInv /\ StaleInv

LEMMA AllKept ==
  ASSUME Parts, LeaderEnds,
         UNCHANGED <<launcher, run, waiter, meta, mine, snap, held, stop,
                     marks, unseen>>,
         \A j \in Jobs : files'[j] \subseteq files[j]
  PROVE  Parts'
BY EndsAges, LauncherKept, PidKept, DoneKept, StaleKept DEF Parts

LEMMA SameEnds == UNCHANGED leader => LeaderEnds
BY DEF LeaderEnds

LEMMA PartsInit == Init => Parts
<1> SUFFICES ASSUME Init PROVE Parts
  OBVIOUS
<1>1. LauncherInv
  BY DEF Init, HostInit, LauncherInv
<1>2. PidInv
  BY JobsAssumption DEF Init, HostInit, PidInv, NoRecord
<1>3. DoneInv
  BY DEF Init, HostInit, DoneInv
<1>4. StaleInv
  BY DEF Init, HostInit, StaleInv, NoRecord
<1> QED
  BY <1>1, <1>2, <1>3, <1>4 DEF Parts

(* The remote side: only the launcher's start of the command is not        *)
(* LeaderEnds, only the waiter writes done.                                *)
LEMMA HostParts ==
  ASSUME TypeOK, Parts, NEW j \in Jobs, HostMoves(j)
  PROVE  Parts'
<1> USE DEF Parts
<1>1. UNCHANGED <<run, meta, mine, snap, held, stop, marks, unseen>>
  BY DEF HostMoves, localVars, runVars, queryVars, stopVars
<1>2. CASE LauncherSpawns(j)
  <2>1. Ages /\ DeadStay
    BY <1>2 DEF LauncherSpawns, TypeOK, HostTypeOK, LauncherInv, Ages, DeadStay, Over
  <2>2. LauncherInv'
    BY <1>1, <1>2 DEF LauncherSpawns, TypeOK, HostTypeOK, LauncherInv
  <2> QED
    BY <1>1, <1>2, <2>1, <2>2, PidKept, DoneKept, StaleKept DEF LauncherSpawns
<1>3. CASE ~LauncherSpawns(j) /\ (LauncherStep(j) \/ WaiterSeesExit(j))
  <2>1. UNCHANGED leader
    BY <1>3 DEF LauncherStep, LauncherPrepares, LauncherFails, LauncherReports,
                LauncherDetaches, LauncherFinishes, WaiterSeesExit
  <2>2. LauncherInv'
    BY <1>1, <1>3, <2>1
    DEF LauncherInv, LauncherStep, LauncherPrepares, LauncherFails,
        LauncherReports, LauncherDetaches, LauncherFinishes, WaiterSeesExit,
        TypeOK, HostTypeOK
  <2>3. DoneInv'
    <3>1. CASE WaiterSeesExit(j)
      <4>1. leader[j] = "dead"
        BY <3>1, UnsignalableIsDead DEF WaiterSeesExit, LauncherInv
      <4> QED
        BY <1>1, <2>1, <3>1, <4>1
        DEF WaiterSeesExit, DoneInv, Over, TypeOK, HostTypeOK
    <3>2. CASE LauncherStep(j)
      <4>1. \A i \in Jobs : waiter'[i] = "marking" => waiter[i] = "marking"
        BY <1>3, <3>2
        DEF LauncherStep, LauncherPrepares, LauncherFails, LauncherReports,
            LauncherDetaches, LauncherFinishes, TypeOK, HostTypeOK
      <4>2. \A i \in Jobs : "done" \in files'[i] => "done" \in files[i]
        <5>1. CASE LauncherReports(j)
          BY <5>1 DEF LauncherReports, WriteFile, TypeOK, HostTypeOK
        <5>2. CASE LauncherFinishes(j)
          BY <5>2 DEF LauncherFinishes, RemoveDir, TypeOK, HostTypeOK
        <5> QED
          BY <1>3, <3>2, <5>1, <5>2
          DEF LauncherStep, LauncherPrepares, LauncherFails, LauncherDetaches
      <4> QED
        BY <1>1, <2>1, <4>1, <4>2 DEF DoneInv, Over
    <3> QED
      BY <1>3, <3>1, <3>2
  <2> QED
    BY <1>1, <2>1, <2>2, <2>3, SameEnds, EndsAges, PidKept, StaleKept
<1>4. CASE CommandForks(j) \/ CommandExits(j) \/ ChildExits(j) \/ WaiterPolls(j)
  <2>1. LeaderEnds
    BY <1>4 DEF CommandForks, CommandExits, ChildExits, WaiterPolls, LeaderEnds,
                Corpse, TypeOK, HostTypeOK
  <2> QED
    BY <1>1, <1>4, <2>1, AllKept
    DEF CommandForks, CommandExits, ChildExits, WaiterPolls
<1>5. CASE WaiterTerms(j) \/ WaiterKills(j) \/ WaiterMarks(j)
  <2>1. LeaderEnds
    BY <1>5, SignalEnds DEF WaiterTerms, WaiterKills, WaiterMarks
  <2>2. LauncherInv'
    BY <1>1, <1>5, <2>1
    DEF LauncherInv, LeaderEnds, WaiterTerms, WaiterKills, WaiterMarks, TypeOK,
        HostTypeOK
  <2>3. DoneInv'
    <3>1. CASE WaiterTerms(j)
      BY <1>1, <2>1, <3>1
      DEF WaiterTerms, DoneInv, LeaderEnds, Over, TypeOK, HostTypeOK
    <3>2. CASE WaiterKills(j)
      <4>1. leader'[j] \in {"zombie", "dead"}
        BY <3>2, KillEnds DEF WaiterKills, LauncherInv
      <4> QED
        BY <1>1, <2>1, <3>2, <4>1
        DEF WaiterKills, DoneInv, LeaderEnds, Over, TypeOK, HostTypeOK
    <3>3. CASE WaiterMarks(j)
      <4>1. Over(j)
        BY <3>3 DEF WaiterMarks, DoneInv
      <4> QED
        BY <1>1, <3>3, <4>1
        DEF WaiterMarks, WriteFile, RemoveDir, DoneInv, Over, TypeOK, HostTypeOK
    <3> QED
      BY <1>5, <3>1, <3>2, <3>3
  <2> QED
    BY <1>1, <2>1, <2>2, <2>3, EndsAges, PidKept, StaleKept
<1> QED
  BY <1>2, <1>3, <1>4, <1>5 DEF HostMoves, HostStep, WaiterStep, LauncherStep

(* run_remote: a pid enters a record only behind a launcher that has       *)
(* started the leader, and no outcome is stale.                            *)
LEMMA RunParts ==
  ASSUME TypeOK, Parts, NEW j \in Jobs, Submit(j) \/ RunStep(j)
  PROVE  Parts'
<1> USE DEF Parts
<1>1. /\ LeaderEnds
      /\ UNCHANGED <<waiter, snap, held, stop, marks, unseen>>
      /\ \A i \in Jobs : files'[i] \subseteq files[i]
  BY SignalEnds, SameEnds
  DEF RunStep, Submit, Connect, BackgroundStarted, LaunchFailed,
      BackgroundTimesOut, ForegroundAnswered, ForegroundTimesOut, CleanupRuns,
      SaveOutcome, SpawnFetcher, hostVars, hostButLauncher, queryVars, stopVars,
      RemoveDir, TypeOK, HostTypeOK
<1>2. DoneInv'
  BY <1>1, EndsAges, DoneKept
<1>3. LauncherInv'
  <2>1. CASE Connect(j)
    BY <1>1, <2>1 DEF Connect, LauncherInv, hostButLauncher, TypeOK, HostTypeOK
  <2>2. CASE ~Connect(j)
    <3>1. UNCHANGED launcher
      BY <2>2
      DEF RunStep, Submit, BackgroundStarted, LaunchFailed, BackgroundTimesOut,
          ForegroundAnswered, ForegroundTimesOut, CleanupRuns, SaveOutcome,
          SpawnFetcher, hostVars
    <3>2. \A i \in Jobs :
             run'[i] \in {"idle", "connecting"} => run[i] \in {"idle", "connecting"}
      BY <2>2
      DEF RunStep, Submit, BackgroundStarted, LaunchFailed, BackgroundTimesOut,
          ForegroundAnswered, ForegroundTimesOut, CleanupRuns, SaveOutcome,
          SpawnFetcher, Conclude, TypeOK
    <3> QED
      BY <1>1, <3>1, <3>2 DEF LauncherInv, LeaderEnds
  <2> QED
    BY <2>1, <2>2
<1>4. PidInv'
  <2>1. CASE Submit(j)
    BY <1>1, <2>1 DEF Submit, PidInv, LeaderEnds, TypeOK
  <2>2. CASE BackgroundStarted(j) \/ ForegroundAnswered(j)
    <3>1. leader[j] # "none" /\ UNCHANGED leader
      BY <2>2 DEF BackgroundStarted, ForegroundAnswered, LauncherInv, hostVars
    <3>2. PICK status :
             mine' = [mine EXCEPT ![j] = [status |-> status, pid |-> TRUE]]
      BY <2>2 DEF BackgroundStarted, ForegroundAnswered, Conclude
    <3>3. UNCHANGED meta
      BY <2>2 DEF BackgroundStarted, ForegroundAnswered
    <3> QED
      BY <1>1, <3>1, <3>2, <3>3 DEF PidInv, TypeOK
  <2>3. CASE LaunchFailed(j) \/ BackgroundTimesOut(j)
    <3>1. mine' = [mine EXCEPT ![j] = [status |-> "failed", pid |-> FALSE]]
      BY <2>3 DEF LaunchFailed, BackgroundTimesOut, Conclude
    <3>2. \A i \in Jobs : mine'[i].pid => mine[i].pid
      BY <3>1 DEF TypeOK
    <3>3. UNCHANGED meta
      BY <2>3 DEF LaunchFailed, BackgroundTimesOut
    <3> QED
      BY <1>1, <3>2, <3>3 DEF PidInv, LeaderEnds
  <2>4. CASE ForegroundTimesOut(j)
    BY <1>1, <2>4 DEF ForegroundTimesOut, WithStatus, PidInv, LeaderEnds, TypeOK
  <2>5. CASE SaveOutcome(j)
    BY <1>1, <2>5 DEF SaveOutcome, PidInv, LeaderEnds, TypeOK
  <2>6. CASE Connect(j) \/ CleanupRuns(j) \/ SpawnFetcher(j)
    BY <1>1, <2>6, EndsAges, PidKept DEF Connect, CleanupRuns, SpawnFetcher
  <2> QED
    BY <2>1, <2>2, <2>3, <2>4, <2>5, <2>6 DEF RunStep
<1>5. StaleInv'
  <2>1. \A i \in Jobs : mine'[i].status # "stale"
    <3>1. CASE Submit(j) \/ ForegroundTimesOut(j)
      BY <3>1 DEF Submit, ForegroundTimesOut, WithStatus, StaleInv, TypeOK
    <3>2. CASE BackgroundStarted(j) \/ LaunchFailed(j) \/ BackgroundTimesOut(j)
               \/ ForegroundAnswered(j)
      <4>1. PICK status \in {"running", "done", "failed"}, pid \in BOOLEAN :
               mine' = [mine EXCEPT ![j] = [status |-> status, pid |-> pid]]
        BY <3>2 DEF BackgroundStarted, LaunchFailed, BackgroundTimesOut,
                    ForegroundAnswered, Conclude
      <4> QED
        BY <4>1 DEF StaleInv, TypeOK
    <3>3. CASE Connect(j) \/ CleanupRuns(j) \/ SaveOutcome(j) \/ SpawnFetcher(j)
      BY <3>3 DEF Connect, CleanupRuns, SaveOutcome, SpawnFetcher, StaleInv
    <3> QED
      BY <3>1, <3>2, <3>3 DEF RunStep
  <2>2. \A i \in Jobs : meta'[i].status = "stale" => meta[i].status = "stale"
    <3>1. CASE Submit(j)
      <4>1. mine'[j].status = "running"
        BY <3>1 DEF Submit, TypeOK
      <4>2. \/ UNCHANGED meta
            \/ meta' = [meta EXCEPT ![j] = mine'[j]]
        <5>1. [meta EXCEPT ![j] = meta[j]] = meta
          BY DEF TypeOK
        <5> QED
          BY <3>1, <5>1 DEF Submit
      <4> QED
        BY <4>1, <4>2 DEF TypeOK
    <3>2. CASE SaveOutcome(j)
      BY <3>2 DEF SaveOutcome, StaleInv, TypeOK
    <3>3. CASE ~Submit(j) /\ ~SaveOutcome(j)
      BY <3>3
      DEF RunStep, Connect, BackgroundStarted, LaunchFailed, BackgroundTimesOut,
          ForegroundAnswered, ForegroundTimesOut, CleanupRuns, SpawnFetcher
    <3> QED
      BY <3>1, <3>2, <3>3
  <2> QED
    BY <1>1, <2>1, <2>2 DEF StaleInv, LeaderEnds
<1> QED
  BY <1>2, <1>3, <1>4, <1>5

(* A lost connection cuts the launcher off and can only fail the job.      *)
LEMMA RunFaultParts ==
  ASSUME TypeOK, Parts, NEW j \in Jobs, RunFault(j)
  PROVE  Parts'
<1> USE DEF Parts
<1>1. UNCHANGED <<leader, waiter, files, snap, held, stop, marks, unseen, meta>>
  BY DEF RunFault, BackgroundLost, ForegroundDropped, ForegroundErrs,
         CleanupLost, SpawnFails, RunnerDies, hostVars, hostButLauncher,
         queryVars, stopVars
<1>2. /\ LeaderEnds
      /\ DoneInv'
  BY <1>1, SameEnds, EndsAges, DoneKept
<1>3. LauncherInv'
  <2>1. Disconnect(j) \/ UNCHANGED launcher
    BY DEF RunFault, BackgroundLost, ForegroundDropped, ForegroundErrs,
           CleanupLost, SpawnFails, RunnerDies, hostVars
  <2>2. \A i \in Jobs : \/ launcher'[i] = launcher[i]
                        \/ i = j /\ launcher'[i] = "cut"
    <3>1. CASE Disconnect(j)
      <4>1. PICK l \in {launcher[j], "cut"} :
               launcher' = [launcher EXCEPT ![j] = l]
        BY <3>1 DEF Disconnect
      <4> QED
        BY <4>1 DEF TypeOK, HostTypeOK
    <3> QED
      BY <2>1, <3>1
  <2>3. /\ run'[j] \notin {"idle", "connecting"}
        /\ \A i \in Jobs : i # j => run'[i] = run[i]
    BY DEF RunFault, BackgroundLost, ForegroundDropped, ForegroundErrs,
           CleanupLost, SpawnFails, RunnerDies, Conclude, TypeOK
  <2> QED
    BY <1>1, <2>2, <2>3 DEF LauncherInv
<1>4. /\ \A i \in Jobs : mine'[i].pid => mine[i].pid \/ leader[i] # "none"
      /\ \A i \in Jobs : mine'[i].status # "stale"
  <2>1. CASE BackgroundLost(j)
    BY <2>1 DEF BackgroundLost, Conclude, StaleInv, TypeOK
  <2>2. CASE ForegroundDropped(j)
    <3>1. PICK pid \in BOOLEAN :
             /\ pid => launcher[j] \in {"reported", "exited"}
             /\ mine' = [mine EXCEPT ![j] = [status |-> "failed", pid |-> pid]]
      BY <2>2 DEF ForegroundDropped, Conclude
    <3>2. pid => leader[j] # "none"
      BY <3>1 DEF LauncherInv
    <3> QED
      BY <3>1, <3>2 DEF StaleInv, TypeOK
  <2>3. CASE ForegroundErrs(j)
    BY <2>3 DEF ForegroundErrs, WithStatus, StaleInv, TypeOK
  <2>4. CASE CleanupLost(j) \/ SpawnFails(j) \/ RunnerDies(j)
    BY <2>4 DEF CleanupLost, SpawnFails, RunnerDies, StaleInv
  <2> QED
    BY <2>1, <2>2, <2>3, <2>4 DEF RunFault
<1>5. PidInv'
  BY <1>1, <1>4 DEF PidInv
<1>6. StaleInv'
  BY <1>1, <1>4 DEF StaleInv
<1> QED
  BY <1>2, <1>3, <1>5, <1>6

(* The fetcher only deletes; the follower only looks.                      *)
LEMMA FetcherParts ==
  ASSUME TypeOK, Parts, NEW j \in Jobs, FetcherStep(j) \/ FetcherDisconnects(j)
  PROVE  Parts'
<1>1. /\ UNCHANGED <<launcher, run, waiter, meta, mine, snap, held, stop, marks,
                     unseen>>
      /\ UNCHANGED leader
  BY DEF FetcherStep, FetcherCopies, FetcherCopiesToNobody, FetcherRemoves,
         FetcherDisconnects, hostVars, runVars, queryVars, stopVars
<1>2. \A i \in Jobs : files'[i] \subseteq files[i]
  BY DEF FetcherStep, FetcherCopies, FetcherCopiesToNobody, FetcherRemoves,
         FetcherDisconnects, RemoveDir, hostVars, TypeOK, HostTypeOK
<1> QED
  BY <1>1, <1>2, SameEnds, AllKept

LEMMA FollowParts ==
  ASSUME TypeOK, Parts, NEW w \in Followers, NEW j \in Jobs,
         FollowStarts(w, j) \/ FollowEnds(w, j)
  PROVE  Parts'
<1>1. /\ UNCHANGED <<launcher, run, waiter, meta, mine, snap, held, stop, marks,
                     unseen>>
      /\ UNCHANGED <<leader, files>>
  BY DEF FollowStarts, FollowEnds, hostVars, runVars, queryVars, stopVars
<1> QED
  BY <1>1, SameEnds, AllKept

(* Reconcile: the loaded pids are pids of started commands, a failed       *)
(* kill -0 on one of them is an end, and what was seen stays true until    *)
(* the mark is saved.                                                      *)
LEMMA QueryParts ==
  ASSUME TypeOK, Parts, NEW q \in Queriers,
         LoadRecords(q) \/ ReconcileStep(q) \/ QueryFault(q)
  PROVE  Parts'
<1> USE DEF Parts
<1>1. UNCHANGED <<launcher, leader, files, run, mine, waiter, held, stop>>
  BY DEF LoadRecords, ReconcileStep, QueryFault, NothingToAsk, MachineAnswers,
         MarkStale, ListJobs, QueryReturns, MachineDrops, MachineUnreachable,
         hostVars, runVars, stopVars
<1>2. LauncherInv' /\ DoneInv'
  BY <1>1, SameEnds, EndsAges, LauncherKept, DoneKept
<1>3. PidInv' /\ StaleInv'
  <2>1. CASE LoadRecords(q)
    BY <1>1, <2>1 DEF LoadRecords, PidInv, StaleInv, TypeOK
  <2>2. ASSUME NEW m \in Machines, NothingToAsk(q, m) PROVE PidInv' /\ StaleInv'
    BY <1>1, <2>2 DEF NothingToAsk, PidInv, StaleInv
  <2>3. ASSUME NEW m \in Machines, MachineAnswers(q, m)
        PROVE PidInv' /\ StaleInv'
    <3>1. \A i \in FoundDead(q, m) : leader[i] = "dead"
      BY UnsignalableIsDead DEF FoundDead, RunningIn, PidInv
    <3>2. \A i \in marks'[q] : leader[i] = "dead"
      BY <2>3, <3>1 DEF MachineAnswers, TypeOK
    <3>3. \A p \in Queriers : p # q => marks'[p] = marks[p]
      BY <2>3 DEF MachineAnswers, TypeOK
    <3> QED
      BY <1>1, <2>3, <3>2, <3>3 DEF MachineAnswers, PidInv, StaleInv
  <2>4. ASSUME NEW j \in Jobs, MarkStale(q, j) PROVE PidInv' /\ StaleInv'
    <3>1. j \in unseen \/ leader[j] = "dead"
      BY <2>4 DEF MarkStale, StaleInv
    <3>2. PidInv'
      BY <1>1, <2>4 DEF MarkStale, WithStatus, PidInv, TypeOK
    <3>3. StaleInv'
      BY <1>1, <2>4, <3>1 DEF MarkStale, StaleInv, TypeOK
    <3> QED
      BY <3>2, <3>3
  <2>5. CASE ListJobs(q)
    BY <1>1, <2>5 DEF ListJobs, PidInv, StaleInv
  <2>6. CASE QueryReturns(q)
    BY <1>1, <2>6 DEF QueryReturns, NoRecord, PidInv, StaleInv, TypeOK
  <2>7. ASSUME NEW m \in Machines, MachineDrops(q, m) \/ MachineUnreachable(q, m)
        PROVE PidInv' /\ StaleInv'
    <3>1. /\ marks'[q] \subseteq unseen'
          /\ unseen \subseteq unseen'
          /\ \A p \in Queriers : p # q => marks'[p] = marks[p]
          /\ UNCHANGED <<meta, snap>>
      BY <2>7 DEF MachineDrops, MachineUnreachable, TypeOK
    <3> QED
      BY <1>1, <3>1 DEF PidInv, StaleInv
  <2> QED
    BY <2>1, <2>2, <2>3, <2>4, <2>5, <2>6, <2>7 DEF ReconcileStep, QueryFault
<1> QED
  BY <1>2, <1>3

(* job_stop: it holds a job that was started, so that after KILL, or a     *)
(* failed kill -0, the command is over and done may be written.            *)
LEMMA StopParts ==
  ASSUME TypeOK, Parts, NEW s \in Stoppers, NEW j \in Jobs,
         StopLoads(s, j) \/ StopStep(s, j)
  PROVE  Parts'
<1> USE DEF Parts
<1>1. UNCHANGED <<launcher, run, mine, waiter, snap, marks, unseen>>
  BY DEF StopLoads, StopStep, StopTerms, StopKills, StopMarks, StopSaves,
         hostVars, runVars, queryVars
<1>2. LeaderEnds
  BY SignalEnds, SameEnds
  DEF StopLoads, StopStep, StopTerms, StopKills, StopMarks, StopSaves, hostVars
<1>3. LauncherInv'
  BY <1>1, <1>2, LauncherKept
<1>4. PidInv'
  <2>1. CASE StopLoads(s, j)
    BY <1>1, <2>1 DEF StopLoads, hostVars, PidInv, TypeOK
  <2>2. CASE StopTerms(s, j) \/ StopKills(s, j) \/ StopMarks(s, j)
    BY <1>1, <1>2, <2>2, EndsAges, PidKept DEF StopTerms, StopKills, StopMarks
  <2>3. CASE StopSaves(s, j)
    BY <1>1, <2>3, JobsAssumption
    DEF StopSaves, WithStatus, hostVars, PidInv, TypeOK
  <2> QED
    BY <2>1, <2>2, <2>3 DEF StopStep
<1>5. DoneInv'
  <2>1. CASE StopKills(s, j)
    <3>1. leader[j] # "none"
      BY <2>1 DEF StopKills, PidInv
    <3>2. leader'[j] \in {"zombie", "dead"}
      BY <2>1, <3>1, KillEnds, UnsignalableIsDead DEF StopKills
    <3> QED
      BY <1>1, <1>2, <2>1, <3>2
      DEF StopKills, DoneInv, LeaderEnds, Over, TypeOK
  <2>2. CASE StopMarks(s, j)
    <3>1. Over(j)
      BY <2>2 DEF StopMarks, DoneInv
    <3> QED
      BY <1>1, <2>2, <3>1
      DEF StopMarks, WriteFile, DoneInv, Over, TypeOK, HostTypeOK
  <2>3. CASE StopTerms(s, j)
    BY <1>1, <1>2, <2>3 DEF StopTerms, DoneInv, LeaderEnds, Over, TypeOK
  <2>4. CASE StopLoads(s, j)
    BY <1>1, <2>4 DEF StopLoads, hostVars, DoneInv, Over, TypeOK
  <2>5. CASE StopSaves(s, j)
    BY <1>1, <2>5 DEF StopSaves, hostVars, DoneInv, Over, TypeOK
  <2> QED
    BY <2>1, <2>2, <2>3, <2>4, <2>5 DEF StopStep
<1>6. StaleInv'
  <2>1. \A i \in Jobs : meta'[i].status = "stale" => meta[i].status = "stale"
    <3>1. CASE StopSaves(s, j)
      BY <3>1 DEF StopSaves, WithStatus, TypeOK
    <3>2. CASE ~StopSaves(s, j)
      BY <3>2 DEF StopLoads, StopStep, StopTerms, StopKills, StopMarks
    <3> QED
      BY <3>1, <3>2
  <2> QED
    BY <1>1, <1>2, <2>1 DEF StaleInv, LeaderEnds
<1> QED
  BY <1>3, <1>4, <1>5, <1>6

LEMMA StopFaultParts ==
  ASSUME TypeOK, Parts, NEW s \in Stoppers, StopDropped(s) \/ StopErrs(s)
  PROVE  Parts'
<1> USE DEF Parts
<1>1. UNCHANGED <<launcher, leader, files, run, mine, meta, waiter, snap, marks,
                  unseen>>
  BY DEF StopDropped, StopErrs, hostVars, runVars, queryVars
<1>2. \A r \in Stoppers : stop'[r] = "marking" => stop[r] = "marking"
  BY DEF StopDropped, StopErrs, TypeOK
<1>3. \A r \in Stoppers, i \in Jobs : held'[r].job = i => held[r].job = i
  <2>1. CASE StopDropped(s)
    BY <2>1 DEF StopDropped
  <2>2. CASE StopErrs(s)
    <3>1. held'[s].job = NoJob /\ \A r \in Stoppers : r # s => held'[r] = held[r]
      BY <2>2 DEF StopErrs, TypeOK
    <3> QED
      BY <3>1, JobsAssumption
  <2> QED
    BY <2>1, <2>2
<1>4. LauncherInv' /\ StaleInv'
  BY <1>1, SameEnds, EndsAges, LauncherKept, StaleKept
<1>5. PidInv'
  BY <1>1, <1>3 DEF PidInv
<1>6. DoneInv'
  BY <1>1, <1>2, <1>3 DEF DoneInv, Over
<1> QED
  BY <1>4, <1>5, <1>6

LEMMA RestartParts ==
  ASSUME TypeOK, Parts, NEW m \in Machines, HostRestarts(m)
  PROVE  Parts'
<1> USE DEF Parts
<1>1. UNCHANGED <<files, run, mine, meta, snap, marks, unseen, held>>
  BY DEF HostRestarts, runVars, queryVars
<1>2. LeaderEnds
  BY DEF HostRestarts, LeaderEnds, TypeOK, HostTypeOK
<1>3. LauncherInv'
  BY <1>1, <1>2
  DEF HostRestarts, LauncherInv, LeaderEnds, LauncherState, TypeOK, HostTypeOK
<1>4. DoneInv'
  <2>1. \A i \in Jobs : waiter'[i] = "marking" => waiter[i] = "marking"
    BY DEF HostRestarts, TypeOK, HostTypeOK
  <2>2. \A s \in Stoppers : stop'[s] = "marking" => stop[s] = "marking"
    BY DEF HostRestarts
  <2> QED
    BY <1>1, <1>2, <2>1, <2>2 DEF DoneInv, LeaderEnds, Over
<1> QED
  BY <1>1, <1>2, <1>3, <1>4, EndsAges, PidKept, StaleKept

LEMMA PartsStep == TypeOK /\ Parts /\ [Next]_vars => Parts'
<1> SUFFICES ASSUME TypeOK, Parts, [Next]_vars PROVE Parts'
  OBVIOUS
<1>1. CASE UNCHANGED vars
  BY <1>1, SameEnds, AllKept
  DEF vars, hostVars, localVars, runVars, queryVars, stopVars
<1> QED
  BY <1>1, HostParts, RunParts, RunFaultParts, FetcherParts, QueryParts,
     StopParts, StopFaultParts, FollowParts, RestartParts DEF Next

(* IndInv holds always: every pid on record belongs to a started command,  *)
(* and whoever is about to declare an end has the end behind him.          *)
THEOREM Invariant == Spec => []IndInv
<1>1. Init => IndInv
  BY TypeInit, PartsInit DEF IndInv, Parts
<1>2. IndInv /\ [Next]_vars => IndInv'
  BY TypeStep, PartsStep DEF IndInv, Parts
<1> QED
  BY <1>1, <1>2, PTL DEF Spec

(* done exists only after the end of the command: the fetcher, which waits *)
(* for it, never copies and deletes the log of a command that still runs.  *)
THEOREM DoneAfterEnd == Spec => []DoneMeansEnded
<1>1. IndInv => DoneMeansEnded
  BY DEF IndInv, DoneInv, Over, DoneMeansEnded
<1> QED
  BY <1>1, Invariant, PTL

(* A job that is shown as stale has ended, unless its machine did not      *)
(* answer for it: however many queries, stops and runs interleave, whatever*)
(* each of them loaded before.                                             *)
THEOREM StaleHasEnded == Spec => []StaleIsJustified
<1>1. IndInv => StaleIsJustified
  BY DEF IndInv, StaleInv, StaleIsJustified
<1> QED
  BY <1>1, Invariant, PTL

-----------------------------------------------------------------------------
(* RemoteJobs implements JobRecord.  The step that matters is the saving   *)
(* of a record: what the saver has in memory must still be true of the     *)
(* command and must not come after another verdict.                        *)

(* run_remote has not saved its outcome yet.                               *)
Early == {"connecting", "waiting", "cleaning", "saving"}

(* What a stop and a query may still overwrite while nothing has failed.   *)
Open == {"running", "stopped", "stale"}

(* A record exists from Submit on, unless --logs none, and the outcome     *)
(* "done" is the truth.                                                    *)
SavedInv ==
    \A j \in Jobs :
        /\ ~mode[j].kept \/ run[j] = "idle" => meta[j].status = "absent"
        /\ mode[j].kept /\ run[j] # "idle" => meta[j].status # "absent"
        /\ run[j] # "idle"
              => mine[j].status \in {"running", "done", "failed", "timeout"}
        /\ mine[j].status = "done" => Over(j)

(* What a query or a stop works on was on disk and still is.               *)
LoadedInv ==
    /\ \A q \in Queriers, j \in Jobs :
          /\ snap[q][j].status # "absent" => meta[j].status # "absent"
          /\ j \in marks[q]
                => snap[q][j].status = "running" /\ query[q] = "asking"
    /\ \A s \in Stoppers, j \in Jobs :
          held[s].job = j => meta[j].status # "absent"

(* A foreground run has neither waiter nor fetcher; while nothing fails    *)
(* its cleanup finds the pid file or comes after the command's end.        *)
ForegroundInv ==
    \A j \in Jobs :
        /\ mine[j].status = "timeout" => ~mode[j].bg
        /\ ~mode[j].bg =>
             /\ waiter[j] = "off" /\ fetcher[j] = "off" /\ run[j] # "spawning"
             /\ launcher[j] = "exited" => Over(j)
             /\ run[j] \in {"cleaning", "saving"} => mine[j].status # "running"

CleanupInv ==
    faults = 0 => \A j \in Jobs : ~mode[j].bg =>
        /\ launcher[j] \in {"sent", "prepared", "spawned"} => run[j] = "waiting"
        /\ launcher[j] \in {"prepared", "spawned"} => dir[j] = "present"
        /\ launcher[j] = "reported" /\ run[j] \in {"waiting", "cleaning"}
              => "pid" \in files[j]
        /\ run[j] = "cleaning" => launcher[j] \in {"reported", "exited"}
        /\ run[j] = "saving" /\ mine[j].status = "timeout" => Over(j)

(* While nothing fails, nobody else knows the pid before run_remote has    *)
(* saved it, and nobody saves a verdict over one that was not theirs.      *)
TrustInv ==
    faults = 0 =>
    /\ unseen = {}
    /\ \A j \in Jobs :
          /\ mode[j].kept /\ run[j] \in Early => meta[j].status = "running"
          /\ run[j] \in Early \cup {"idle"} =>
                /\ ~meta[j].pid
                /\ \A q \in Queriers : ~snap[q][j].pid
                /\ \A s \in Stoppers : held[s].job # j
    /\ \A q \in Queriers, j \in Jobs :
          /\ j \in marks[q] => snap[q][j].pid
          /\ snap[q][j].pid /\ snap[q][j].status = "running"
                => meta[j].status \in Open
    /\ \A s \in Stoppers, j \in Jobs : held[s].job = j =>
          /\ meta[j].status \in Open
          /\ stop[s] = "saving" => Over(j)

RecordInv == SavedInv /\ LoadedInv /\ ForegroundInv /\ CleanupInv /\ TrustInv

-----------------------------------------------------------------------------
(* What a step must leave alone for each part to survive it.               *)

LEMMA SavedKept ==
  ASSUME SavedInv, Ages, UNCHANGED <<mode, meta, run, mine>>
  PROVE  SavedInv'
BY DEF SavedInv, Ages, Over

LEMMA LoadedKept ==
  ASSUME LoadedInv, UNCHANGED <<query, snap>>,
         \A j \in Jobs : meta'[j].status = "absent" => meta[j].status = "absent",
         \A q \in Queriers : marks'[q] \subseteq marks[q],
         \A s \in Stoppers, j \in Jobs : held'[s].job = j => held[s].job = j
  PROVE  LoadedInv'
BY DEF LoadedInv

LEMMA ForegroundKept ==
  ASSUME ForegroundInv, Ages, UNCHANGED <<mode, run, mine, launcher>>,
         \A j \in Jobs : ~mode[j].bg =>
             /\ waiter[j] = "off" => waiter'[j] = "off"
             /\ fetcher[j] = "off" => fetcher'[j] = "off"
  PROVE  ForegroundInv'
BY DEF ForegroundInv, Ages, Over

LEMMA CleanupKept ==
  ASSUME CleanupInv, Ages, UNCHANGED <<mode, run, mine, launcher, faults>>,
         \A j \in Jobs : ~mode[j].bg => dir'[j] = dir[j] /\ files[j] \subseteq files'[j]
  PROVE  CleanupInv'
BY DEF CleanupInv, Ages, Over

LEMMA TrustKept ==
  ASSUME TrustInv, Ages,
         UNCHANGED <<mode, run, meta, snap, marks, unseen, held, stop, faults>>
  PROVE  TrustInv'
BY DEF TrustInv, Ages, Over

(* After a fault nothing is left to be shown of the last two parts.        *)
LEMMA FaultVoids == TypeOK /\ Fault => CleanupInv' /\ TrustInv'
<1> SUFFICES ASSUME TypeOK, Fault PROVE CleanupInv' /\ TrustInv'
  OBVIOUS
<1>1. faults' # 0
  BY JobsAssumption DEF TypeOK, Fault
<1> QED
  BY <1>1 DEF CleanupInv, TrustInv

(* The options of a job are fixed before it starts.                        *)
LEMMA ModeFixed ==
  ASSUME [Next]_vars
  PROVE  UNCHANGED mode
<1>1. ASSUME NEW j \in Jobs, HostMoves(j) PROVE UNCHANGED mode
  BY <1>1
  DEF HostMoves, HostStep, LauncherStep, WaiterStep, LauncherPrepares, LauncherFails,
      LauncherSpawns, LauncherReports, LauncherDetaches, LauncherFinishes,
      CommandForks, CommandExits, ChildExits, WaiterPolls, WaiterSeesExit,
      WaiterTerms, WaiterKills, WaiterMarks
<1>2. ASSUME NEW j \in Jobs, Submit(j) \/ RunStep(j) \/ RunFault(j)
      PROVE  UNCHANGED mode
  BY <1>2
  DEF RunStep, Submit, Connect, BackgroundStarted, LaunchFailed,
      BackgroundTimesOut, ForegroundAnswered, ForegroundTimesOut, CleanupRuns,
      SaveOutcome, SpawnFetcher, RunFault, BackgroundLost, ForegroundDropped,
      ForegroundErrs, CleanupLost, SpawnFails, RunnerDies, hostVars,
      hostButLauncher
<1>3. ASSUME NEW j \in Jobs, FetcherStep(j) \/ FetcherDisconnects(j)
      PROVE  UNCHANGED mode
  BY <1>3 DEF FetcherStep, FetcherCopies, FetcherCopiesToNobody,
              FetcherRemoves, FetcherDisconnects, hostVars
<1>4. ASSUME NEW q \in Queriers, LoadRecords(q) \/ ReconcileStep(q) \/ QueryFault(q)
      PROVE  UNCHANGED mode
  BY <1>4 DEF LoadRecords, ReconcileStep, QueryFault, NothingToAsk,
              MachineAnswers, MarkStale, ListJobs, QueryReturns, MachineDrops,
              MachineUnreachable, hostVars
<1>5. ASSUME NEW s \in Stoppers, NEW j \in Jobs,
             StopLoads(s, j) \/ StopStep(s, j) \/ StopDropped(s) \/ StopErrs(s)
      PROVE  UNCHANGED mode
  BY <1>5 DEF StopLoads, StopStep, StopTerms, StopKills, StopMarks, StopSaves,
              StopDropped, StopErrs, hostVars
<1>6. ASSUME NEW s \in Stoppers, StopDropped(s) \/ StopErrs(s)
      PROVE  UNCHANGED mode
  BY <1>6 DEF StopDropped, StopErrs, hostVars
<1>7. ASSUME NEW w \in Followers, NEW j \in Jobs, FollowStarts(w, j) \/ FollowEnds(w, j)
      PROVE  UNCHANGED mode
  BY <1>7 DEF FollowStarts, FollowEnds, hostVars
<1>8. ASSUME NEW m \in Machines, HostRestarts(m) PROVE UNCHANGED mode
  BY <1>8 DEF HostRestarts
<1>9. CASE UNCHANGED vars
  BY <1>9 DEF vars, hostVars
<1> QED
  BY <1>1, <1>2, <1>3, <1>4, <1>5, <1>6, <1>7, <1>8, <1>9 DEF Next

LEMMA RecordInit == Init => RecordInv
<1> SUFFICES ASSUME Init PROVE RecordInv
  OBVIOUS
<1>1. SavedInv /\ LoadedInv
  BY JobsAssumption DEF Init, SavedInv, LoadedInv, NoRecord
<1>2. ForegroundInv /\ CleanupInv
  BY DEF Init, HostInit, ForegroundInv, CleanupInv, NoRecord
<1>3. TrustInv
  BY JobsAssumption DEF Init, TrustInv, NoRecord, Early
<1> QED
  BY <1>1, <1>2, <1>3 DEF RecordInv

-----------------------------------------------------------------------------
(* The remote side: the records are local, only the launcher's own states  *)
(* matter to a foreground run.                                             *)

LEMMA HostAges ==
  ASSUME TypeOK, Parts, NEW j \in Jobs, HostMoves(j)
  PROVE  Ages
<1>1. CASE LauncherSpawns(j)
  BY <1>1 DEF LauncherSpawns, TypeOK, HostTypeOK, Parts, LauncherInv, Ages, Over
<1>2. CASE LauncherStep(j) /\ ~LauncherSpawns(j)
  <2>1. UNCHANGED leader
    BY <1>2 DEF LauncherStep, LauncherPrepares, LauncherFails, LauncherReports,
                LauncherDetaches, LauncherFinishes
  <2> QED
    BY <2>1, SameEnds, EndsAges
<1>3. CASE CommandForks(j) \/ CommandExits(j) \/ ChildExits(j)
  BY <1>3, EndsAges DEF CommandForks, CommandExits, ChildExits, LeaderEnds, Corpse,
                        TypeOK, HostTypeOK
<1>4. CASE WaiterStep(j)
  BY <1>4, SignalEnds, EndsAges DEF WaiterStep, WaiterPolls, WaiterSeesExit,
                                    WaiterTerms, WaiterKills, WaiterMarks
<1> QED
  BY <1>1, <1>2, <1>3, <1>4 DEF HostMoves, HostStep

LEMMA LauncherRecord ==
  ASSUME TypeOK, Parts, ForegroundInv, CleanupInv, NEW j \in Jobs,
         LauncherStep(j), Ages, UNCHANGED <<mode, run, mine, fetcher, faults>>
  PROVE  ForegroundInv' /\ CleanupInv'
<1> USE DEF TypeOK, HostTypeOK
<1>1. CASE LauncherPrepares(j)
  <2>1. ForegroundInv'
    BY <1>1 DEF LauncherPrepares, ForegroundInv, Over
  <2>2. CleanupInv'
    BY <1>1 DEF LauncherPrepares, CleanupInv, Over
  <2> QED
    BY <2>1, <2>2
<1>2. CASE LauncherFails(j)
  <2>1. ForegroundInv'
    BY <1>2 DEF LauncherFails, ForegroundInv, Over
  <2>2. PICK d \in {"absent", "present"} : dir' = [dir EXCEPT ![j] = d]
    BY <1>2 DEF LauncherFails
  <2>3. CleanupInv'
    BY <1>2, <2>2 DEF LauncherFails, CleanupInv, Over
  <2> QED
    BY <2>1, <2>3
<1>3. CASE LauncherSpawns(j)
  <2>1. ForegroundInv'
    BY <1>3 DEF LauncherSpawns, ForegroundInv, Ages, Over
  <2>2. CleanupInv'
    BY <1>3 DEF LauncherSpawns, CleanupInv, Ages, Over
  <2> QED
    BY <2>1, <2>2
<1>4. CASE LauncherReports(j)
  <2>1. ForegroundInv'
    BY <1>4 DEF LauncherReports, ForegroundInv, Over
  <2>2. CleanupInv'
    BY <1>4 DEF LauncherReports, WriteFile, CleanupInv, Over
  <2> QED
    BY <2>1, <2>2
<1>5. CASE LauncherDetaches(j)
  <2>1. ForegroundInv'
    BY <1>5 DEF LauncherDetaches, ForegroundInv, Over
  <2>2. CleanupInv'
    BY <1>5 DEF LauncherDetaches, CleanupInv, Over
  <2> QED
    BY <2>1, <2>2
<1>6. CASE LauncherFinishes(j)
  <2>1. Over(j)
    BY <1>6 DEF LauncherFinishes, Parts, LauncherInv, LeaderState, Over
  <2>2. ForegroundInv'
    BY <1>6, <2>1 DEF LauncherFinishes, ForegroundInv, Over
  <2>3. CleanupInv'
    BY <1>6, <2>1 DEF LauncherFinishes, RemoveDir, CleanupInv, Over
  <2> QED
    BY <2>2, <2>3
<1> QED
  BY <1>1, <1>2, <1>3, <1>4, <1>5, <1>6 DEF LauncherStep

LEMMA HostRecord ==
  ASSUME TypeOK, Parts, RecordInv, NEW j \in Jobs, HostMoves(j)
  PROVE  RecordInv'
<1> USE DEF RecordInv
<1>1. /\ UNCHANGED <<run, mine, meta, fetcher, query, snap, marks, unseen, held, stop>>
      /\ UNCHANGED faults
  BY DEF HostMoves, NoFault, localVars, runVars, fetchVars, queryVars, stopVars
<1>2. UNCHANGED mode
  BY ModeFixed DEF Next
<1>3. Ages
  BY HostAges
<1>4. SavedInv' /\ LoadedInv' /\ TrustInv'
  BY <1>1, <1>2, <1>3, SavedKept, LoadedKept, TrustKept
<1>5. CASE LauncherStep(j)
  BY <1>1, <1>2, <1>3, <1>4, <1>5, LauncherRecord
<1>6. CASE WaiterStep(j)
  <2>1. mode[j].bg
    BY <1>6 DEF ForegroundInv, WaiterStep, WaiterPolls, WaiterSeesExit,
                WaiterTerms, WaiterKills, WaiterMarks
  <2>2. /\ UNCHANGED launcher
        /\ \A i \in Jobs : i # j => waiter'[i] = waiter[i]
        /\ \A i \in Jobs : i # j => dir'[i] = dir[i] /\ files'[i] = files[i]
    BY <1>6 DEF WaiterStep, WaiterPolls, WaiterSeesExit, WaiterTerms,
                WaiterKills, WaiterMarks, WriteFile, RemoveDir, TypeOK, HostTypeOK
  <2> QED
    BY <1>1, <1>2, <1>3, <1>4, <2>1, <2>2, ForegroundKept, CleanupKept
<1>7. CASE CommandForks(j) \/ CommandExits(j) \/ ChildExits(j)
  <2>1. UNCHANGED <<launcher, waiter, dir, files>>
    BY <1>7 DEF CommandForks, CommandExits, ChildExits
  <2> QED
    BY <1>1, <1>2, <1>3, <1>4, <2>1, ForegroundKept, CleanupKept
<1> QED
  BY <1>5, <1>6, <1>7 DEF HostMoves, HostStep

-----------------------------------------------------------------------------
(* run_remote.                                                             *)

LEMMA RunFrame ==
  ASSUME TypeOK, NEW j \in Jobs, Submit(j) \/ RunStep(j)
  PROVE  /\ UNCHANGED <<mode, waiter, query, snap, marks, unseen, held, stop, faults>>
         /\ Ages
<1>1. UNCHANGED <<mode, waiter, query, snap, marks, unseen, held, stop, faults>>
  BY DEF RunStep, Submit, Connect, BackgroundStarted, LaunchFailed,
         BackgroundTimesOut, ForegroundAnswered, ForegroundTimesOut,
         CleanupRuns, SaveOutcome, SpawnFetcher, hostVars, hostButLauncher,
         queryVars, stopVars, NoFault
<1>2. LeaderEnds
  BY SignalEnds, SameEnds
  DEF RunStep, Submit, Connect, BackgroundStarted, LaunchFailed,
      BackgroundTimesOut, ForegroundAnswered, ForegroundTimesOut, CleanupRuns,
      SaveOutcome, SpawnFetcher, hostVars, hostButLauncher
<1> QED
  BY <1>1, <1>2, EndsAges

(* Before the save nothing that others read has changed.                   *)
LEMMA RunTrust ==
  ASSUME TrustInv, Ages,
         UNCHANGED <<mode, meta, snap, marks, unseen, held, stop, faults>>,
         \A i \in Jobs :
             /\ run'[i] \in Early => run[i] \in Early
             /\ run'[i] = "idle" => run[i] = "idle"
  PROVE  TrustInv'
BY DEF TrustInv, Ages, Over

LEMMA SubmitRecord ==
  ASSUME TypeOK, RecordInv, NEW j \in Jobs, Submit(j)
  PROVE  RecordInv'
<1> USE RunFrame DEF RecordInv
<1>1. /\ run' = [run EXCEPT ![j] = "connecting"]
      /\ mine' = [mine EXCEPT ![j] = [status |-> "running", pid |-> FALSE]]
      /\ meta' = IF mode[j].kept
                 THEN [meta EXCEPT ![j] = [status |-> "running", pid |-> FALSE]]
                 ELSE meta
      /\ UNCHANGED <<launcher, leader, fetcher, dir, files>>
  BY DEF Submit, TypeOK, hostVars, fetchVars
<1>2. meta[j].status = "absent"
  BY DEF Submit, SavedInv
<1>3. \A i \in Jobs : i # j => /\ run'[i] = run[i] /\ mine'[i] = mine[i]
                               /\ meta'[i] = meta[i]
  BY <1>1 DEF TypeOK
<1>4. /\ run'[j] = "connecting" /\ mine'[j].status = "running"
      /\ mode[j].kept => meta'[j].status = "running"
      /\ ~mode[j].kept => meta'[j] = meta[j]
      /\ meta'[j].pid => meta[j].pid
  BY <1>1 DEF TypeOK
<1>5. SavedInv'
  BY <1>1, <1>2, <1>3, <1>4 DEF SavedInv, Ages, Over
<1>6. LoadedInv'
  BY <1>2, <1>3, LoadedKept
<1>7. ForegroundInv'
  BY <1>1, <1>3, <1>4 DEF ForegroundInv, Over
<1>8. CleanupInv'
  BY <1>1, <1>3, <1>4 DEF CleanupInv, Over, Submit
<1>9. TrustInv'
  <2>1. run[j] = "idle"
    BY DEF Submit
  <2>2. CASE mode[j].kept
    BY <1>2, <1>3, <1>4, <2>1, <2>2 DEF TrustInv, Early, Open, Ages, Over
  <2>3. CASE ~mode[j].kept
    <3>1. UNCHANGED meta
      BY <1>1, <2>3
    <3> QED
      BY <1>3, <1>4, <2>1, <2>3, <3>1 DEF TrustInv, Early, Ages, Over
  <2> QED
    BY <2>2, <2>3
<1> QED
  BY <1>5, <1>6, <1>7, <1>8, <1>9

LEMMA SaveRecord ==
  ASSUME TypeOK, RecordInv, NEW j \in Jobs, SaveOutcome(j)
  PROVE  RecordInv'
<1> USE RunFrame DEF RecordInv, RunStep
<1>1. /\ run[j] = "saving" /\ run'[j] \in {"spawning", "ended"}
      /\ run'[j] = "spawning" => mine[j].status = "running"
      /\ UNCHANGED <<mine, launcher, leader, fetcher, dir, files>>
  BY DEF SaveOutcome, TypeOK, hostVars, fetchVars
<1>2. /\ mode[j].kept => meta'[j] = mine[j]
      /\ ~mode[j].kept => meta'[j] = meta[j]
  BY DEF SaveOutcome, TypeOK
<1>3. \A i \in Jobs : i # j => run'[i] = run[i] /\ meta'[i] = meta[i]
  BY DEF SaveOutcome, TypeOK
<1>4. SavedInv'
  BY <1>1, <1>2, <1>3 DEF SavedInv, Over
<1>5. LoadedInv'
  <2>1. meta'[j].status = "absent" => meta[j].status = "absent"
    BY <1>1, <1>2 DEF SavedInv
  <2> QED
    BY <1>3, <2>1, LoadedKept
<1>6. ForegroundInv'
  BY <1>1, <1>3 DEF ForegroundInv, Over
<1>7. CleanupInv'
  BY <1>1, <1>3 DEF CleanupInv, Over
<1>8. TrustInv'
  BY <1>1, <1>3 DEF TrustInv, Early, Ages, Over
<1> QED
  BY <1>4, <1>5, <1>6, <1>7, <1>8

(* The other steps of run_remote.                                          *)
LEMMA WaitingRecord ==
  ASSUME TypeOK, Parts, RecordInv, NEW j \in Jobs, RunStep(j), ~SaveOutcome(j)
  PROVE  RecordInv'
<1> USE RunFrame DEF RecordInv
<1>1. UNCHANGED meta /\ run[j] # "idle"
  BY DEF RunStep, Connect, BackgroundStarted, LaunchFailed, BackgroundTimesOut,
         ForegroundAnswered, ForegroundTimesOut, CleanupRuns, SpawnFetcher
<1>2. /\ \A i \in Jobs : i # j => run'[i] = run[i] /\ mine'[i] = mine[i]
      /\ run'[j] # "idle"
      /\ run'[j] \in Early => run[j] \in Early
  BY DEF RunStep, Connect, BackgroundStarted, LaunchFailed, BackgroundTimesOut,
         ForegroundAnswered, ForegroundTimesOut, CleanupRuns, SpawnFetcher,
         Conclude, Early, TypeOK
<1>3. LoadedInv'
  BY <1>1, LoadedKept
<1>4. TrustInv'
  BY <1>1, <1>2, RunTrust
<1>5. CASE Connect(j)
  <2>1. UNCHANGED <<mine, fetcher, dir, files>>
    BY <1>5 DEF Connect, fetchVars, hostButLauncher
  <2>2. SavedInv'
    BY <1>1, <1>2, <2>1 DEF SavedInv, Ages, Over
  <2>3. ForegroundInv' /\ CleanupInv'
    BY <1>2, <1>5, <2>1
    DEF Connect, hostButLauncher, ForegroundInv, CleanupInv, Over, TypeOK, HostTypeOK
  <2> QED
    BY <1>3, <1>4, <2>2, <2>3
<1>6. CASE BackgroundStarted(j) \/ LaunchFailed(j) \/ BackgroundTimesOut(j)
           \/ ForegroundAnswered(j)
  <2>1. PICK status \in {"running", "done", "failed"}, pid \in BOOLEAN :
           /\ Conclude(j, status, pid)
           /\ status = "running" => mode[j].bg
           /\ status = "done" => ~mode[j].bg /\ launcher[j] = "exited"
    BY <1>6 DEF BackgroundStarted, LaunchFailed, BackgroundTimesOut,
                ForegroundAnswered
  <2>2. UNCHANGED <<launcher, leader, fetcher, dir, files>>
    BY <1>6 DEF BackgroundStarted, LaunchFailed, BackgroundTimesOut,
                ForegroundAnswered, hostVars, fetchVars
  <2>3. mine'[j].status = status /\ run'[j] = "saving"
    BY <2>1 DEF Conclude, TypeOK
  <2>4. status = "done" => Over(j)
    BY <2>1 DEF ForegroundInv
  <2>5. SavedInv'
    BY <1>1, <1>2, <2>2, <2>3, <2>4 DEF SavedInv, Over
  <2>6. ForegroundInv'
    BY <1>2, <2>1, <2>2, <2>3 DEF ForegroundInv, Over
  <2>7. launcher[j] \in {"exited", "failed"}
    BY <1>6 DEF BackgroundStarted, LaunchFailed, BackgroundTimesOut,
                ForegroundAnswered
  <2>8. CleanupInv'
    BY <1>2, <2>1, <2>2, <2>3, <2>7 DEF CleanupInv, Over
  <2> QED
    BY <1>3, <1>4, <2>5, <2>6, <2>8
<1>7. CASE ForegroundTimesOut(j)
  <2>1. /\ mine'[j].status = "timeout" /\ run'[j] = "cleaning" /\ ~mode[j].bg
        /\ run[j] = "waiting" /\ launcher[j] = "reported"
        /\ UNCHANGED <<launcher, leader, fetcher, dir, files>>
    BY <1>7 DEF ForegroundTimesOut, WithStatus, hostVars, fetchVars, TypeOK
  <2>2. SavedInv'
    BY <1>1, <1>2, <2>1 DEF SavedInv, Over
  <2>3. ForegroundInv'
    BY <1>2, <2>1 DEF ForegroundInv, Over
  <2>4. CleanupInv'
    BY <1>2, <2>1 DEF CleanupInv, Over
  <2> QED
    BY <1>3, <1>4, <2>2, <2>3, <2>4
<1>8. CASE CleanupRuns(j)
  <2>1. /\ run[j] = "cleaning" /\ run'[j] = "saving"
        /\ UNCHANGED <<launcher, mine, fetcher>>
        /\ \A i \in Jobs : i # j => dir'[i] = dir[i] /\ files'[i] = files[i]
    BY <1>8 DEF CleanupRuns, RemoveDir, TypeOK, HostTypeOK
  <2>2. SavedInv'
    BY <1>1, <1>2, <2>1 DEF SavedInv, Ages, Over
  <2>3. ASSUME ~mode[j].bg, faults = 0
        PROVE  leader'[j] \in {"zombie", "dead"}
    <3>1. CASE "pid" \in files[j]
      <4>1. leader[j] # "none"
        BY <2>1, <2>3 DEF CleanupInv, Parts, LauncherInv
      <4> QED
        BY <1>8, <3>1, <4>1, KillEnds DEF CleanupRuns
    <3>2. CASE "pid" \notin files[j]
      BY <1>8, <2>1, <2>3, <3>2
      DEF CleanupRuns, CleanupInv, ForegroundInv, Over
    <3> QED
      BY <3>1, <3>2
  <2>4. ForegroundInv'
    <3>1. ~mode[j].bg => mine[j].status # "running"
      BY <2>1 DEF ForegroundInv
    <3> QED
      BY <1>2, <2>1, <3>1 DEF ForegroundInv, Ages, Over
  <2>5. CleanupInv'
    <3>1. CASE faults = 0
      BY <1>2, <2>1, <2>3, <3>1 DEF CleanupInv, Ages, Over
    <3> QED
      BY <3>1 DEF CleanupInv
  <2> QED
    BY <1>3, <1>4, <2>2, <2>4, <2>5
<1>9. CASE SpawnFetcher(j)
  <2>1. /\ run[j] = "spawning" /\ run'[j] = "ended"
        /\ UNCHANGED <<mine, launcher, leader, dir, files>>
        /\ \A i \in Jobs : i # j => fetcher'[i] = fetcher[i]
    BY <1>9 DEF SpawnFetcher, hostVars, TypeOK
  <2>2. SavedInv'
    BY <1>1, <1>2, <2>1 DEF SavedInv, Over
  <2>3. ForegroundInv'
    BY <1>2, <2>1 DEF ForegroundInv, Over
  <2>4. CleanupInv'
    BY <1>2, <2>1 DEF CleanupInv, Over
  <2> QED
    BY <1>3, <1>4, <2>2, <2>3, <2>4
<1> QED
  BY <1>5, <1>6, <1>7, <1>8, <1>9 DEF RunStep

(* A fault of run_remote: no outcome it concludes is "done", and no save   *)
(* happens in the same step.                                               *)
LEMMA RunFaultRecord ==
  ASSUME TypeOK, RecordInv, NEW j \in Jobs, RunFault(j)
  PROVE  RecordInv'
<1> USE DEF RecordInv
<1>1. /\ UNCHANGED <<mode, waiter, leader, meta, fetcher, query, snap, marks, unseen,
                     held, stop>>
      /\ Fault
  BY DEF RunFault, BackgroundLost, ForegroundDropped, ForegroundErrs,
         CleanupLost, SpawnFails, RunnerDies, hostVars, hostButLauncher,
         queryVars, stopVars, fetchVars
<1>2. /\ \A i \in Jobs : i # j => run'[i] = run[i] /\ mine'[i] = mine[i]
      /\ run[j] # "idle" /\ run'[j] \notin {"idle", "spawning"}
  BY DEF RunFault, BackgroundLost, ForegroundDropped, ForegroundErrs,
         CleanupLost, SpawnFails, RunnerDies, Conclude, TypeOK
<1>3. \/ mine'[j] = mine[j]
      \/ mine'[j].status = "failed"
      \/ mine'[j].status = "timeout" /\ ~mode[j].bg
  BY DEF RunFault, BackgroundLost, ForegroundDropped, ForegroundErrs,
         CleanupLost, SpawnFails, RunnerDies, Conclude, WithStatus, TypeOK
<1>4. run'[j] \in {"cleaning", "saving"} =>
         \/ mine'[j].status # "running"
         \/ run[j] \in {"cleaning", "saving"} /\ mine'[j] = mine[j]
  BY DEF RunFault, BackgroundLost, ForegroundDropped, ForegroundErrs,
         CleanupLost, SpawnFails, RunnerDies, Conclude, WithStatus, TypeOK
<1>5. \A i \in Jobs : launcher'[i] = "exited" => launcher[i] = "exited"
  <2>1. Disconnect(j) \/ UNCHANGED launcher
    BY DEF RunFault, BackgroundLost, ForegroundDropped, ForegroundErrs,
           CleanupLost, SpawnFails, RunnerDies, hostVars
  <2>2. CASE Disconnect(j)
    <3>1. PICK l \in {launcher[j], "cut"} :
             launcher' = [launcher EXCEPT ![j] = l]
      BY <2>2 DEF Disconnect
    <3> QED
      BY <3>1 DEF TypeOK, HostTypeOK
  <2> QED
    BY <2>1, <2>2
<1>6. SavedInv'
  BY <1>1, <1>2, <1>3 DEF SavedInv, Over
<1>7. LoadedInv'
  BY <1>1, LoadedKept
<1>8. ForegroundInv'
  BY <1>1, <1>2, <1>3, <1>4, <1>5 DEF ForegroundInv, Over
<1> QED
  BY <1>1, <1>6, <1>7, <1>8, FaultVoids

-----------------------------------------------------------------------------
(* The other processes.                                                    *)

(* Only background jobs have a fetcher that could remove a directory.      *)
LEMMA FetcherRecord ==
  ASSUME TypeOK, RecordInv, NEW j \in Jobs, FetcherStep(j) \/ FetcherDisconnects(j)
  PROVE  RecordInv'
<1> USE DEF RecordInv
<1>1. UNCHANGED <<mode, launcher, leader, waiter, run, mine, meta, query, snap, marks,
                  unseen, held, stop>>
  BY DEF FetcherStep, FetcherCopies, FetcherCopiesToNobody, FetcherRemoves,
         FetcherDisconnects, hostVars, runVars, queryVars, stopVars
<1>2. /\ mode[j].bg
      /\ \A i \in Jobs : i # j => /\ fetcher'[i] = fetcher[i]
                                  /\ dir'[i] = dir[i] /\ files'[i] = files[i]
  BY DEF FetcherStep, FetcherCopies, FetcherCopiesToNobody, FetcherRemoves,
         FetcherDisconnects, ForegroundInv, RemoveDir, hostVars, TypeOK, HostTypeOK
<1>3. Ages
  BY <1>1, SameEnds, EndsAges
<1>4. SavedInv' /\ LoadedInv' /\ ForegroundInv'
  BY <1>1, <1>2, <1>3, SavedKept, LoadedKept, ForegroundKept
<1>5. CASE Fault
  BY <1>4, <1>5, FaultVoids
<1>6. CASE UNCHANGED faults
  BY <1>1, <1>2, <1>3, <1>4, <1>6, CleanupKept, TrustKept
<1> QED
  BY <1>5, <1>6 DEF FetcherStep, FetcherCopies, FetcherCopiesToNobody,
                    FetcherRemoves, FetcherDisconnects, NoFault

LEMMA FollowRecord ==
  ASSUME TypeOK, RecordInv, NEW w \in Followers, NEW j \in Jobs,
         FollowStarts(w, j) \/ FollowEnds(w, j)
  PROVE  RecordInv'
<1>1. UNCHANGED <<mode, launcher, leader, waiter, dir, files, fetcher, run, mine,
                  meta, query, snap, marks, unseen, held, stop, faults>>
  BY DEF FollowStarts, FollowEnds, hostVars, runVars, fetchVars, queryVars,
         stopVars, NoFault
<1> QED
  BY <1>1, SameEnds, EndsAges, SavedKept, LoadedKept, ForegroundKept, CleanupKept,
     TrustKept DEF RecordInv

(* A restart ends commands and scripts; it touches no record.              *)
LEMMA RestartRecord ==
  ASSUME TypeOK, RecordInv, NEW m \in Machines, HostRestarts(m)
  PROVE  RecordInv'
<1> USE DEF RecordInv
<1>1. /\ UNCHANGED <<mode, run, mine, meta, query, snap, marks, unseen, held>>
      /\ Fault
  BY DEF HostRestarts, runVars, queryVars
<1>2. Ages
  BY EndsAges DEF HostRestarts, LeaderEnds, TypeOK, HostTypeOK
<1>3. \A j \in Jobs : /\ launcher'[j] = "exited" => launcher[j] = "exited"
                      /\ waiter[j] = "off" => waiter'[j] = "off"
                      /\ fetcher[j] = "off" => fetcher'[j] = "off"
  BY DEF HostRestarts
<1>4. ForegroundInv'
  BY <1>1, <1>2, <1>3 DEF ForegroundInv, Ages, Over
<1> QED
  BY <1>1, <1>2, <1>4, SavedKept, LoadedKept, FaultVoids

(* A query marks only what it loaded as running with a pid, and such a job *)
(* is past its run_remote.                                                 *)
LEMMA QueryRecord ==
  ASSUME TypeOK, RecordInv, NEW q \in Queriers,
         LoadRecords(q) \/ ReconcileStep(q)
  PROVE  RecordInv'
<1> USE DEF RecordInv
<1>1. UNCHANGED <<mode, launcher, leader, waiter, dir, files, fetcher, run, mine,
                  unseen, held, stop, faults>>
  BY DEF LoadRecords, ReconcileStep, NothingToAsk, MachineAnswers, MarkStale,
         ListJobs, QueryReturns, hostVars, runVars, fetchVars, stopVars, NoFault
<1>2. Ages
  BY <1>1, SameEnds, EndsAges
<1>3. ForegroundInv' /\ CleanupInv'
  BY <1>1, <1>2, ForegroundKept, CleanupKept
<1>4. CASE LoadRecords(q)
  <2>1. /\ UNCHANGED <<meta, marks>>
        /\ snap'[q] = meta /\ query[q] = "idle"
        /\ \A p \in Queriers :
              p # q => snap'[p] = snap[p] /\ query'[p] = query[p]
    BY <1>4 DEF LoadRecords, TypeOK
  <2>2. SavedInv'
    BY <1>1, <1>2, <2>1, SavedKept
  <2>3. marks[q] = {}
    BY <2>1 DEF LoadedInv, TypeOK
  <2>4. LoadedInv'
    BY <1>1, <2>1, <2>3 DEF LoadedInv
  <2>5. TrustInv'
    BY <1>1, <2>1, <2>3 DEF TrustInv, Open, Over
  <2> QED
    BY <1>3, <2>2, <2>4, <2>5
<1>5. ASSUME NEW m \in Machines, NothingToAsk(q, m) \/ MachineAnswers(q, m)
      PROVE  RecordInv'
  <2>1. /\ UNCHANGED <<meta, query, snap>> /\ query[q] = "asking"
        /\ \A p \in Queriers : p # q => marks'[p] = marks[p]
    BY <1>5 DEF NothingToAsk, MachineAnswers, AskingNext, TypeOK
  <2>2. \A i \in marks'[q] :
           i \in marks[q] \/ (snap[q][i].pid /\ snap[q][i].status = "running")
    BY <1>5 DEF NothingToAsk, MachineAnswers, FoundDead, RunningIn, TypeOK
  <2>3. SavedInv'
    BY <1>1, <1>2, <2>1, SavedKept
  <2>4. LoadedInv'
    BY <1>1, <2>1, <2>2 DEF LoadedInv
  <2>5. TrustInv'
    BY <1>1, <2>1, <2>2 DEF TrustInv, Over
  <2> QED
    BY <1>3, <2>3, <2>4, <2>5
<1>6. ASSUME NEW j \in Jobs, MarkStale(q, j)
      PROVE  RecordInv'
  <2>1. /\ j \in marks[q] /\ UNCHANGED <<query, snap>>
        /\ \A p \in Queriers : marks'[p] \subseteq marks[p]
        /\ \A i \in Jobs : i # j => meta'[i] = meta[i]
        /\ meta'[j] = [status |-> "stale", pid |-> snap[q][j].pid]
    BY <1>6 DEF MarkStale, WithStatus, TypeOK
  <2>2. meta[j].status # "absent"
    BY <2>1 DEF LoadedInv
  <2>3. SavedInv'
    BY <1>1, <2>1, <2>2 DEF SavedInv, Over
  <2>4. LoadedInv'
    BY <1>1, <2>1, <2>2, LoadedKept
  <2>5. faults = 0 => run[j] \notin Early \cup {"idle"}
    BY <2>1 DEF TrustInv
  <2>6. TrustInv'
    BY <1>1, <2>1, <2>5 DEF TrustInv, Open, Over
  <2> QED
    BY <1>3, <2>3, <2>4, <2>6
<1>7. CASE ListJobs(q)
  <2>1. /\ UNCHANGED <<meta, snap, marks>> /\ marks[q] = {}
        /\ \A p \in Queriers : p # q => query'[p] = query[p]
    BY <1>7 DEF ListJobs, TypeOK
  <2>2. LoadedInv'
    BY <1>1, <2>1 DEF LoadedInv
  <2> QED
    BY <1>1, <1>2, <1>3, <2>1, <2>2, SavedKept, TrustKept
<1>8. CASE QueryReturns(q)
  <2>1. /\ UNCHANGED <<meta, marks>> /\ marks[q] = {}
        /\ \A i \in Jobs : snap'[q][i] = NoRecord
        /\ \A p \in Queriers :
              p # q => snap'[p] = snap[p] /\ query'[p] = query[p]
    BY <1>8 DEF QueryReturns, LoadedInv, TypeOK
  <2>2. SavedInv'
    BY <1>1, <1>2, <2>1, SavedKept
  <2>3. LoadedInv'
    BY <1>1, <2>1 DEF LoadedInv, NoRecord
  <2>4. TrustInv'
    BY <1>1, <2>1 DEF TrustInv, NoRecord, Over
  <2> QED
    BY <1>3, <2>2, <2>3, <2>4
<1> QED
  BY <1>4, <1>5, <1>6, <1>7, <1>8 DEF ReconcileStep

LEMMA QueryFaultRecord ==
  ASSUME TypeOK, RecordInv, NEW q \in Queriers, QueryFault(q)
  PROVE  RecordInv'
<1> USE DEF RecordInv
<1>1. UNCHANGED <<mode, launcher, leader, waiter, fetcher, run, mine, meta, query,
                  snap>>
  BY DEF QueryFault, MachineDrops, MachineUnreachable, hostVars, runVars, fetchVars
<1>2. Ages /\ Fault
  BY <1>1, SameEnds, EndsAges DEF QueryFault, MachineDrops, MachineUnreachable
<1>3. \A p \in Queriers : \A j \in marks'[p] :
         \/ j \in marks[p]
         \/ snap[p][j].status = "running" /\ query[p] = "asking"
  BY DEF QueryFault, MachineDrops, MachineUnreachable, AskingNext, RunningIn, TypeOK
<1>4. LoadedInv'
  <2>1. UNCHANGED held
    BY DEF QueryFault, MachineDrops, MachineUnreachable, stopVars
  <2> QED
    BY <1>1, <1>3, <2>1 DEF LoadedInv
<1> QED
  BY <1>1, <1>2, <1>4, SavedKept, ForegroundKept, FaultVoids

(* A stop holds a job that was running with a pid; when it comes to save,  *)
(* its script has left the command dead.                                   *)
LEMMA StopRecord ==
  ASSUME TypeOK, Parts, RecordInv, NEW s \in Stoppers, NEW j \in Jobs,
         StopLoads(s, j) \/ StopStep(s, j)
  PROVE  RecordInv'
<1> USE DEF RecordInv
<1>1. UNCHANGED <<mode, launcher, waiter, dir, fetcher, run, mine, query, snap,
                  marks, unseen, faults>>
  BY DEF StopLoads, StopStep, StopTerms, StopKills, StopMarks, StopSaves,
         hostVars, runVars, fetchVars, queryVars, NoFault
<1>2. Ages
  BY SignalEnds, SameEnds, EndsAges
  DEF StopLoads, StopStep, StopTerms, StopKills, StopMarks, StopSaves, hostVars
<1>3. \A i \in Jobs : ~mode[i].bg => dir'[i] = dir[i] /\ files[i] \subseteq files'[i]
  <2>1. CASE StopMarks(s, j)
    BY <1>1, <2>1 DEF StopMarks, WriteFile, TypeOK, HostTypeOK
  <2>2. CASE ~StopMarks(s, j)
    BY <1>1, <2>2 DEF StopLoads, StopStep, StopTerms, StopKills, StopSaves, hostVars
  <2> QED
    BY <2>1, <2>2
<1>4. ForegroundInv' /\ CleanupInv'
  BY <1>1, <1>2, <1>3, ForegroundKept, CleanupKept
<1>5. CASE StopLoads(s, j)
  <2>1. /\ meta[j].status = "running" /\ meta[j].pid /\ UNCHANGED <<meta, leader>>
        /\ stop'[s] = "terming" /\ held'[s].job = j
        /\ \A r \in Stoppers : r # s => stop'[r] = stop[r] /\ held'[r] = held[r]
    BY <1>5 DEF StopLoads, hostVars, TypeOK
  <2>2. SavedInv'
    BY <1>1, <1>2, <2>1, SavedKept
  <2>3. LoadedInv'
    BY <1>1, <2>1 DEF LoadedInv
  <2>4. TrustInv'
    BY <1>1, <2>1 DEF TrustInv, Open, Over
  <2> QED
    BY <1>4, <2>2, <2>3, <2>4
<1>6. CASE StopTerms(s, j) \/ StopKills(s, j) \/ StopMarks(s, j)
  <2>1. /\ UNCHANGED <<meta, held>>
        /\ \A r \in Stoppers : r # s => stop'[r] = stop[r]
        /\ stop'[s] = "saving" => stop[s] = "marking" /\ held[s].job = j
        /\ held[s].job = j
    BY <1>6 DEF StopTerms, StopKills, StopMarks, TypeOK
  <2>2. SavedInv' /\ LoadedInv'
    BY <1>1, <1>2, <2>1, SavedKept, LoadedKept
  <2>3. stop'[s] = "saving" => Over(j)
    BY <2>1 DEF Parts, DoneInv
  <2>4. TrustInv'
    BY <1>1, <1>2, <2>1, <2>3 DEF TrustInv, Ages, Over
  <2> QED
    BY <1>4, <2>2, <2>4
<1>7. CASE StopSaves(s, j)
  <2>1. /\ held[s].job = j /\ held'[s].job = NoJob /\ UNCHANGED leader
        /\ stop'[s] = "idle"
        /\ \A r \in Stoppers : r # s => stop'[r] = stop[r] /\ held'[r] = held[r]
        /\ \A i \in Jobs : i # j => meta'[i] = meta[i]
        /\ meta'[j].status = "stopped"
    BY <1>7 DEF StopSaves, WithStatus, hostVars, TypeOK
  <2>2. meta[j].status # "absent"
    BY <2>1 DEF LoadedInv
  <2>3. SavedInv'
    BY <1>1, <2>1, <2>2 DEF SavedInv, Over
  <2>4. \A r \in Stoppers, i \in Jobs : held'[r].job = i => held[r].job = i
    BY <2>1, JobsAssumption
  <2>5. LoadedInv'
    BY <1>1, <2>1, <2>2, <2>4, LoadedKept
  <2>6. faults = 0 => run[j] \notin Early \cup {"idle"}
    BY <2>1 DEF TrustInv
  <2>7. TrustInv'
    BY <1>1, <2>1, <2>4, <2>6 DEF TrustInv, Open, Over
  <2> QED
    BY <1>4, <2>3, <2>5, <2>7
<1> QED
  BY <1>5, <1>6, <1>7 DEF StopStep

LEMMA StopFaultRecord ==
  ASSUME TypeOK, RecordInv, NEW s \in Stoppers, StopDropped(s) \/ StopErrs(s)
  PROVE  RecordInv'
<1> USE DEF RecordInv
<1>1. /\ UNCHANGED <<mode, launcher, leader, waiter, fetcher, run, mine, meta, query,
                     snap, marks>>
      /\ Fault
  BY DEF StopDropped, StopErrs, hostVars, runVars, fetchVars, queryVars
<1>2. \A r \in Stoppers, i \in Jobs : held'[r].job = i => held[r].job = i
  <2>1. CASE StopDropped(s)
    BY <2>1 DEF StopDropped
  <2>2. CASE StopErrs(s)
    <3>1. held'[s].job = NoJob /\ \A r \in Stoppers : r # s => held'[r] = held[r]
      BY <2>2 DEF StopErrs, TypeOK
    <3> QED
      BY <3>1, JobsAssumption
  <2> QED
    BY <2>1, <2>2
<1> QED
  BY <1>1, <1>2, SameEnds, EndsAges, SavedKept, LoadedKept, ForegroundKept,
     FaultVoids

LEMMA RecordStep == TypeOK /\ Parts /\ RecordInv /\ [Next]_vars => RecordInv'
<1> SUFFICES ASSUME TypeOK, Parts, RecordInv, [Next]_vars PROVE RecordInv'
  OBVIOUS
<1>1. CASE UNCHANGED vars
  <2>1. /\ UNCHANGED <<mode, launcher, leader, waiter, dir, files, fetcher, run>>
        /\ UNCHANGED <<mine, meta, query, snap, marks, unseen, held, stop, faults>>
    BY <1>1 DEF vars, hostVars, localVars, runVars, fetchVars, queryVars, stopVars
  <2> QED
    BY <2>1, SameEnds, EndsAges, SavedKept, LoadedKept, ForegroundKept,
       CleanupKept, TrustKept DEF RecordInv
<1> QED
  BY <1>1, HostRecord, SubmitRecord, SaveRecord, WaitingRecord, RunFaultRecord,
     FetcherRecord, QueryRecord, QueryFaultRecord, StopRecord, StopFaultRecord,
     FollowRecord, RestartRecord DEF Next

-----------------------------------------------------------------------------
(* The refinement.                                                         *)

Process(j) == IF Over(j) THEN "over" ELSE leader[j]

LEMMA PromiseInit == Init => Promise!Init
BY DEF Init, HostInit, Promise!Init, Over, NoRecord

(* A step that leaves the records alone and fails nothing starts or ends   *)
(* the command of one job, or is invisible.                                *)
LEMMA ProcessStep ==
  ASSUME TypeOK, NEW j \in Jobs, UNCHANGED <<meta, unseen, faults>>,
         \A i \in Jobs : i # j => leader'[i] = leader[i],
         leader' \in [Jobs -> LeaderState], Ages
  PROVE  [Promise!Next]_Promise!vars
<1>1. \A i \in Jobs : i # j => Process(i)' = Process(i)
  BY DEF Process, Over
<1>2. CASE Process(j)' = Process(j)
  <2>1. \A i \in Jobs : Process(i)' = Process(i)
    BY <1>1, <1>2
  <2> QED
    BY <2>1 DEF Promise!vars, Process
<1>3. CASE Process(j) = "none" /\ Process(j)' \in {"alive", "over"}
  <2>1. Promise!Start(j)
    BY <1>1, <1>3 DEF Promise!Start, Process
  <2> QED
    BY <2>1 DEF Promise!Next
<1>4. CASE Process(j) = "alive" /\ Process(j)' = "over"
  <2>1. Promise!End(j)
    BY <1>1, <1>4 DEF Promise!End, Process
  <2> QED
    BY <2>1 DEF Promise!Next
<1> QED
  BY <1>2, <1>3, <1>4 DEF Process, Over, Ages, LeaderState, TypeOK, HostTypeOK

(* A fault changes no record; it may end commands, and give up jobs.       *)
LEMMA FaultStep ==
  ASSUME TypeOK, Fault, UNCHANGED meta, unseen \subseteq unseen',
         unseen' \subseteq Jobs,
         \A i \in Jobs : \/ leader'[i] = leader[i]
                         \/ leader[i] \in {"alive", "zombie"} /\ leader'[i] = "dead"
  PROVE  [Promise!Next]_Promise!vars
<1> DEFINE Ended == {i \in Jobs : leader'[i] # leader[i]}
<1>1. faults' # 0
  BY JobsAssumption DEF TypeOK, Fault
<1>2. \A i \in Jobs :
         Process(i)' = IF i \in Ended /\ Process(i) = "alive" THEN "over"
                       ELSE Process(i)
  BY DEF Process, Over
<1>3. unseen' = unseen \cup unseen'
  OBVIOUS
<1>4. Ended \in SUBSET Jobs
  OBVIOUS
<1>5. Promise!Fail
  BY <1>1, <1>2, <1>3, <1>4 DEF Promise!Fail, Process
<1> QED
  BY <1>5 DEF Promise!Next

(* The saving of a verdict that is true, or after a fault one that was not *)
(* made up.                                                                *)
LEMMA VerdictStep ==
  ASSUME TypeOK, NEW j \in Jobs, NEW rec \in Record,
         meta' = [meta EXCEPT ![j] = rec],
         UNCHANGED <<leader, unseen, faults>>,
         meta[j].status # "absent", rec.status # "absent",
         faults = 0 => \/ meta[j].status = "running"
                       \/ {meta[j].status, rec.status} \subseteq {"stopped", "stale"},
         faults = 0 /\ rec.status \in {"done", "timeout", "stopped", "stale"}
             => Over(j),
         rec.status = "done" => Over(j),
         rec.status = "stale" => Over(j) \/ j \in unseen
  PROVE  [Promise!Next]_Promise!vars
<1>1. /\ \A i \in Jobs : Process(i)' = Process(i)
      /\ [i \in Jobs |-> meta[i].status]'
            = [[i \in Jobs |-> meta[i].status] EXCEPT ![j] = rec.status]
  BY DEF Process, Over, TypeOK
<1>2. rec.status \in Promise!Verdicts \cup {"running", "failed"}
  BY DEF Record, Status, Promise!Verdicts
<1>3. CASE faults = 0
  <2>1. Promise!Settle(j, rec.status)
    BY <1>1, <1>3 DEF Promise!Settle, Promise!Verdicts, Process
  <2> QED
    BY <1>2, <2>1 DEF Promise!Next
<1>4. CASE faults # 0
  <2>1. Promise!Overwrite(j, rec.status)
    BY <1>1, <1>4 DEF Promise!Overwrite, Process
  <2> QED
    BY <1>2, <2>1 DEF Promise!Next
<1> QED
  BY <1>3, <1>4

LEMMA HostSimulates ==
  ASSUME TypeOK, Parts, NEW j \in Jobs, HostMoves(j)
  PROVE  [Promise!Next]_Promise!vars
<1>1. UNCHANGED <<meta, unseen, faults>>
  BY DEF HostMoves, NoFault, localVars, queryVars
<1>2. leader' \in [Jobs -> LeaderState]
  BY HostStepType DEF HostMoves, TypeOK, HostTypeOK
<1>3. \A i \in Jobs : i # j => leader'[i] = leader[i]
  BY DEF HostMoves, HostStep, LauncherStep, WaiterStep, LauncherPrepares,
         LauncherFails, LauncherSpawns, LauncherReports, LauncherDetaches,
         LauncherFinishes, CommandForks, CommandExits, ChildExits, WaiterPolls,
         WaiterSeesExit, WaiterTerms, WaiterKills, WaiterMarks, TermGroup,
         KillGroup, TypeOK, HostTypeOK
<1> QED
  BY <1>1, <1>2, <1>3, HostAges, ProcessStep

LEMMA RunSimulates ==
  ASSUME TypeOK, Parts, RecordInv, NEW j \in Jobs, Submit(j) \/ RunStep(j)
  PROVE  [Promise!Next]_Promise!vars
<1>1. UNCHANGED <<unseen, faults>> /\ Ages
  BY RunFrame
<1>2. CASE Submit(j)
  <2>1. UNCHANGED leader
    BY <1>2 DEF Submit, hostVars
  <2>2. CASE mode[j].kept
    <3>1. /\ meta[j].status = "absent" /\ leader[j] = "none"
      BY <1>2 DEF Submit, RecordInv, SavedInv, Parts, LauncherInv, TypeOK, HostTypeOK
    <3>2. /\ \A i \in Jobs : Process(i)' = Process(i)
          /\ Process(j) = "none"
          /\ [i \in Jobs |-> meta[i].status]'
                = [[i \in Jobs |-> meta[i].status] EXCEPT ![j] = "running"]
      BY <1>2, <2>1, <2>2, <3>1 DEF Submit, Process, Over, TypeOK
    <3>3. Promise!Open(j)
      BY <1>1, <3>1, <3>2 DEF Promise!Open, Process
    <3> QED
      BY <3>3 DEF Promise!Next
  <2>3. CASE ~mode[j].kept
    <3>1. UNCHANGED meta
      BY <1>2, <2>3 DEF Submit, TypeOK
    <3> QED
      BY <1>1, <2>1, <3>1 DEF Promise!vars, Over
  <2> QED
    BY <2>2, <2>3
<1>3. CASE SaveOutcome(j)
  <2>1. UNCHANGED leader /\ run[j] = "saving"
    BY <1>3 DEF SaveOutcome, hostVars
  <2>2. CASE mode[j].kept
    <3>1. meta' = [meta EXCEPT ![j] = mine[j]] /\ mine[j] \in Record
      BY <1>3, <2>2 DEF SaveOutcome, TypeOK
    <3>2. /\ meta[j].status # "absent"
          /\ mine[j].status \in {"running", "done", "failed", "timeout"}
          /\ mine[j].status = "done" => Over(j)
      BY <2>1, <2>2 DEF RecordInv, SavedInv
    <3>3. faults = 0 => meta[j].status = "running"
      BY <2>1, <2>2 DEF RecordInv, TrustInv, Early
    <3>4. faults = 0 /\ mine[j].status = "timeout" => Over(j)
      BY <2>1 DEF RecordInv, CleanupInv, ForegroundInv
    <3> QED
      BY <1>1, <2>1, <3>1, <3>2, <3>3, <3>4, VerdictStep
  <2>3. CASE ~mode[j].kept
    <3>1. UNCHANGED meta
      BY <1>3, <2>3 DEF SaveOutcome, TypeOK
    <3> QED
      BY <1>1, <2>1, <3>1 DEF Promise!vars, Over
  <2> QED
    BY <2>2, <2>3
<1>4. CASE RunStep(j) /\ ~SaveOutcome(j)
  <2>1. UNCHANGED meta
    BY <1>4 DEF RunStep, Connect, BackgroundStarted, LaunchFailed,
                BackgroundTimesOut, ForegroundAnswered, ForegroundTimesOut,
                CleanupRuns, SpawnFetcher
  <2>2. \A i \in Jobs : i # j => leader'[i] = leader[i]
    <3>1. CASE CleanupRuns(j)
      BY <3>1 DEF CleanupRuns, KillGroup, TypeOK, HostTypeOK
    <3>2. CASE ~CleanupRuns(j)
      BY <1>4, <3>2
      DEF RunStep, Connect, BackgroundStarted, LaunchFailed, BackgroundTimesOut,
          ForegroundAnswered, ForegroundTimesOut, SpawnFetcher, hostVars,
          hostButLauncher
    <3> QED
      BY <3>1, <3>2
  <2>3. leader' \in [Jobs -> LeaderState]
    BY RunType DEF TypeOK, HostTypeOK
  <2> QED
    BY <1>1, <2>1, <2>2, <2>3, ProcessStep
<1> QED
  BY <1>2, <1>3, <1>4

LEMMA QuerySimulates ==
  ASSUME TypeOK, Parts, RecordInv, NEW q \in Queriers,
         LoadRecords(q) \/ ReconcileStep(q)
  PROVE  [Promise!Next]_Promise!vars
<1>1. UNCHANGED <<leader, unseen, faults>>
  BY DEF LoadRecords, ReconcileStep, NothingToAsk, MachineAnswers, MarkStale,
         ListJobs, QueryReturns, hostVars, NoFault
<1>2. CASE UNCHANGED meta
  BY <1>1, <1>2 DEF Promise!vars, Over
<1>3. ASSUME NEW j \in Jobs, MarkStale(q, j)
      PROVE  [Promise!Next]_Promise!vars
  <2>1. /\ j \in marks[q]
        /\ meta' = [meta EXCEPT ![j] = WithStatus(snap[q][j], "stale")]
    BY <1>3 DEF MarkStale
  <2>2. /\ WithStatus(snap[q][j], "stale") \in Record
        /\ WithStatus(snap[q][j], "stale").status = "stale"
    BY DEF WithStatus, Record, Status, TypeOK
  <2>3. meta[j].status # "absent" /\ (j \in unseen \/ leader[j] = "dead")
    BY <2>1 DEF RecordInv, LoadedInv, Parts, StaleInv
  <2>4. faults = 0 => meta[j].status \in Open /\ unseen = {}
    BY <2>1 DEF RecordInv, LoadedInv, TrustInv
  <2> QED
    BY <1>1, <2>1, <2>2, <2>3, <2>4, VerdictStep DEF Open, Over
<1> QED
  BY <1>2, <1>3 DEF LoadRecords, ReconcileStep, NothingToAsk, MachineAnswers,
                    ListJobs, QueryReturns

LEMMA StopSimulates ==
  ASSUME TypeOK, Parts, RecordInv, NEW s \in Stoppers, NEW j \in Jobs,
         StopLoads(s, j) \/ StopStep(s, j)
  PROVE  [Promise!Next]_Promise!vars
<1>1. UNCHANGED <<unseen, faults>>
  BY DEF StopLoads, StopStep, StopTerms, StopKills, StopMarks, StopSaves,
         queryVars, NoFault
<1>2. CASE StopSaves(s, j)
  <2>1. /\ stop[s] = "saving" /\ held[s].job = j /\ UNCHANGED leader
        /\ meta' = [meta EXCEPT ![j] = WithStatus(held[s].rec, "stopped")]
    BY <1>2 DEF StopSaves, hostVars
  <2>2. /\ WithStatus(held[s].rec, "stopped") \in Record
        /\ WithStatus(held[s].rec, "stopped").status = "stopped"
    BY DEF WithStatus, Record, Status, TypeOK
  <2>3. meta[j].status # "absent"
    BY <2>1 DEF RecordInv, LoadedInv
  <2>4. faults = 0 => meta[j].status \in Open /\ Over(j)
    BY <2>1 DEF RecordInv, TrustInv
  <2> QED
    BY <1>1, <2>1, <2>2, <2>3, <2>4, VerdictStep DEF Open
<1>3. CASE ~StopSaves(s, j)
  <2>1. UNCHANGED meta
    BY <1>3 DEF StopLoads, StopStep, StopTerms, StopKills, StopMarks
  <2>2. \A i \in Jobs : i # j => leader'[i] = leader[i]
    BY <1>3 DEF StopLoads, StopStep, StopTerms, StopKills, StopMarks, TermGroup,
                KillGroup, hostVars, TypeOK, HostTypeOK
  <2>3. leader' \in [Jobs -> LeaderState]
    BY StopType DEF TypeOK, HostTypeOK
  <2>4. Ages
    BY <1>3, SignalEnds, SameEnds, EndsAges
    DEF StopLoads, StopStep, StopTerms, StopKills, StopMarks, hostVars
  <2> QED
    BY <1>1, <2>1, <2>2, <2>3, <2>4, ProcessStep
<1> QED
  BY <1>2, <1>3

(* Faults, and the steps of the fetcher and the follower.                  *)
LEMMA OtherSimulates ==
  ASSUME TypeOK,
         \/ \E j \in Jobs : RunFault(j) \/ FetcherStep(j) \/ FetcherDisconnects(j)
         \/ \E q \in Queriers : QueryFault(q)
         \/ \E s \in Stoppers : StopDropped(s) \/ StopErrs(s)
         \/ \E w \in Followers, j \in Jobs : FollowStarts(w, j) \/ FollowEnds(w, j)
         \/ \E m \in Machines : HostRestarts(m)
  PROVE  [Promise!Next]_Promise!vars
<1>1. ASSUME NEW j \in Jobs, RunFault(j) PROVE [Promise!Next]_Promise!vars
  <2>1. UNCHANGED <<leader, meta, unseen>> /\ Fault
    BY <1>1 DEF RunFault, BackgroundLost, ForegroundDropped, ForegroundErrs,
                CleanupLost, SpawnFails, RunnerDies, hostVars, hostButLauncher,
                queryVars
  <2> QED
    BY <2>1, FaultStep DEF TypeOK
<1>2. ASSUME NEW j \in Jobs, FetcherStep(j) PROVE [Promise!Next]_Promise!vars
  <2>1. UNCHANGED <<leader, meta, unseen, faults>>
    BY <1>2 DEF FetcherStep, FetcherCopies, FetcherCopiesToNobody,
                FetcherRemoves, hostVars, queryVars, NoFault
  <2> QED
    BY <2>1 DEF Promise!vars, Over
<1>3. ASSUME NEW j \in Jobs, FetcherDisconnects(j) PROVE [Promise!Next]_Promise!vars
  <2>1. UNCHANGED <<leader, meta, unseen>> /\ Fault
    BY <1>3 DEF FetcherDisconnects, hostVars, queryVars
  <2> QED
    BY <2>1, FaultStep DEF TypeOK
<1>4. ASSUME NEW q \in Queriers, QueryFault(q) PROVE [Promise!Next]_Promise!vars
  <2>1. /\ UNCHANGED <<leader, meta>> /\ Fault
        /\ unseen \subseteq unseen'
    BY <1>4 DEF QueryFault, MachineDrops, MachineUnreachable, hostVars
  <2>2. unseen' \subseteq Jobs
    BY <1>4, QueryFaultType DEF TypeOK
  <2> QED
    BY <2>1, <2>2, FaultStep
<1>5. ASSUME NEW s \in Stoppers, StopDropped(s) \/ StopErrs(s)
      PROVE  [Promise!Next]_Promise!vars
  <2>1. UNCHANGED <<leader, meta, unseen>> /\ Fault
    BY <1>5 DEF StopDropped, StopErrs, hostVars, queryVars
  <2> QED
    BY <2>1, FaultStep DEF TypeOK
<1>6. ASSUME NEW w \in Followers, NEW j \in Jobs, FollowStarts(w, j) \/ FollowEnds(w, j)
      PROVE  [Promise!Next]_Promise!vars
  <2>1. UNCHANGED <<leader, meta, unseen, faults>>
    BY <1>6 DEF FollowStarts, FollowEnds, hostVars, queryVars, NoFault
  <2> QED
    BY <2>1 DEF Promise!vars, Over
<1>7. ASSUME NEW m \in Machines, HostRestarts(m) PROVE [Promise!Next]_Promise!vars
  <2>1. UNCHANGED <<meta, unseen>> /\ Fault
    BY <1>7 DEF HostRestarts, queryVars
  <2>2. \A i \in Jobs : \/ leader'[i] = leader[i]
                        \/ leader[i] \in {"alive", "zombie"} /\ leader'[i] = "dead"
    BY <1>7 DEF HostRestarts
  <2> QED
    BY <2>1, <2>2, FaultStep DEF TypeOK
<1> QED
  BY <1>1, <1>2, <1>3, <1>4, <1>5, <1>6, <1>7

(* Runs, queries, stops, fetchers, followers and faults together keep the  *)
(* promises of JobRecord: until something fails a verdict in meta.json is  *)
(* the truth about the command, whichever process wrote it and whatever it *)
(* had loaded before; "done", and a "stale" that was not a guess, are the  *)
(* truth even then.                                                        *)
THEOREM KeepsPromises == Spec => RecordKeepsPromises
<1>1. Init => TypeOK /\ Parts /\ RecordInv
  BY TypeInit, PartsInit, RecordInit
<1>2. TypeOK /\ Parts /\ RecordInv /\ [Next]_vars => (TypeOK /\ Parts /\ RecordInv)'
  BY TypeStep, PartsStep, RecordStep
<1>3. TypeOK /\ Parts /\ RecordInv /\ [Next]_vars => [Promise!Next]_Promise!vars
  <2> SUFFICES ASSUME TypeOK, Parts, RecordInv, [Next]_vars
               PROVE  [Promise!Next]_Promise!vars
    OBVIOUS
  <2>1. CASE UNCHANGED vars
    BY <2>1 DEF vars, hostVars, localVars, queryVars, Promise!vars, Over
  <2> QED
    BY <2>1, HostSimulates, RunSimulates, QuerySimulates, StopSimulates,
       OtherSimulates DEF Next
<1> QED
  BY <1>1, <1>2, <1>3, PromiseInit, PTL DEF Spec, RecordKeepsPromises, Promise!Spec

-----------------------------------------------------------------------------
(* What every step does to a leader and to a finished run_remote.          *)

(* run_remote has saved its outcome, or is dead.                           *)
Past == {"spawning", "ended", "dead"}

LEMMA PastStays ==
  ASSUME TypeOK, [Next]_vars
  PROVE  \A j \in Jobs : run[j] \in Past => run'[j] \in Past
<1> USE DEF Past
<1>1. ASSUME NEW i \in Jobs, Submit(i) \/ RunStep(i)
      PROVE  \A j \in Jobs : run[j] \in Past => run'[j] \in Past
  BY <1>1 DEF RunStep, Submit, Connect, BackgroundStarted, LaunchFailed,
              BackgroundTimesOut, ForegroundAnswered, ForegroundTimesOut, Conclude,
              CleanupRuns, SaveOutcome, SpawnFetcher, TypeOK
<1>2. ASSUME NEW i \in Jobs, RunFault(i)
      PROVE  \A j \in Jobs : run[j] \in Past => run'[j] \in Past
  BY <1>2 DEF RunFault, BackgroundLost, ForegroundDropped, ForegroundErrs, Conclude,
              CleanupLost, SpawnFails, RunnerDies, TypeOK
<1>3. CASE UNCHANGED run
  BY <1>3
<1> QED
  BY <1>1, <1>2, <1>3
  DEF Next, vars, localVars, runVars, HostMoves, FetcherStep, FetcherCopies,
      FetcherCopiesToNobody, FetcherRemoves, FetcherDisconnects, LoadRecords,
      ReconcileStep, NothingToAsk, MachineAnswers, MarkStale, ListJobs,
      QueryReturns, QueryFault, MachineDrops, MachineUnreachable, StopLoads,
      StopStep, StopTerms, StopKills, StopMarks, StopSaves, StopDropped, StopErrs,
      FollowStarts, FollowEnds, HostRestarts

(* A leader comes from its launcher, and from then on can only end.        *)
Starts == \A j \in Jobs : \/ leader'[j] = leader[j]
                          \/ leader[j] # "none" /\ leader'[j] \in {"zombie", "dead"}
                          \/ launcher[j] = "prepared" /\ leader[j] = "none"

LEMMA LeaderSteps ==
  ASSUME TypeOK, Parts, [Next]_vars
  PROVE  Starts /\ Ages /\ DeadStay
<1> USE DEF TypeOK, HostTypeOK
<1>1. LeaderEnds => Starts /\ Ages /\ DeadStay
  BY EndsAges DEF LeaderEnds, Starts
<1>2. ASSUME NEW j \in Jobs, HostMoves(j) PROVE Starts /\ Ages /\ DeadStay
  <2>1. CASE LauncherSpawns(j)
    BY <2>1 DEF LauncherSpawns, Parts, LauncherInv, Starts, Ages, DeadStay, Over
  <2>2. CASE LauncherStep(j) /\ ~LauncherSpawns(j)
    <3>1. UNCHANGED leader
      BY <2>2 DEF LauncherStep, LauncherPrepares, LauncherFails, LauncherReports,
                  LauncherDetaches, LauncherFinishes
    <3> QED
      BY <1>1, <3>1, SameEnds
  <2>3. CASE CommandForks(j) \/ CommandExits(j) \/ ChildExits(j)
    BY <1>1, <2>3 DEF CommandForks, CommandExits, ChildExits, LeaderEnds, Corpse
  <2>4. CASE WaiterStep(j)
    BY <1>1, <2>4, SignalEnds DEF WaiterStep, WaiterPolls, WaiterSeesExit,
                                  WaiterTerms, WaiterKills, WaiterMarks
  <2> QED
    BY <1>2, <2>1, <2>2, <2>3, <2>4 DEF HostMoves, HostStep
<1>3. ASSUME NEW j \in Jobs, Submit(j) \/ RunStep(j) PROVE LeaderEnds
  BY <1>3, SignalEnds, SameEnds
  DEF RunStep, Submit, Connect, BackgroundStarted, LaunchFailed,
      BackgroundTimesOut, ForegroundAnswered, ForegroundTimesOut, CleanupRuns,
      SaveOutcome, SpawnFetcher, hostVars, hostButLauncher
<1>4. ASSUME NEW j \in Jobs, RunFault(j) \/ FetcherStep(j) \/ FetcherDisconnects(j)
      PROVE  LeaderEnds
  BY <1>4, SameEnds
  DEF RunFault, BackgroundLost, ForegroundDropped, ForegroundErrs, CleanupLost,
      SpawnFails, RunnerDies, FetcherStep, FetcherCopies, FetcherCopiesToNobody,
      FetcherRemoves, FetcherDisconnects, hostVars, hostButLauncher
<1>5. ASSUME NEW q \in Queriers, LoadRecords(q) \/ ReconcileStep(q) \/ QueryFault(q)
      PROVE  LeaderEnds
  BY <1>5, SameEnds
  DEF LoadRecords, ReconcileStep, QueryFault, NothingToAsk, MachineAnswers,
      MarkStale, ListJobs, QueryReturns, MachineDrops, MachineUnreachable, hostVars
<1>6. ASSUME NEW s \in Stoppers, NEW j \in Jobs, StopLoads(s, j) \/ StopStep(s, j)
      PROVE  LeaderEnds
  BY <1>6, SignalEnds, SameEnds
  DEF StopLoads, StopStep, StopTerms, StopKills, StopMarks, StopSaves, hostVars
<1>7. ASSUME NEW s \in Stoppers, StopDropped(s) \/ StopErrs(s) PROVE LeaderEnds
  BY <1>7, SameEnds DEF StopDropped, StopErrs, hostVars
<1>8. ASSUME NEW w \in Followers, NEW j \in Jobs, FollowStarts(w, j) \/ FollowEnds(w, j)
      PROVE  LeaderEnds
  BY <1>8, SameEnds DEF FollowStarts, FollowEnds, hostVars
<1>9. ASSUME NEW m \in Machines, HostRestarts(m) PROVE LeaderEnds
  BY <1>9 DEF HostRestarts, LeaderEnds
<1>10. CASE UNCHANGED vars
  BY <1>1, <1>10, SameEnds DEF vars, hostVars
<1> QED
  BY <1>1, <1>2, <1>3, <1>4, <1>5, <1>6, <1>7, <1>8, <1>9, <1>10 DEF Next

(* Once a process has ended it is reaped at once where init reaps, so that *)
(* kill -0 tells who has ended.                                            *)
NoZombies == \A j \in Jobs : leader[j] # "zombie"

LEMMA Reaped ==
  ASSUME TypeOK, Reaps, NoZombies, [Next]_vars
  PROVE  NoZombies'
<1> USE DEF TypeOK, HostTypeOK, NoZombies
<1>1. \A j \in Jobs : Corpse(j) = "dead"
  BY DEF Corpse
<1>2. \A j \in Jobs : TermGroup(j) \/ KillGroup(j) => NoZombies'
  BY <1>1 DEF TermGroup, KillGroup, LeaderKilled
<1>3. ASSUME NEW j \in Jobs, HostMoves(j) PROVE NoZombies'
  <2>1. CASE LauncherStep(j)
    BY <2>1 DEF LauncherStep, LauncherPrepares, LauncherFails, LauncherSpawns,
                LauncherReports, LauncherDetaches, LauncherFinishes
  <2>2. CASE WaiterStep(j)
    BY <1>2, <2>2 DEF WaiterStep, WaiterPolls, WaiterSeesExit, WaiterTerms,
                      WaiterKills, WaiterMarks
  <2>3. CASE CommandForks(j) \/ CommandExits(j) \/ ChildExits(j)
    BY <1>1, <2>3 DEF CommandForks, CommandExits, ChildExits
  <2> QED
    BY <1>3, <2>1, <2>2, <2>3 DEF HostMoves, HostStep
<1>4. ASSUME NEW j \in Jobs, Submit(j) \/ RunStep(j) PROVE NoZombies'
  BY <1>2, <1>4
  DEF RunStep, Submit, Connect, BackgroundStarted, LaunchFailed,
      BackgroundTimesOut, ForegroundAnswered, ForegroundTimesOut, CleanupRuns,
      SaveOutcome, SpawnFetcher, hostVars, hostButLauncher
<1>5. ASSUME NEW s \in Stoppers, NEW j \in Jobs, StopLoads(s, j) \/ StopStep(s, j)
      PROVE  NoZombies'
  BY <1>2, <1>5
  DEF StopLoads, StopStep, StopTerms, StopKills, StopMarks, StopSaves, hostVars
<1>6. ASSUME NEW m \in Machines, HostRestarts(m) PROVE NoZombies'
  BY <1>6 DEF HostRestarts
<1>7. CASE UNCHANGED leader
  BY <1>7
<1> QED
  BY <1>3, <1>4, <1>5, <1>6, <1>7
  DEF Next, vars, hostVars, hostButLauncher, RunFault, BackgroundLost,
      ForegroundDropped, ForegroundErrs, CleanupLost, SpawnFails, RunnerDies,
      FetcherStep, FetcherCopies, FetcherCopiesToNobody, FetcherRemoves,
      FetcherDisconnects, LoadRecords, ReconcileStep, NothingToAsk, MachineAnswers,
      MarkStale, ListJobs, QueryReturns, QueryFault, MachineDrops,
      MachineUnreachable, StopDropped, StopErrs, FollowStarts, FollowEnds

-----------------------------------------------------------------------------
(* A query releases what has ended.                                        *)

(* A record with a pid, on disk or loaded, is one that run_remote has      *)
(* finished with: nobody will save it as running again.                    *)
LateInv ==
    \A j \in Jobs :
        /\ meta[j].pid => run[j] \in Past
        /\ \A q \in Queriers : snap[q][j].pid => run[j] \in Past
        /\ \A s \in Stoppers : held[s].job = j => run[j] \in Past

(* What a query found ended when it loaded the records is still to be      *)
(* asked for, about to be marked, or no longer recorded as running.        *)
ReleaseInv ==
    \A q \in Queriers :
        /\ query[q] = "idle" => ended[q] = {}
        /\ \A j \in ended[q] :
             /\ leader[j] = "dead" /\ run[j] \in Past
             /\ snap[q][j].status = "running" /\ snap[q][j].pid
             /\ \/ query[q] = "asking" /\ MachineOf[j] \in todo[q]
                \/ j \in marks[q]
                \/ meta[j].status # "running"

LEMMA LateStep ==
  ASSUME TypeOK, LateInv, [Next]_vars
  PROVE  LateInv'
<1>1. \A j \in Jobs : run[j] \in Past => run'[j] \in Past
  BY PastStays
<1>2. ASSUME \A j \in Jobs : /\ meta'[j].pid => meta[j].pid \/ run'[j] \in Past
                             /\ \A q \in Queriers : snap'[q][j].pid
                                     => snap[q][j].pid \/ meta[j].pid
                             /\ \A s \in Stoppers : held'[s].job = j
                                     => held[s].job = j \/ meta[j].pid
      PROVE  LateInv'
  BY <1>1, <1>2 DEF LateInv
<1>3. ASSUME NEW j \in Jobs, Submit(j) \/ RunStep(j) PROVE LateInv'
  <2>1. UNCHANGED <<snap, held>>
    BY <1>3 DEF RunStep, Submit, Connect, BackgroundStarted, LaunchFailed,
                BackgroundTimesOut, ForegroundAnswered, ForegroundTimesOut,
                CleanupRuns, SaveOutcome, SpawnFetcher, queryVars, stopVars
  <2>2. CASE Submit(j)
    <3>1. \/ UNCHANGED meta
          \/ meta' = [meta EXCEPT ![j] = [status |-> "running", pid |-> FALSE]]
      BY <2>2 DEF Submit, TypeOK
    <3> QED
      BY <1>2, <2>1, <3>1 DEF TypeOK
  <2>3. CASE SaveOutcome(j)
    <3>1. run'[j] \in Past /\ \A i \in Jobs : i # j => meta'[i] = meta[i]
      BY <2>3 DEF SaveOutcome, Past, TypeOK
    <3> QED
      BY <1>2, <2>1, <3>1
  <2>4. CASE ~Submit(j) /\ ~SaveOutcome(j)
    <3>1. UNCHANGED meta
      BY <1>3, <2>4
      DEF RunStep, Connect, BackgroundStarted, LaunchFailed, BackgroundTimesOut,
          ForegroundAnswered, ForegroundTimesOut, CleanupRuns, SpawnFetcher
    <3> QED
      BY <1>2, <2>1, <3>1
  <2> QED
    BY <2>2, <2>3, <2>4
<1>4. ASSUME NEW q \in Queriers, LoadRecords(q) \/ ReconcileStep(q) \/ QueryFault(q)
      PROVE  LateInv'
  <2>1. UNCHANGED held
    BY <1>4 DEF LoadRecords, ReconcileStep, QueryFault, NothingToAsk,
                MachineAnswers, MarkStale, ListJobs, QueryReturns, MachineDrops,
                MachineUnreachable, stopVars
  <2>2. ASSUME NEW j \in Jobs, MarkStale(q, j) PROVE LateInv'
    <3>1. /\ meta'[j].pid = snap[q][j].pid /\ UNCHANGED snap
          /\ \A i \in Jobs : i # j => meta'[i] = meta[i]
      BY <2>2 DEF MarkStale, WithStatus, TypeOK
    <3> QED
      BY <1>1, <1>2, <2>1, <3>1 DEF LateInv
  <2>3. CASE LoadRecords(q)
    BY <1>2, <2>1, <2>3 DEF LoadRecords, TypeOK
  <2>4. CASE QueryReturns(q)
    BY <1>2, <2>1, <2>4 DEF QueryReturns, NoRecord, TypeOK
  <2>5. CASE UNCHANGED <<meta, snap>>
    BY <1>2, <2>1, <2>5
  <2> QED
    BY <1>4, <2>2, <2>3, <2>4, <2>5
    DEF ReconcileStep, QueryFault, NothingToAsk, MachineAnswers, ListJobs,
        MachineDrops, MachineUnreachable
<1>5. ASSUME NEW s \in Stoppers, NEW j \in Jobs, StopLoads(s, j) \/ StopStep(s, j)
      PROVE  LateInv'
  <2>1. UNCHANGED snap
    BY <1>5 DEF StopLoads, StopStep, StopTerms, StopKills, StopMarks, StopSaves,
                queryVars
  <2>2. CASE StopLoads(s, j)
    BY <1>2, <2>1, <2>2 DEF StopLoads, TypeOK
  <2>3. CASE StopSaves(s, j)
    <3>1. /\ run'[j] \in Past
          /\ \A i \in Jobs : i # j => meta'[i] = meta[i]
      BY <1>1, <2>3 DEF StopSaves, LateInv, TypeOK
    <3>2. \A r \in Stoppers, i \in Jobs : held'[r].job = i => held[r].job = i
      BY <2>3, JobsAssumption DEF StopSaves, TypeOK
    <3> QED
      BY <1>2, <2>1, <3>1, <3>2
  <2>4. CASE UNCHANGED <<meta, held>>
    BY <1>2, <2>1, <2>4
  <2> QED
    BY <1>5, <2>2, <2>3, <2>4 DEF StopStep, StopTerms, StopKills, StopMarks
<1>6. ASSUME NEW s \in Stoppers, StopDropped(s) \/ StopErrs(s) PROVE LateInv'
  <2>1. \A r \in Stoppers, i \in Jobs : held'[r].job = i => held[r].job = i
    <3>1. CASE StopDropped(s)
      BY <3>1 DEF StopDropped
    <3>2. CASE StopErrs(s)
      <4>1. held'[s].job = NoJob /\ \A r \in Stoppers : r # s => held'[r] = held[r]
        BY <3>2 DEF StopErrs, TypeOK
      <4> QED
        BY <4>1, JobsAssumption
    <3> QED
      BY <1>6, <3>1, <3>2
  <2>2. UNCHANGED <<meta, snap>>
    BY <1>6 DEF StopDropped, StopErrs, queryVars
  <2> QED
    BY <1>2, <2>1, <2>2
<1>7. CASE UNCHANGED <<meta, snap, held>>
  BY <1>2, <1>7
<1> QED
  BY <1>3, <1>4, <1>5, <1>6, <1>7
  DEF Next, vars, localVars, queryVars, stopVars, HostMoves, RunFault,
      BackgroundLost, ForegroundDropped, ForegroundErrs, CleanupLost, SpawnFails,
      RunnerDies, FetcherStep, FetcherCopies, FetcherCopiesToNobody,
      FetcherRemoves, FetcherDisconnects, FollowStarts, FollowEnds, HostRestarts

(* No step makes a finished run's record running again.                    *)
LEMMA NeverAgain ==
  ASSUME TypeOK, [Next]_vars, NEW j \in Jobs, run[j] \in Past
  PROVE  meta'[j].status = "running" => meta[j].status = "running"
<1> USE DEF TypeOK
<1>1. ASSUME NEW i \in Jobs, Submit(i) \/ RunStep(i)
      PROVE  meta'[j].status = "running" => meta[j].status = "running"
  BY <1>1 DEF RunStep, Submit, Connect, BackgroundStarted, LaunchFailed,
              BackgroundTimesOut, ForegroundAnswered, ForegroundTimesOut,
              CleanupRuns, SaveOutcome, SpawnFetcher, Past
<1>2. ASSUME NEW q \in Queriers, NEW i \in Jobs, MarkStale(q, i)
      PROVE  meta'[j].status = "running" => meta[j].status = "running"
  BY <1>2 DEF MarkStale, WithStatus
<1>3. ASSUME NEW s \in Stoppers, NEW i \in Jobs, StopSaves(s, i)
      PROVE  meta'[j].status = "running" => meta[j].status = "running"
  BY <1>3 DEF StopSaves, WithStatus
<1>4. CASE UNCHANGED meta
  BY <1>4
<1> QED
  BY <1>1, <1>2, <1>3, <1>4
  DEF Next, vars, localVars, HostMoves, RunFault, BackgroundLost,
      ForegroundDropped, ForegroundErrs, CleanupLost, SpawnFails, RunnerDies,
      FetcherStep, FetcherCopies, FetcherCopiesToNobody, FetcherRemoves,
      FetcherDisconnects, LoadRecords, ReconcileStep, NothingToAsk, MachineAnswers,
      ListJobs, QueryReturns, QueryFault, MachineDrops, MachineUnreachable,
      StopLoads, StopStep, StopTerms, StopKills, StopMarks, StopDropped, StopErrs,
      FollowStarts, FollowEnds, HostRestarts

(* Everybody else leaves a query's view of the ended jobs alone.           *)
LEMMA ReleaseKept ==
  ASSUME TypeOK, Parts, ReleaseInv, [Next]_vars,
         NEW p \in Queriers,
         query'[p] = query[p], snap'[p] = snap[p], ended'[p] = ended[p],
         todo'[p] = todo[p], marks'[p] = marks[p]
  PROVE  /\ query'[p] = "idle" => ended'[p] = {}
         /\ \A j \in ended'[p] :
              /\ leader'[j] = "dead" /\ run'[j] \in Past
              /\ snap'[p][j].status = "running" /\ snap'[p][j].pid
              /\ \/ query'[p] = "asking" /\ MachineOf[j] \in todo'[p]
                 \/ j \in marks'[p]
                 \/ meta'[j].status # "running"
<1>1. ended[p] \subseteq Jobs
  BY DEF TypeOK
<1> QED
  BY <1>1, LeaderSteps, PastStays, NeverAgain DEF ReleaseInv, DeadStay

LEMMA ReleaseStep ==
  ASSUME Reaps, TypeOK, Parts, LateInv, NoZombies, ReleaseInv, [Next]_vars
  PROVE  ReleaseInv'
<1>1. ASSUME \A p \in Queriers :
               /\ query'[p] = query[p] /\ snap'[p] = snap[p] /\ ended'[p] = ended[p]
               /\ todo'[p] = todo[p] /\ marks'[p] = marks[p]
      PROVE  ReleaseInv'
  BY <1>1, ReleaseKept DEF ReleaseInv
<1>2. ASSUME NEW q \in Queriers, LoadRecords(q) \/ ReconcileStep(q) \/ QueryFault(q)
      PROVE  ReleaseInv'
  <2>1. \A p \in Queriers : p # q =>
            /\ query'[p] = query[p] /\ snap'[p] = snap[p] /\ ended'[p] = ended[p]
            /\ todo'[p] = todo[p] /\ marks'[p] = marks[p]
    BY <1>2 DEF LoadRecords, ReconcileStep, QueryFault, NothingToAsk,
                AskingNext, MachineAnswers, MarkStale, ListJobs, QueryReturns,
                MachineDrops, MachineUnreachable, TypeOK
  <2>2. UNCHANGED <<leader, run>>
    BY <1>2 DEF LoadRecords, ReconcileStep, QueryFault, NothingToAsk, MachineAnswers,
                MarkStale, ListJobs, QueryReturns, MachineDrops,
                MachineUnreachable, hostVars, runVars
  <2> DEFINE Good == /\ query'[q] = "idle" => ended'[q] = {}
                     /\ \A j \in ended'[q] :
                          /\ leader'[j] = "dead" /\ run'[j] \in Past
                          /\ snap'[q][j].status = "running" /\ snap'[q][j].pid
                          /\ \/ query'[q] = "asking" /\ MachineOf[j] \in todo'[q]
                             \/ j \in marks'[q]
                             \/ meta'[j].status # "running"
  <2>3. CASE LoadRecords(q)
    <3>1. /\ query'[q] = "asking" /\ snap'[q] = meta
          /\ todo'[q] = {m \in Machines : \E j \in Jobs :
                            MachineOf[j] = m /\ meta[j].status = "running"}
          /\ ended'[q] = {j \in Jobs : RecordedEnded(j)}
      BY <2>3 DEF LoadRecords, TypeOK
    <3>2. ASSUME NEW j \in Jobs, RecordedEnded(j)
          PROVE  /\ leader[j] = "dead" /\ run[j] \in Past
                 /\ meta[j].status = "running" /\ meta[j].pid
                 /\ MachineOf[j] \in todo'[q]
      <4>1. leader[j] = "dead"
        BY <3>2 DEF RecordedEnded, Parts, PidInv, NoZombies, TypeOK, HostTypeOK,
                    LeaderState
      <4> QED
        BY <3>1, <3>2, <4>1, JobsAssumption DEF RecordedEnded, LateInv
    <3>3. Good
      BY <2>2, <3>1, <3>2
    <3> QED
      BY <2>1, <3>3, ReleaseKept DEF ReleaseInv
  <2>4. ASSUME NEW m \in Machines,
               \/ NothingToAsk(q, m) \/ MachineAnswers(q, m)
               \/ MachineDrops(q, m) \/ MachineUnreachable(q, m)
        PROVE  ReleaseInv'
    <3>1. /\ query[q] = "asking" /\ marks[q] = {} /\ todo'[q] = todo[q] \ {m}
          /\ query'[q] = query[q] /\ snap'[q] = snap[q] /\ ended'[q] = ended[q]
          /\ UNCHANGED meta
      BY <2>4 DEF NothingToAsk, MachineAnswers, MachineDrops, MachineUnreachable,
                  AskingNext, TypeOK
    <3>2. ASSUME NEW j \in ended[q], MachineOf[j] = m PROVE j \in marks'[q]
      <4>1. /\ j \in RunningIn(q, m) /\ snap[q][j].pid /\ ~Signalable(j)
        BY <3>2 DEF ReleaseInv, RunningIn, Signalable, TypeOK
      <4> QED
        BY <2>4, <4>1 DEF NothingToAsk, MachineAnswers, MachineDrops,
                          MachineUnreachable, FoundDead, TypeOK
    <3>3. Good
      <4>1. \A j \in ended[q] : \/ MachineOf[j] = m
                                \/ MachineOf[j] \in todo[q] \ {m}
                                \/ meta[j].status # "running"
        BY <3>1 DEF ReleaseInv
      <4> QED
        BY <2>2, <3>1, <3>2, <4>1 DEF ReleaseInv
    <3> QED
      BY <2>1, <3>3, ReleaseKept DEF ReleaseInv
  <2>5. ASSUME NEW i \in Jobs, MarkStale(q, i) PROVE ReleaseInv'
    <3>1. /\ marks'[q] = marks[q] \ {i} /\ meta'[i].status = "stale"
          /\ \A j \in Jobs : j # i => meta'[j] = meta[j]
          /\ query'[q] = query[q] /\ snap'[q] = snap[q] /\ ended'[q] = ended[q]
          /\ todo'[q] = todo[q]
      BY <2>5 DEF MarkStale, WithStatus, TypeOK
    <3>2. ended[q] \subseteq Jobs
      BY DEF TypeOK
    <3>3. Good
      BY <2>2, <3>1, <3>2 DEF ReleaseInv
    <3> QED
      BY <2>1, <3>3, ReleaseKept DEF ReleaseInv
  <2>6. CASE ListJobs(q) \/ QueryReturns(q)
    <3>1. CASE ListJobs(q)
      <4>1. Good
        BY <2>2, <3>1 DEF ListJobs, ReleaseInv, TypeOK
      <4> QED
        BY <2>1, <4>1, ReleaseKept DEF ReleaseInv
    <3>2. CASE QueryReturns(q)
      <4>1. Good
        BY <2>2, <3>2 DEF QueryReturns, TypeOK
      <4> QED
        BY <2>1, <4>1, ReleaseKept DEF ReleaseInv
    <3> QED
      BY <2>6, <3>1, <3>2
  <2> QED
    BY <1>2, <2>3, <2>4, <2>5, <2>6 DEF ReconcileStep, QueryFault
<1>3. CASE UNCHANGED <<query, snap, todo, marks, ended>>
  BY <1>1, <1>3
<1> QED
  BY <1>2, <1>3
  DEF Next, vars, localVars, queryVars, HostMoves, Submit, RunStep, Connect,
      BackgroundStarted, LaunchFailed, BackgroundTimesOut, ForegroundAnswered,
      ForegroundTimesOut, CleanupRuns, SaveOutcome, SpawnFetcher, RunFault,
      BackgroundLost, ForegroundDropped, ForegroundErrs, CleanupLost, SpawnFails,
      RunnerDies, FetcherStep, FetcherCopies, FetcherCopiesToNobody,
      FetcherRemoves, FetcherDisconnects, StopLoads, StopStep, StopTerms,
      StopKills, StopMarks, StopSaves, StopDropped, StopErrs, FollowStarts,
      FollowEnds, HostRestarts

(* Where ended processes are reaped, a query that loaded a running record  *)
(* whose process had ended never lists the job as running: for any number  *)
(* of overlapping queries, stops and runs, with answers, broken            *)
(* connections or a configuration that has gone.  (In a container whose    *)
(* PID 1 does not reap, see the README.)                                   *)
THEOREM EndedReleased == ASSUME Reaps PROVE Spec => []QueryReleasesEnded
<1>1. Init => TypeOK /\ Parts /\ RecordInv /\ LateInv /\ NoZombies /\ ReleaseInv
  <2>1. Init => LateInv /\ NoZombies /\ ReleaseInv
    BY JobsAssumption
    DEF Init, HostInit, NoRecord, LateInv, NoZombies, ReleaseInv
  <2> QED
    BY <2>1, TypeInit, PartsInit, RecordInit
<1>2. /\ TypeOK /\ Parts /\ RecordInv /\ LateInv /\ NoZombies /\ ReleaseInv
      /\ [Next]_vars
      => (TypeOK /\ Parts /\ RecordInv /\ LateInv /\ NoZombies /\ ReleaseInv)'
  BY TypeStep, PartsStep, RecordStep, LateStep, Reaped, ReleaseStep
<1>3. TypeOK /\ RecordInv /\ ReleaseInv => QueryReleasesEnded
  BY DEF RecordInv, LoadedInv, ReleaseInv, QueryReleasesEnded, TypeOK
<1> QED
  BY <1>1, <1>2, <1>3, PTL DEF Spec

-----------------------------------------------------------------------------
(* A running command is visible.                                           *)

(* While nothing fails: the launcher starts the command only while         *)
(* run_remote waits for it, and an outcome other than running is about to  *)
(* be saved only when the command is over or was never started.            *)
VisibleInv ==
    \A j \in Jobs :
        /\ launcher[j] = "failed" => leader[j] = "none"
        /\ faults = 0 =>
             /\ launcher[j] \in {"sent", "prepared"} => run[j] = "waiting"
             /\ run[j] = "cleaning" => mine[j].status = "timeout"
             /\ run[j] = "saving" /\ mine[j].status # "running"
                   => Over(j) \/ launcher[j] = "failed"
             /\ mode[j].kept /\ leader[j] = "alive" => meta[j].status = "running"

(* What a step must leave alone.                                           *)
LEMMA VisibleKept ==
  ASSUME VisibleInv, Ages, Starts, TypeOK,
         UNCHANGED <<mode, launcher, run, mine, faults>>,
         \A j \in Jobs : leader'[j] = "alive" => leader[j] = "alive",
         \A j \in Jobs : faults = 0 /\ leader[j] = "alive"
                           /\ meta[j].status = "running" /\ leader'[j] = "alive"
                              => meta'[j].status = "running"
  PROVE  VisibleInv'
BY DEF VisibleInv, Ages, Starts, Over

(* After a fault only the first part is left to show.                      *)
LEMMA VisibleFault ==
  ASSUME VisibleInv, TypeOK, Fault, Starts,
         \A j \in Jobs : launcher'[j] = "failed" => launcher[j] = "failed"
  PROVE  VisibleInv'
<1>1. faults' # 0
  BY JobsAssumption DEF TypeOK, Fault
<1> QED
  BY <1>1 DEF VisibleInv, Starts

LEMMA HostVisible ==
  ASSUME TypeOK, Parts, RecordInv, VisibleInv, NEW j \in Jobs, HostMoves(j)
  PROVE  VisibleInv'
<1>1. /\ UNCHANGED <<run, mine, meta>>
      /\ UNCHANGED faults
  BY DEF HostMoves, NoFault, localVars, runVars
<1>2. Ages /\ Starts /\ UNCHANGED mode
  BY LeaderSteps, ModeFixed DEF Next
<1>3. CASE LauncherStep(j)
  <2>1. \A i \in Jobs : i # j => launcher'[i] = launcher[i] /\ leader'[i] = leader[i]
    BY <1>3 DEF LauncherStep, LauncherPrepares, LauncherFails, LauncherSpawns,
                LauncherReports, LauncherDetaches, LauncherFinishes, TypeOK, HostTypeOK
  <2>2. /\ launcher[j] # "failed"
        /\ launcher'[j] = "failed" => launcher[j] = "sent" /\ UNCHANGED leader
        /\ launcher'[j] \in {"sent", "prepared"} => launcher[j] \in {"sent", "prepared"}
        /\ leader'[j] = "alive" => leader[j] = "alive" \/ launcher[j] = "prepared"
    BY <1>3 DEF LauncherStep, LauncherPrepares, LauncherFails, LauncherSpawns,
                LauncherReports, LauncherDetaches, LauncherFinishes, TypeOK, HostTypeOK
  <2>3. launcher[j] = "sent" => leader[j] = "none"
    BY DEF Parts, LauncherInv
  <2>4. faults = 0 /\ run[j] = "waiting" /\ mode[j].kept => meta[j].status = "running"
    BY DEF RecordInv, TrustInv, Early
  <2> QED
    BY <1>1, <1>2, <2>1, <2>2, <2>3, <2>4 DEF VisibleInv, Ages, Over
<1>4. CASE ~LauncherStep(j)
  <2>1. LeaderEnds /\ UNCHANGED launcher
    BY <1>4, SignalEnds
    DEF HostMoves, HostStep, CommandForks, CommandExits, ChildExits, WaiterStep,
        WaiterPolls, WaiterSeesExit, WaiterTerms, WaiterKills, WaiterMarks,
        LeaderEnds, Corpse, TypeOK, HostTypeOK
  <2> QED
    BY <1>1, <1>2, <2>1, VisibleKept DEF LeaderEnds
<1> QED
  BY <1>3, <1>4

LEMMA RunVisible ==
  ASSUME TRUE \notin SessionHeld,
         TypeOK, Parts, RecordInv, VisibleInv, NEW j \in Jobs,
         Submit(j) \/ RunStep(j)
  PROVE  VisibleInv'
<1>1. /\ UNCHANGED <<mode, faults>>
      /\ Ages /\ Starts
  BY RunFrame, LeaderSteps DEF Next
<1>2. \A i \in Jobs : leader'[i] = "alive" => leader[i] = "alive"
  BY SignalEnds, SameEnds
  DEF RunStep, Submit, Connect, BackgroundStarted, LaunchFailed,
      BackgroundTimesOut, ForegroundAnswered, ForegroundTimesOut, CleanupRuns,
      SaveOutcome, SpawnFetcher, hostVars, hostButLauncher, LeaderEnds
<1>3. \A i \in Jobs : i # j => /\ launcher'[i] = launcher[i] /\ run'[i] = run[i]
                               /\ mine'[i] = mine[i] /\ meta'[i] = meta[i]
  BY DEF RunStep, Submit, Connect, BackgroundStarted, LaunchFailed,
         BackgroundTimesOut, ForegroundAnswered, ForegroundTimesOut, Conclude,
         CleanupRuns, SaveOutcome, SpawnFetcher, hostVars, hostButLauncher, TypeOK,
         HostTypeOK
<1> DEFINE Good ==
      /\ launcher'[j] = "failed" => leader'[j] = "none"
      /\ faults = 0 =>
           /\ launcher'[j] \in {"sent", "prepared"} => run'[j] = "waiting"
           /\ run'[j] = "cleaning" => mine'[j].status = "timeout"
           /\ run'[j] = "saving" /\ mine'[j].status # "running"
                 => Over(j)' \/ launcher'[j] = "failed"
           /\ mode[j].kept /\ leader'[j] = "alive" => meta'[j].status = "running"
<1>4. Good => VisibleInv'
  BY <1>1, <1>2, <1>3 DEF VisibleInv, Ages, Starts, Over
<1> HIDE DEF Good
<1>5. CASE Submit(j) \/ Connect(j)
  <2>1. leader[j] = "none" /\ launcher[j] = "off" /\ UNCHANGED leader
    BY <1>5 DEF Submit, Connect, Parts, LauncherInv, hostVars, hostButLauncher
  <2>2. /\ run'[j] \in {"connecting", "waiting"}
        /\ launcher'[j] # "failed"
        /\ launcher'[j] \in {"sent", "prepared"} => run'[j] = "waiting"
    BY <1>5, <2>1 DEF Submit, Connect, hostVars, TypeOK, HostTypeOK
  <2> QED
    BY <1>4, <2>1, <2>2 DEF Good
<1>6. CASE LaunchFailed(j) \/ BackgroundStarted(j) \/ ForegroundAnswered(j)
           \/ BackgroundTimesOut(j)
  <2>1. /\ launcher[j] \in {"failed", "exited"} /\ run'[j] = "saving"
        /\ UNCHANGED <<launcher, leader, meta>>
    BY <1>6 DEF LaunchFailed, BackgroundStarted, ForegroundAnswered,
                BackgroundTimesOut, Conclude, hostVars, TypeOK
  <2>2. mine'[j].status # "running" => Over(j) \/ launcher[j] = "failed"
    <3>1. CASE BackgroundStarted(j)
      BY <3>1 DEF BackgroundStarted, Conclude, TypeOK
    <3>2. CASE ForegroundAnswered(j)
      BY <3>2 DEF ForegroundAnswered, RecordInv, ForegroundInv
    <3>3. ~BackgroundTimesOut(j)
      BY DEF BackgroundTimesOut, SessionStalls
    <3> QED
      BY <1>6, <3>1, <3>2, <3>3 DEF LaunchFailed
  <2> QED
    BY <1>4, <2>1, <2>2 DEF Good, VisibleInv, Over
<1>7. CASE ForegroundTimesOut(j)
  <2>1. /\ run'[j] = "cleaning" /\ mine'[j].status = "timeout"
        /\ launcher[j] = "reported"
        /\ UNCHANGED <<launcher, leader, meta>>
    BY <1>7 DEF ForegroundTimesOut, WithStatus, hostVars, TypeOK
  <2> QED
    BY <1>4, <2>1 DEF Good, VisibleInv
<1>8. CASE CleanupRuns(j)
  <2>1. /\ run[j] = "cleaning" /\ run'[j] = "saving"
        /\ UNCHANGED <<launcher, mine, meta>>
    BY <1>8 DEF CleanupRuns, TypeOK
  <2>2. RecordInv'
    BY <1>8, RecordStep DEF RunStep, Next
  <2>3. faults = 0 => mine[j].status = "timeout" /\ Over(j)'
    BY <1>1, <2>1, <2>2 DEF VisibleInv, RecordInv, ForegroundInv, CleanupInv
  <2> QED
    BY <1>1, <1>2, <1>4, <2>1, <2>3 DEF Good, VisibleInv, Starts, Over
<1>9. CASE SaveOutcome(j)
  <2>1. /\ run[j] = "saving" /\ run'[j] \in {"spawning", "ended"}
        /\ UNCHANGED <<launcher, leader, mine>>
        /\ mode[j].kept => meta'[j] = mine[j]
    BY <1>9 DEF SaveOutcome, hostVars, TypeOK
  <2> QED
    BY <1>4, <2>1 DEF Good, VisibleInv, Over
<1>10. CASE SpawnFetcher(j)
  <2>1. /\ run[j] = "spawning" /\ run'[j] = "ended"
        /\ UNCHANGED <<launcher, leader, mine, meta>>
    BY <1>10 DEF SpawnFetcher, hostVars, TypeOK
  <2> QED
    BY <1>4, <2>1 DEF Good, VisibleInv
<1> QED
  BY <1>5, <1>6, <1>7, <1>8, <1>9, <1>10 DEF RunStep

LEMMA VisibleStep ==
  ASSUME TRUE \notin SessionHeld,
         TypeOK, Parts, RecordInv, VisibleInv, [Next]_vars
  PROVE  VisibleInv'
<1>1. Ages /\ Starts /\ UNCHANGED mode
  BY LeaderSteps, ModeFixed
<1>2. ASSUME NEW j \in Jobs, RunFault(j) \/ FetcherStep(j) \/ FetcherDisconnects(j)
      PROVE  VisibleInv'
  <2>1. UNCHANGED leader
    BY <1>2
    DEF RunFault, BackgroundLost, ForegroundDropped, ForegroundErrs, CleanupLost,
        SpawnFails, RunnerDies, FetcherStep, FetcherCopies, FetcherCopiesToNobody,
        FetcherRemoves, FetcherDisconnects, hostVars, hostButLauncher
  <2>2. CASE RunFault(j)
    <3>1. Disconnect(j) \/ UNCHANGED launcher
      BY <2>2 DEF RunFault, BackgroundLost, ForegroundDropped, ForegroundErrs,
                  CleanupLost, SpawnFails, RunnerDies, hostVars
    <3>2. \A i \in Jobs : launcher'[i] = "failed" => launcher[i] = "failed"
      BY <3>1 DEF Disconnect, TypeOK, HostTypeOK
    <3>3. Fault
      BY <2>2 DEF RunFault, BackgroundLost, ForegroundDropped, ForegroundErrs,
                  CleanupLost, SpawnFails, RunnerDies
    <3> QED
      BY <1>1, <3>2, <3>3, VisibleFault
  <2>3. CASE FetcherDisconnects(j)
    BY <1>1, <2>3, VisibleFault DEF FetcherDisconnects, hostVars
  <2>4. CASE FetcherStep(j)
    <3>1. UNCHANGED <<launcher, run, mine, meta, faults>>
      BY <2>4 DEF FetcherStep, FetcherCopies, FetcherCopiesToNobody, FetcherRemoves,
                  hostVars, runVars, NoFault
    <3> QED
      BY <1>1, <2>1, <3>1, VisibleKept
  <2> QED
    BY <1>2, <2>2, <2>3, <2>4
<1>3. ASSUME NEW q \in Queriers, LoadRecords(q) \/ ReconcileStep(q) \/ QueryFault(q)
      PROVE  VisibleInv'
  <2>1. UNCHANGED <<launcher, leader, run, mine>>
    BY <1>3 DEF LoadRecords, ReconcileStep, QueryFault, NothingToAsk,
                MachineAnswers, MarkStale, ListJobs, QueryReturns, MachineDrops,
                MachineUnreachable, hostVars, runVars
  <2>2. CASE QueryFault(q)
    <3>1. Fault
      BY <2>2 DEF QueryFault, MachineDrops, MachineUnreachable
    <3> QED
      BY <1>1, <2>1, <3>1, VisibleFault
  <2>3. ASSUME NEW j \in Jobs, MarkStale(q, j) PROVE VisibleInv'
    <3>1. /\ j \in marks[q] /\ UNCHANGED faults
          /\ \A i \in Jobs : i # j => meta'[i] = meta[i]
      BY <2>3 DEF MarkStale, NoFault, TypeOK
    <3>2. faults = 0 => leader[j] # "alive"
      BY <3>1 DEF Parts, StaleInv, RecordInv, TrustInv
    <3> QED
      BY <1>1, <2>1, <3>1, <3>2, VisibleKept
  <2>4. CASE UNCHANGED <<meta, faults>>
    BY <1>1, <2>1, <2>4, VisibleKept
  <2> QED
    BY <1>3, <2>2, <2>3, <2>4 DEF LoadRecords, ReconcileStep, NothingToAsk,
                                  MachineAnswers, ListJobs, QueryReturns, NoFault
<1>4. ASSUME NEW s \in Stoppers, NEW j \in Jobs, StopLoads(s, j) \/ StopStep(s, j)
      PROVE  VisibleInv'
  <2>1. UNCHANGED <<launcher, run, mine, faults>>
    BY <1>4 DEF StopLoads, StopStep, StopTerms, StopKills, StopMarks, StopSaves,
                hostVars, runVars, NoFault
  <2>2. LeaderEnds
    BY <1>4, SignalEnds, SameEnds
    DEF StopLoads, StopStep, StopTerms, StopKills, StopMarks, StopSaves, hostVars
  <2>3. \A i \in Jobs : leader'[i] = "alive" => leader[i] = "alive"
    BY <2>2 DEF LeaderEnds
  <2>4. CASE StopSaves(s, j)
    <3>1. /\ stop[s] = "saving" /\ held[s].job = j
          /\ \A i \in Jobs : i # j => meta'[i] = meta[i]
      BY <2>4 DEF StopSaves, TypeOK
    <3>2. faults = 0 => leader[j] # "alive"
      BY <3>1 DEF RecordInv, TrustInv, Over
    <3> QED
      BY <1>1, <2>1, <2>3, <3>1, <3>2, VisibleKept
  <2>5. CASE ~StopSaves(s, j)
    <3>1. UNCHANGED meta
      BY <1>4, <2>5 DEF StopLoads, StopStep, StopTerms, StopKills, StopMarks
    <3> QED
      BY <1>1, <2>1, <2>3, <3>1, VisibleKept
  <2> QED
    BY <2>4, <2>5
<1>5. ASSUME NEW s \in Stoppers, StopDropped(s) \/ StopErrs(s) PROVE VisibleInv'
  BY <1>1, <1>5, VisibleFault DEF StopDropped, StopErrs, hostVars
<1>6. ASSUME NEW w \in Followers, NEW j \in Jobs, FollowStarts(w, j) \/ FollowEnds(w, j)
      PROVE  VisibleInv'
  <2>1. UNCHANGED <<launcher, leader, run, mine, meta, faults>>
    BY <1>6 DEF FollowStarts, FollowEnds, hostVars, runVars, NoFault
  <2> QED
    BY <1>1, <2>1, VisibleKept
<1>7. ASSUME NEW m \in Machines, HostRestarts(m) PROVE VisibleInv'
  BY <1>1, <1>7, VisibleFault DEF HostRestarts
<1>8. CASE UNCHANGED vars
  <2>1. UNCHANGED <<launcher, leader, run, mine, meta, faults>>
    BY <1>8 DEF vars, hostVars, localVars, runVars
  <2> QED
    BY <1>1, <2>1, VisibleKept
<1> QED
  BY <1>2, <1>3, <1>4, <1>5, <1>6, <1>7, <1>8, HostVisible, RunVisible DEF Next

(* While nothing fails a recorded job is running as long as its command    *)
(* executes, through the end of run_remote, its timeouts and cleanups and  *)
(* whatever stops and queries overlap, provided an ssh session ends with   *)
(* its launcher.  (Where the waiter holds the session open it does not,    *)
(* see the README.)                                                        *)
THEOREM RunningVisible ==
  ASSUME TRUE \notin SessionHeld PROVE Spec => []OccupancyVisible
<1>1. Init => TypeOK /\ Parts /\ RecordInv /\ VisibleInv
  <2>1. ASSUME Init PROVE VisibleInv
    BY <2>1 DEF Init, HostInit, VisibleInv
  <2> QED
    BY <2>1, TypeInit, PartsInit, RecordInit
<1>2. /\ TypeOK /\ Parts /\ RecordInv /\ VisibleInv /\ [Next]_vars
      => (TypeOK /\ Parts /\ RecordInv /\ VisibleInv)'
  BY TypeStep, PartsStep, RecordStep, VisibleStep
<1>3. VisibleInv => OccupancyVisible
  BY DEF VisibleInv, OccupancyVisible
<1> QED
  BY <1>1, <1>2, <1>3, PTL DEF Spec

-----------------------------------------------------------------------------
(* A log is not lost.                                                      *)

(* Where nothing outlives a command's leader and nothing fails, whoever    *)
(* deletes the log of a recorded background job is its fetcher, once the   *)
(* whole of it is in the local file, which nobody truncates afterwards.    *)
LogInv ==
    \A j \in Jobs :
        /\ child[j] = "none"
        /\ fetcher[j] # "off" => run[j] = "ended"
        /\ run[j] = "cleaning" => ~mode[j].bg
        /\ faults = 0 /\ mode[j] = [bg |-> TRUE, kept |-> TRUE] =>
             /\ fetcher[j] \notin {"deaf", "lost"}
             /\ fetcher[j] \in {"removing", "ended"} => log[j] = "full"
             /\ dir[j] = "removed" => fetcher[j] = "ended"

LEMMA LogKept ==
  ASSUME LogInv, UNCHANGED <<mode, child, fetcher, run, faults>>,
         \A j \in Jobs : log[j] = "full" => log'[j] = "full",
         \A j \in Jobs : /\ mode[j] = [bg |-> TRUE, kept |-> TRUE]
                         /\ dir'[j] = "removed"
                         => dir[j] = "removed"
  PROVE  LogInv'
BY DEF LogInv

(* After a fault the last part says nothing.                               *)
LEMMA LogFault ==
  ASSUME LogInv, TypeOK, Fault, UNCHANGED mode,
         \A j \in Jobs : /\ child'[j] = child[j]
                         /\ fetcher'[j] # "off" => fetcher[j] # "off"
                         /\ \/ run'[j] = run[j]
                            \/ fetcher[j] = "off" /\ run'[j] # "cleaning"
                            \/ fetcher[j] = "off" /\ ~mode[j].bg
  PROVE  LogInv'
<1>1. faults' # 0
  BY JobsAssumption DEF TypeOK, Fault
<1> QED
  BY <1>1 DEF LogInv

LEMMA HostLog ==
  ASSUME ~Forks, TypeOK, LogInv, NEW j \in Jobs, HostMoves(j)
  PROVE  LogInv'
<1> USE DEF TypeOK, HostTypeOK
<1>1. /\ UNCHANGED <<run, fetcher, log>>
      /\ UNCHANGED <<mode, faults>>
  BY ModeFixed DEF Next, HostMoves, NoFault, localVars, runVars, fetchVars
<1>2. ASSUME TermGroup(j) \/ KillGroup(j) \/ UNCHANGED <<leader, child>>
      PROVE  UNCHANGED child
  BY <1>2 DEF LogInv, TermGroup, KillGroup, ChildKilled
<1>3. CASE LauncherStep(j)
  <2>1. UNCHANGED child
    BY <1>3 DEF LauncherStep, LauncherPrepares, LauncherFails, LauncherSpawns,
                LauncherReports, LauncherDetaches, LauncherFinishes
  <2>2. \A i \in Jobs : mode[i].bg /\ dir'[i] = "removed" => dir[i] = "removed"
    BY <1>3 DEF LauncherStep, LauncherPrepares, LauncherFails, LauncherSpawns,
                LauncherReports, LauncherDetaches, LauncherFinishes, RemoveDir
  <2> QED
    BY <1>1, <2>1, <2>2, LogKept
<1>4. CASE WaiterStep(j)
  <2>1. UNCHANGED child
    BY <1>2, <1>4 DEF WaiterStep, WaiterPolls, WaiterSeesExit, WaiterTerms,
                      WaiterKills, WaiterMarks
  <2>2. \A i \in Jobs : mode[i].kept /\ dir'[i] = "removed" => dir[i] = "removed"
    BY <1>4 DEF WaiterStep, WaiterPolls, WaiterSeesExit, WaiterTerms,
                WaiterKills, WaiterMarks, RemoveDir
  <2> QED
    BY <1>1, <2>1, <2>2, LogKept
<1>5. CASE CommandForks(j) \/ CommandExits(j) \/ ChildExits(j)
  <2>1. UNCHANGED <<child, dir>>
    BY <1>5 DEF CommandForks, CommandExits, ChildExits, LogInv
  <2> QED
    BY <1>1, <2>1, LogKept
<1> QED
  BY <1>3, <1>4, <1>5 DEF HostMoves, HostStep

LEMMA RunLog ==
  ASSUME TypeOK, RecordInv, LogInv, NEW j \in Jobs, Submit(j) \/ RunStep(j)
  PROVE  LogInv'
<1> USE DEF TypeOK, HostTypeOK
<1>1. UNCHANGED <<mode, faults>>
  BY RunFrame
<1>2. run[j] # "ended" /\ fetcher[j] = "off"
  BY DEF RunStep, Submit, Connect, BackgroundStarted, LaunchFailed,
         BackgroundTimesOut, ForegroundAnswered, ForegroundTimesOut,
         CleanupRuns, SaveOutcome, SpawnFetcher, LogInv
<1>3. \A i \in Jobs : i # j => run'[i] = run[i] /\ log'[i] = log[i]
  BY DEF RunStep, Submit, Connect, BackgroundStarted, LaunchFailed,
         BackgroundTimesOut, ForegroundAnswered, ForegroundTimesOut, Conclude,
         CleanupRuns, SaveOutcome, SpawnFetcher, EmptyLog, fetchVars
<1>4. CASE SpawnFetcher(j)
  <2>1. /\ run'[j] = "ended" /\ fetcher'[j] = "waiting"
        /\ \A i \in Jobs : i # j => fetcher'[i] = fetcher[i]
        /\ UNCHANGED <<child, dir>>
    BY <1>4 DEF SpawnFetcher, hostVars
  <2> QED
    BY <1>1, <1>2, <1>3, <2>1 DEF LogInv
<1>5. CASE CleanupRuns(j)
  <2>1. /\ run[j] = "cleaning" /\ run'[j] = "saving"
        /\ \A i \in Jobs : i # j => dir'[i] = dir[i]
        /\ UNCHANGED fetcher
    BY <1>5 DEF CleanupRuns, RemoveDir
  <2>2. UNCHANGED child
    BY <1>5 DEF CleanupRuns, KillGroup, ChildKilled, LogInv
  <2> QED
    BY <1>1, <1>2, <1>3, <2>1, <2>2 DEF LogInv
<1>6. CASE ~SpawnFetcher(j) /\ ~CleanupRuns(j)
  <2>1. UNCHANGED <<child, dir, fetcher>>
    BY <1>6 DEF RunStep, Submit, Connect, BackgroundStarted, LaunchFailed,
                BackgroundTimesOut, ForegroundAnswered, ForegroundTimesOut,
                SaveOutcome, hostVars, hostButLauncher, fetchVars
  <2>2. run'[j] = "cleaning" => ~mode[j].bg
    BY <1>6 DEF RunStep, Submit, Connect, BackgroundStarted, LaunchFailed,
                BackgroundTimesOut, ForegroundAnswered, ForegroundTimesOut,
                SaveOutcome, Conclude
  <2> QED
    BY <1>1, <1>2, <1>3, <2>1, <2>2 DEF LogInv
<1> QED
  BY <1>4, <1>5, <1>6

LEMMA FetcherLog ==
  ASSUME TypeOK, Parts, LogInv, NEW j \in Jobs, FetcherStep(j)
  PROVE  LogInv'
<1> USE DEF TypeOK, HostTypeOK
<1>1. UNCHANGED <<mode, child, run, faults>>
  BY DEF FetcherStep, FetcherCopies, FetcherCopiesToNobody, FetcherRemoves,
         hostVars, runVars, NoFault
<1>2. CASE FetcherCopies(j)
  <2>1. ~GroupAlive(j)
    BY <1>2 DEF FetcherCopies, Parts, DoneInv, Over, LogInv, GroupAlive
  <2> QED
    BY <1>1, <1>2, <2>1 DEF FetcherCopies, hostVars, LogInv
<1>3. CASE FetcherCopiesToNobody(j)
  BY <1>1, <1>3 DEF FetcherCopiesToNobody, hostVars, LogInv
<1>4. CASE FetcherRemoves(j)
  BY <1>1, <1>4 DEF FetcherRemoves, RemoveDir, LogInv
<1> QED
  BY <1>2, <1>3, <1>4 DEF FetcherStep

LEMMA FaultLog ==
  ASSUME TypeOK, LogInv,
         \/ \E j \in Jobs : RunFault(j) \/ FetcherDisconnects(j)
         \/ \E q \in Queriers : QueryFault(q)
         \/ \E s \in Stoppers : StopDropped(s) \/ StopErrs(s)
         \/ \E m \in Machines : HostRestarts(m)
  PROVE  LogInv'
<1> USE DEF TypeOK, HostTypeOK
<1>1. UNCHANGED mode
  BY ModeFixed DEF Next
<1>2. ASSUME NEW j \in Jobs, RunFault(j) PROVE LogInv'
  <2>1. /\ Fault /\ UNCHANGED <<child, fetcher>>
        /\ \A i \in Jobs : i # j => run'[i] = run[i]
        /\ fetcher[j] = "off"
        /\ run'[j] # "cleaning" \/ ~mode[j].bg
    BY <1>2 DEF RunFault, BackgroundLost, ForegroundDropped, ForegroundErrs,
                CleanupLost, SpawnFails, RunnerDies, Conclude, hostVars,
                hostButLauncher, fetchVars, LogInv
  <2> QED
    BY <1>1, <2>1, LogFault
<1>3. ASSUME NEW j \in Jobs, FetcherDisconnects(j) PROVE LogInv'
  BY <1>1, <1>3, LogFault DEF FetcherDisconnects, hostVars, runVars
<1>4. ASSUME NEW q \in Queriers, QueryFault(q) PROVE LogInv'
  BY <1>1, <1>4, LogFault
  DEF QueryFault, MachineDrops, MachineUnreachable, hostVars, runVars, fetchVars
<1>5. ASSUME NEW s \in Stoppers, StopDropped(s) \/ StopErrs(s) PROVE LogInv'
  BY <1>1, <1>5, LogFault DEF StopDropped, StopErrs, hostVars, runVars, fetchVars
<1>6. ASSUME NEW m \in Machines, HostRestarts(m) PROVE LogInv'
  <2>1. UNCHANGED <<child, run>> /\ Fault
    BY <1>6 DEF HostRestarts, LogInv, runVars
  <2>2. \A j \in Jobs : fetcher'[j] # "off" => fetcher[j] # "off"
    BY <1>6 DEF HostRestarts
  <2> QED
    BY <1>1, <2>1, <2>2, LogFault
<1> QED
  BY <1>2, <1>3, <1>4, <1>5, <1>6

LEMMA LogStep ==
  ASSUME ~Forks, TypeOK, Parts, RecordInv, LogInv, [Next]_vars
  PROVE  LogInv'
<1>1. UNCHANGED mode
  BY ModeFixed
<1>2. ASSUME UNCHANGED <<child, fetcher, run, faults, log, dir>> PROVE LogInv'
  BY <1>1, <1>2, LogKept
<1>3. ASSUME NEW q \in Queriers, LoadRecords(q) \/ ReconcileStep(q)
      PROVE  LogInv'
  BY <1>2, <1>3 DEF LoadRecords, ReconcileStep, NothingToAsk, MachineAnswers,
                    MarkStale, ListJobs, QueryReturns, NoFault, hostVars, runVars,
                    fetchVars
<1>4. ASSUME NEW s \in Stoppers, NEW j \in Jobs, StopLoads(s, j) \/ StopStep(s, j)
      PROVE  LogInv'
  <2>1. UNCHANGED child
    BY <1>4
    DEF StopLoads, StopStep, StopTerms, StopKills, StopMarks, StopSaves, TermGroup,
        KillGroup, ChildKilled, LogInv, hostVars, TypeOK, HostTypeOK
  <2> QED
    BY <1>2, <1>4, <2>1
    DEF StopLoads, StopStep, StopTerms, StopKills, StopMarks, StopSaves,
        hostVars, runVars, fetchVars, NoFault
<1>5. ASSUME NEW w \in Followers, NEW j \in Jobs, FollowStarts(w, j) \/ FollowEnds(w, j)
      PROVE  LogInv'
  BY <1>2, <1>5 DEF FollowStarts, FollowEnds, NoFault, hostVars, runVars, fetchVars
<1>6. CASE UNCHANGED vars
  BY <1>2, <1>6 DEF vars, hostVars, localVars, runVars, fetchVars
<1> QED
  BY <1>3, <1>4, <1>5, <1>6, HostLog, RunLog, FetcherLog, FaultLog DEF Next

(* Until something fails the remote log of a recorded background job is    *)
(* deleted only once all of it is in the local file, whatever stops, waiter*)
(* and fetcher overlap, for commands that leave nothing behind in their    *)
(* group.  (A child that goes on after its leader may still write, see the *)
(* README.)                                                                *)
THEOREM LogSafe ==
  ASSUME ~Forks PROVE Spec => [](faults = 0 => LogNotLost)
<1>1. Init => TypeOK /\ Parts /\ RecordInv /\ LogInv
  <2>1. ASSUME Init PROVE LogInv
    BY <2>1 DEF Init, HostInit, LogInv
  <2> QED
    BY <2>1, TypeInit, PartsInit, RecordInit
<1>2. /\ TypeOK /\ Parts /\ RecordInv /\ LogInv /\ [Next]_vars
      => (TypeOK /\ Parts /\ RecordInv /\ LogInv)'
  BY TypeStep, PartsStep, RecordStep, LogStep
<1>3. LogInv => (faults = 0 => LogNotLost)
  BY DEF LogInv, LogNotLost
<1> QED
  BY <1>1, <1>2, <1>3, PTL DEF Spec

-----------------------------------------------------------------------------
(* A verdict is final.                                                     *)

(* A verdict about to be saved was reached on a record with a pid, or by a *)
(* query that did not look; whoever loaded the job as running with its pid *)
(* finds it running, or with a verdict of a stop or a query; and until     *)
(* run_remote has saved its outcome only a query that did not look has     *)
(* changed the record.                                                     *)
FinalInv ==
    \A j \in Jobs :
        /\ \A q \in Queriers :
              /\ j \in marks[q] => j \in unseen \/ snap[q][j].pid
              /\ snap[q][j].pid /\ snap[q][j].status = "running"
                    => meta[j].status \in Open
        /\ \A s \in Stoppers : held[s].job = j => meta[j].status \in Open
        /\ run[j] \in Early =>
              \/ meta[j].status \in {"absent", "running"}
              \/ meta[j].status = "stale" /\ j \in unseen

(* What StatusFinal says of one step.                                      *)
Replaced ==
    \A j \in Jobs :
       LET old == meta[j].status
           new == meta'[j].status
       IN  old \notin {"absent", "running"} /\ new # old
              => \/ {old, new} = {"stopped", "stale"}
                 \/ j \in unseen /\ "stale" \in {old, new}

(* A step that changes neither records nor what is loaded from them.       *)
LEMMA FinalFrame ==
  ASSUME TypeOK, FinalInv, UNCHANGED <<meta, snap, marks, held>>,
         unseen \subseteq unseen',
         \A j \in Jobs : run'[j] \in Early => run[j] \in Early \cup {"idle"},
         \A j \in Jobs : run[j] = "idle" => meta[j].status = "absent"
  PROVE  FinalInv' /\ Replaced
<1>1. \A j \in Jobs, q \in Queriers :
         /\ j \in marks'[q] => j \in unseen' \/ snap'[q][j].pid
         /\ snap'[q][j].pid /\ snap'[q][j].status = "running"
               => meta'[j].status \in Open
  BY DEF FinalInv
<1>2. \A j \in Jobs, s \in Stoppers :
         held'[s].job = j => meta'[j].status \in Open
  BY DEF FinalInv
<1>3. \A j \in Jobs : run'[j] \in Early =>
         \/ meta'[j].status \in {"absent", "running"}
         \/ meta'[j].status = "stale" /\ j \in unseen'
  BY DEF FinalInv
<1>4. FinalInv'
  BY <1>1, <1>2, <1>3 DEF FinalInv
<1> QED
  BY <1>4 DEF Replaced

LEMMA RunFinal ==
  ASSUME TypeOK, RecordInv, LateInv, FinalInv, [Next]_vars,
         NEW i \in Jobs, Submit(i) \/ RunStep(i)
  PROVE  FinalInv' /\ Replaced
<1> USE DEF TypeOK
<1>1. UNCHANGED <<snap, marks, unseen, held>>
  BY DEF RunStep, Submit, Connect, BackgroundStarted, LaunchFailed,
         BackgroundTimesOut, ForegroundAnswered, ForegroundTimesOut, CleanupRuns,
         SaveOutcome, SpawnFetcher, queryVars, stopVars
<1>2. \A j \in Jobs : run[j] = "idle" => meta[j].status = "absent"
  BY DEF RecordInv, SavedInv
<1>3. CASE Submit(i)
  <2>1. /\ run[i] = "idle"
        /\ \/ UNCHANGED meta
           \/ meta' = [meta EXCEPT ![i] = [status |-> "running", pid |-> FALSE]]
        /\ \A j \in Jobs : j # i => run'[j] = run[j]
    BY <1>3 DEF Submit
  <2>2. meta[i].status = "absent" /\ meta'[i].status \in {"absent", "running"}
    BY <1>2, <2>1
  <2>3. /\ \A q \in Queriers : ~snap[q][i].pid
        /\ \A s \in Stoppers : held[s].job # i
    BY <2>1 DEF LateInv, Past
  <2>4. \A j \in Jobs : j # i => meta'[j] = meta[j]
    BY <2>1
  <2>5. ASSUME NEW j \in Jobs
        PROVE  /\ \A q \in Queriers :
                    /\ j \in marks'[q] => j \in unseen' \/ snap'[q][j].pid
                    /\ snap'[q][j].pid /\ snap'[q][j].status = "running"
                          => meta'[j].status \in Open
               /\ \A s \in Stoppers :
                    held'[s].job = j => meta'[j].status \in Open
               /\ run'[j] \in Early =>
                    \/ meta'[j].status \in {"absent", "running"}
                    \/ meta'[j].status = "stale" /\ j \in unseen'
    <3>1. CASE j = i
      BY <1>1, <2>2, <2>3, <3>1 DEF FinalInv
    <3>2. CASE j # i
      BY <1>1, <2>1, <2>4, <3>2 DEF FinalInv
    <3> QED
      BY <3>1, <3>2
  <2>6. FinalInv'
    BY <2>5 DEF FinalInv
  <2> QED
    BY <2>2, <2>4, <2>6 DEF Replaced
<1>4. CASE SaveOutcome(i)
  <2>1. /\ run[i] \in Early /\ run'[i] \in Past
        /\ \A j \in Jobs : j # i => meta'[j] = meta[j] /\ run'[j] = run[j]
        /\ meta[i].status # "absent" \/ meta'[i] = meta[i]
    BY <1>4 DEF SaveOutcome, Early, Past, RecordInv, SavedInv
  <2>2. /\ \A q \in Queriers : ~snap[q][i].pid
        /\ \A s \in Stoppers : held[s].job # i
    BY <2>1 DEF LateInv, Past, Early
  <2>3. ASSUME NEW j \in Jobs
        PROVE  /\ \A q \in Queriers :
                    /\ j \in marks'[q] => j \in unseen' \/ snap'[q][j].pid
                    /\ snap'[q][j].pid /\ snap'[q][j].status = "running"
                          => meta'[j].status \in Open
               /\ \A s \in Stoppers :
                    held'[s].job = j => meta'[j].status \in Open
               /\ run'[j] \in Early =>
                    \/ meta'[j].status \in {"absent", "running"}
                    \/ meta'[j].status = "stale" /\ j \in unseen'
    <3>1. CASE j = i
      BY <1>1, <2>1, <2>2, <3>1 DEF FinalInv, Early, Past
    <3>2. CASE j # i
      BY <1>1, <2>1, <3>2 DEF FinalInv
    <3> QED
      BY <3>1, <3>2
  <2>4. FinalInv'
    BY <2>3 DEF FinalInv
  <2>5. \/ meta[i].status \in {"absent", "running"}
        \/ meta[i].status = "stale" /\ i \in unseen
    BY <2>1 DEF FinalInv
  <2> QED
    BY <2>1, <2>4, <2>5 DEF Replaced
<1>5. CASE RunStep(i) /\ ~SaveOutcome(i)
  <2>1. UNCHANGED meta
    BY <1>5
    DEF RunStep, Connect, BackgroundStarted, LaunchFailed, BackgroundTimesOut,
        ForegroundAnswered, ForegroundTimesOut, CleanupRuns, SpawnFetcher
  <2>2. \A j \in Jobs : run'[j] \in Early => run[j] \in Early \cup {"idle"}
    BY <1>5
    DEF RunStep, Connect, BackgroundStarted, LaunchFailed, BackgroundTimesOut,
        ForegroundAnswered, ForegroundTimesOut, CleanupRuns, SpawnFetcher, Conclude,
        Early
  <2> QED
    BY <1>1, <1>2, <2>1, <2>2, FinalFrame
<1> QED
  BY <1>3, <1>4, <1>5

LEMMA QueryFinal ==
  ASSUME TypeOK, RecordInv, LateInv, FinalInv, NEW q \in Queriers,
         LoadRecords(q) \/ ReconcileStep(q) \/ QueryFault(q)
  PROVE  FinalInv' /\ Replaced
<1> USE DEF TypeOK
<1>1. UNCHANGED <<run, held>> /\ unseen \subseteq unseen'
  BY DEF LoadRecords, ReconcileStep, QueryFault, NothingToAsk, MachineAnswers,
         MarkStale, ListJobs, QueryReturns, MachineDrops, MachineUnreachable,
         stopVars, runVars
<1>2. \A j \in Jobs : run[j] = "idle" => meta[j].status = "absent"
  BY DEF RecordInv, SavedInv
<1>3. ASSUME NEW i \in Jobs, MarkStale(q, i) PROVE FinalInv' /\ Replaced
  <2>1. /\ i \in marks[q]
        /\ marks' = [marks EXCEPT ![q] = @ \ {i}]
        /\ UNCHANGED <<snap, unseen>>
        /\ meta'[i].status = "stale"
        /\ \A j \in Jobs : j # i => meta'[j] = meta[j]
    BY <1>3 DEF MarkStale, WithStatus
  <2>2. i \in unseen \/ (meta[i].status \in Open /\ run[i] \notin Early)
    <3>1. snap[q][i].status = "running"
      BY <2>1 DEF RecordInv, LoadedInv
    <3>2. i \in unseen \/ snap[q][i].pid
      BY <2>1 DEF FinalInv
    <3>3. snap[q][i].pid => meta[i].status \in Open /\ run[i] \notin Early
      BY <3>1 DEF FinalInv, LateInv, Past, Early
    <3> QED
      BY <3>2, <3>3
  <2>3. \A j \in Jobs, r \in Queriers : j \in marks'[r] => j \in marks[r]
    BY <2>1
  <2>4. ASSUME NEW j \in Jobs
        PROVE  /\ \A r \in Queriers :
                    /\ j \in marks'[r] => j \in unseen' \/ snap'[r][j].pid
                    /\ snap'[r][j].pid /\ snap'[r][j].status = "running"
                          => meta'[j].status \in Open
               /\ \A s \in Stoppers :
                    held'[s].job = j => meta'[j].status \in Open
               /\ run'[j] \in Early =>
                    \/ meta'[j].status \in {"absent", "running"}
                    \/ meta'[j].status = "stale" /\ j \in unseen'
    <3>1. CASE j = i
      BY <1>1, <2>1, <2>2, <2>3, <3>1 DEF FinalInv, Open
    <3>2. CASE j # i
      BY <1>1, <2>1, <2>3, <3>2 DEF FinalInv
    <3> QED
      BY <3>1, <3>2
  <2>5. FinalInv'
    BY <2>4 DEF FinalInv
  <2> QED
    BY <2>1, <2>2, <2>5 DEF Replaced, Open
<1>4. ASSUME UNCHANGED meta,
             \A j \in Jobs : snap'[q][j].pid /\ snap'[q][j].status = "running"
                  => \/ snap[q][j].pid /\ snap[q][j].status = "running"
                     \/ meta[j].status = "running",
             \A j \in Jobs : j \in marks'[q] => j \in unseen' \/ snap'[q][j].pid,
             \A r \in Queriers : r # q =>
                  snap'[r] = snap[r] /\ marks'[r] = marks[r]
      PROVE  FinalInv' /\ Replaced
  <2>1. ASSUME NEW j \in Jobs, NEW r \in Queriers
        PROVE  /\ j \in marks'[r] => j \in unseen' \/ snap'[r][j].pid
               /\ snap'[r][j].pid /\ snap'[r][j].status = "running"
                     => meta'[j].status \in Open
    <3>1. CASE r = q
      BY <1>1, <1>4, <3>1 DEF FinalInv, Open
    <3>2. CASE r # q
      BY <1>1, <1>4, <3>2 DEF FinalInv
    <3> QED
      BY <3>1, <3>2
  <2>2. \A j \in Jobs, s \in Stoppers :
           held'[s].job = j => meta'[j].status \in Open
    BY <1>1, <1>4 DEF FinalInv
  <2>3. \A j \in Jobs : run'[j] \in Early =>
           \/ meta'[j].status \in {"absent", "running"}
           \/ meta'[j].status = "stale" /\ j \in unseen'
    BY <1>1, <1>4 DEF FinalInv
  <2>4. FinalInv'
    BY <2>1, <2>2, <2>3 DEF FinalInv
  <2> QED
    BY <1>4, <2>4 DEF Replaced
<1>5. CASE LoadRecords(q)
  <2>1. query[q] = "idle" /\ snap' = [snap EXCEPT ![q] = meta]
        /\ UNCHANGED <<meta, marks>>
    BY <1>5 DEF LoadRecords
  <2>2. marks[q] = {}
    BY <2>1 DEF RecordInv, LoadedInv
  <2> QED
    BY <1>4, <2>1, <2>2
<1>6. CASE QueryReturns(q)
  <2>1. /\ query[q] = "listed"
        /\ snap' = [snap EXCEPT ![q] = [j \in Jobs |-> NoRecord]]
        /\ UNCHANGED <<meta, marks>>
    BY <1>6 DEF QueryReturns
  <2>2. marks[q] = {}
    BY <2>1 DEF RecordInv, LoadedInv
  <2> QED
    BY <1>4, <2>1, <2>2 DEF NoRecord
<1>7. ASSUME NEW m \in Machines,
             NothingToAsk(q, m) \/ MachineAnswers(q, m) \/ QueryFault(q)
      PROVE  FinalInv' /\ Replaced
  <2>1. UNCHANGED <<meta, snap>>
    BY <1>7 DEF NothingToAsk, MachineAnswers, QueryFault, MachineDrops,
                MachineUnreachable
  <2>2. \A r \in Queriers : r # q => marks'[r] = marks[r]
    BY <1>7 DEF NothingToAsk, MachineAnswers, QueryFault, MachineDrops,
                MachineUnreachable
  <2>3. \A j \in Jobs : j \in marks'[q] => j \in unseen' \/ snap[q][j].pid
    BY <1>7 DEF NothingToAsk, MachineAnswers, QueryFault, MachineDrops,
                MachineUnreachable, FoundDead, FinalInv
  <2> QED
    BY <1>4, <2>1, <2>2, <2>3
<1>8. CASE ListJobs(q)
  BY <1>1, <1>2, <1>8, FinalFrame DEF ListJobs, Early
<1> QED
  BY <1>3, <1>5, <1>6, <1>7, <1>8 DEF ReconcileStep, QueryFault

LEMMA StopFinal ==
  ASSUME TypeOK, RecordInv, LateInv, FinalInv, NEW s \in Stoppers, NEW i \in Jobs,
         StopLoads(s, i) \/ StopStep(s, i)
  PROVE  FinalInv' /\ Replaced
<1> USE DEF TypeOK
<1>1. UNCHANGED <<run, snap, marks, unseen>>
  BY DEF StopLoads, StopStep, StopTerms, StopKills, StopMarks, StopSaves,
         runVars, queryVars
<1>2. \A j \in Jobs : run[j] = "idle" => meta[j].status = "absent"
  BY DEF RecordInv, SavedInv
<1>3. CASE StopLoads(s, i)
  <2>1. /\ UNCHANGED meta /\ meta[i].status = "running"
        /\ held' = [held EXCEPT ![s] = [job |-> i, rec |-> meta[i]]]
    BY <1>3 DEF StopLoads
  <2>2. \A j \in Jobs, t \in Stoppers :
           held'[t].job = j => held[t].job = j \/ meta[j].status = "running"
    BY <2>1
  <2>3. FinalInv'
    BY <1>1, <2>1, <2>2 DEF FinalInv, Open
  <2> QED
    BY <2>1, <2>3 DEF Replaced
<1>4. CASE StopSaves(s, i)
  <2>1. /\ held[s].job = i
        /\ held' = [held EXCEPT ![s] = [job |-> NoJob, rec |-> NoRecord]]
        /\ meta'[i].status = "stopped"
        /\ \A j \in Jobs : j # i => meta'[j] = meta[j]
    BY <1>4 DEF StopSaves, WithStatus
  <2>2. meta[i].status \in Open /\ run[i] \notin Early
    BY <2>1 DEF FinalInv, LateInv, Past, Early
  <2>3. \A j \in Jobs, t \in Stoppers :
           t # s => (held'[t].job = j => held[t].job = j)
    BY <2>1
  <2>4. ASSUME NEW j \in Jobs
        PROVE  /\ \A q \in Queriers :
                    /\ j \in marks'[q] => j \in unseen' \/ snap'[q][j].pid
                    /\ snap'[q][j].pid /\ snap'[q][j].status = "running"
                          => meta'[j].status \in Open
               /\ \A t \in Stoppers :
                    held'[t].job = j => meta'[j].status \in Open
               /\ run'[j] \in Early =>
                    \/ meta'[j].status \in {"absent", "running"}
                    \/ meta'[j].status = "stale" /\ j \in unseen'
    <3>1. CASE j = i
      BY <1>1, <2>1, <2>2, <3>1 DEF FinalInv, Open
    <3>2. CASE j # i
      <4>1. held'[s].job # j
        BY <2>1, JobsAssumption
      <4> QED
        BY <1>1, <2>1, <2>3, <3>2, <4>1 DEF FinalInv
    <3> QED
      BY <3>1, <3>2
  <2>5. FinalInv'
    BY <2>4 DEF FinalInv
  <2>6. meta[i].status \in {"running", "stopped"}
           \/ {meta[i].status, meta'[i].status} = {"stopped", "stale"}
    BY <2>1, <2>2 DEF Open
  <2> QED
    BY <2>1, <2>5, <2>6 DEF Replaced
<1>5. CASE StopStep(s, i) /\ ~StopSaves(s, i)
  BY <1>1, <1>2, <1>5, FinalFrame
  DEF StopStep, StopTerms, StopKills, StopMarks, Early
<1> QED
  BY <1>3, <1>4, <1>5

LEMMA FinalStep ==
  ASSUME TypeOK, RecordInv, LateInv, FinalInv, [Next]_vars
  PROVE  FinalInv' /\ Replaced
<1> USE DEF TypeOK
<1>1. \A j \in Jobs : run[j] = "idle" => meta[j].status = "absent"
  BY DEF RecordInv, SavedInv
<1>2. ASSUME NEW s \in Stoppers, StopDropped(s) \/ StopErrs(s)
      PROVE  FinalInv' /\ Replaced
  <2>1. UNCHANGED <<run, meta, snap, marks, unseen>>
    BY <1>2 DEF StopDropped, StopErrs, runVars, queryVars
  <2>2. \A j \in Jobs, t \in Stoppers : held'[t].job = j => held[t].job = j
    <3>1. CASE StopDropped(s)
      BY <3>1 DEF StopDropped
    <3>2. CASE StopErrs(s)
      <4>1. /\ held'[s].job = NoJob
            /\ \A t \in Stoppers : t # s => held'[t] = held[t]
        BY <3>2 DEF StopErrs
      <4> QED
        BY <4>1, JobsAssumption
    <3> QED
      BY <1>2, <3>1, <3>2
  <2>3. FinalInv'
    BY <2>1, <2>2 DEF FinalInv
  <2> QED
    BY <2>1, <2>3 DEF Replaced
<1>3. ASSUME NEW j \in Jobs, RunFault(j) PROVE FinalInv' /\ Replaced
  <2>1. UNCHANGED <<meta, snap, marks, unseen, held>>
    BY <1>3 DEF RunFault, BackgroundLost, ForegroundDropped, ForegroundErrs,
                CleanupLost, SpawnFails, RunnerDies, queryVars, stopVars
  <2>2. \A i \in Jobs : run'[i] \in Early => run[i] \in Early \cup {"idle"}
    BY <1>3 DEF RunFault, BackgroundLost, ForegroundDropped, ForegroundErrs,
                CleanupLost, SpawnFails, RunnerDies, Conclude, Early
  <2> QED
    BY <1>1, <2>1, <2>2, FinalFrame
<1>4. ASSUME UNCHANGED <<run, meta, snap, marks, unseen, held>>
      PROVE  FinalInv' /\ Replaced
  BY <1>1, <1>4, FinalFrame DEF Early
<1>5. ASSUME NEW j \in Jobs,
             HostMoves(j) \/ FetcherStep(j) \/ FetcherDisconnects(j)
      PROVE  UNCHANGED <<run, meta, snap, marks, unseen, held>>
  BY <1>5 DEF HostMoves, localVars, FetcherStep, FetcherCopies,
              FetcherCopiesToNobody, FetcherRemoves, FetcherDisconnects, runVars,
              queryVars, stopVars
<1>6. ASSUME NEW w \in Followers, NEW j \in Jobs, FollowStarts(w, j) \/ FollowEnds(w, j)
      PROVE  UNCHANGED <<run, meta, snap, marks, unseen, held>>
  BY <1>6 DEF FollowStarts, FollowEnds, runVars, queryVars, stopVars
<1>7. ASSUME NEW m \in Machines, HostRestarts(m)
      PROVE  UNCHANGED <<run, meta, snap, marks, unseen, held>>
  BY <1>7 DEF HostRestarts, runVars, queryVars
<1>8. UNCHANGED vars => UNCHANGED <<run, meta, snap, marks, unseen, held>>
  BY DEF vars, localVars, runVars, queryVars, stopVars
<1> QED
  BY <1>2, <1>3, <1>4, <1>5, <1>6, <1>7, <1>8, RunFinal, QueryFinal, StopFinal
  DEF Next

(* Whatever fails, a final status changes only between the verdicts of a   *)
(* stop and of a query that both saw the job running, or by way of a       *)
(* "stale" of a query that could not look.                                 *)
THEOREM FinalKept == Spec => StatusFinal
<1> DEFINE Inv == TypeOK /\ Parts /\ RecordInv /\ LateInv /\ FinalInv
<1>1. Init => Inv
  <2>1. ASSUME Init PROVE LateInv /\ FinalInv
    BY <2>1, JobsAssumption
    DEF Init, NoRecord, LateInv, FinalInv, Early
  <2> QED
    BY <2>1, TypeInit, PartsInit, RecordInit
<1>2. Inv /\ [Next]_vars => Inv'
  BY TypeStep, PartsStep, RecordStep, LateStep, FinalStep
<1>3. Inv /\ [Next]_vars
      => [\A j \in Jobs :
            LET old == meta[j].status
                new == meta'[j].status
            IN  old \notin {"absent", "running"} /\ new # old
                   => \/ {old, new} = {"stopped", "stale"}
                      \/ j \in unseen /\ "stale" \in {old, new}]_vars
  BY FinalStep DEF Replaced
<1> QED
  BY <1>1, <1>2, <1>3, PTL DEF Spec, StatusFinal
=============================================================================
