------------------------------ MODULE JobStore ------------------------------
(***************************************************************************)
(* What processes share by name: the job ids that new_job_id and           *)
(* _fresh_job_id choose, the record files state/jobs/<id>/meta.json that   *)
(* save_job writes through meta.json.tmp, and the file cmd.sh in the       *)
(* remote directory that run_remote names after the id.                    *)
(*                                                                         *)
(* A record is abstracted to the number of the call it describes.          *)
(***************************************************************************)
EXTENDS Naturals

CONSTANTS
    Procs,      \* processes: one call each (the CLI) or several in a row
    Kept,       \* may --logs keep a record?  a subset of BOOLEAN
    Overlaps,   \* may processes run at the same time?  a subset of BOOLEAN
    MaxSeq,     \* the last sequence number within a second (99)
    MaxClock,   \* bound on the seconds
    MaxCalls,   \* bound on the calls of run_remote
    MaxMarks,   \* bound on the records saved by jobs() and job_stop()
    MaxFaults,  \* bound on killed processes
    None,       \* no file
    Empty,      \* the content of a file that was just opened
    Mixed       \* ... of one that is part one record and part another

ASSUME StoreAssumption ==
    /\ Kept \subseteq BOOLEAN
    /\ Overlaps \subseteq BOOLEAN
    /\ MaxSeq \in Nat \ {0}
    /\ {MaxClock, MaxCalls, MaxMarks, MaxFaults} \subseteq Nat
    /\ None \notin {Empty, Mixed} /\ Empty # Mixed
    /\ {None, Empty, Mixed} \cap (1 .. MaxCalls) = {}

VARIABLES
    overlap,    \* do processes run at the same time in this behaviour?
    clock,      \* the second of the clock
    lastId,     \* lastId[p]: the globals _last_ts and _last_seq of p
    call,       \* call[p]: the call p is executing
    dirs,       \* ids that have a directory state/jobs/<id>
    tmp, meta,  \* tmp[i], meta[i]: the files meta.json.tmp and meta.json
    cmd,        \* cmd[i]: the call that wrote the remote cmd.sh of i
    clashed,    \* (history) ids whose temporary file two writers had open
    calls, marks, faults

bounded == <<calls, marks, faults>>
vars == <<overlap, clock, lastId, call, dirs, tmp, meta, cmd, clashed,
          bounded>>

Call  == 1 .. MaxCalls
Id    == (0 .. MaxClock) \X (1 .. MaxSeq)
File  == Call \cup {None, Empty, Mixed}
Never == <<0, 0>>                       \* no id given out yet

Pc == {"idle", "choosing", "opening", "writing", "replacing", "sending",
       "starting", "running"}

(* handle: the name under which the file p writes is found now; first: is  *)
(* this the save before the command is sent?  ran: the call whose cmd.sh   *)
(* was executed.                                                           *)
CallState == [pc : Pc, n : 0 .. MaxCalls, id : Id \cup {Never}, kept : BOOLEAN,
              first : BOOLEAN, handle : {"closed", "tmp", "meta", "orphan"},
              ran : Call \cup {None}]
Idle == [pc |-> "idle", n |-> 0, id |-> Never, kept |-> FALSE, first |-> FALSE,
         handle |-> "closed", ran |-> None]

TypeOK ==
    /\ overlap \in BOOLEAN
    /\ clock \in 0 .. MaxClock
    /\ lastId \in [Procs -> Id \cup {Never}]
    /\ call \in [Procs -> CallState]
    /\ dirs \subseteq Id
    /\ tmp \in [Id -> File] /\ meta \in [Id -> File]
    /\ cmd \in [Id -> Call \cup {None}]
    /\ clashed \subseteq Id
    /\ calls \in 0 .. MaxCalls /\ marks \in 0 .. MaxMarks
    /\ faults \in 0 .. MaxFaults

Init ==
    /\ overlap \in Overlaps
    /\ clock = 0
    /\ lastId = [p \in Procs |-> Never]
    /\ call = [p \in Procs |-> Idle]
    /\ dirs = {}
    /\ tmp = [i \in Id |-> None] /\ meta = [i \in Id |-> None]
    /\ cmd = [i \in Id |-> None]
    /\ clashed = {}
    /\ calls = 0 /\ marks = 0 /\ faults = 0

At(p, pc) == call[p].pc = pc
Goes(p, pc) == call' = [call EXCEPT ![p].pc = pc]
MayStart(p) == At(p, "idle") /\ (overlap \/ \A q \in Procs : At(q, "idle"))

-----------------------------------------------------------------------------
(* Job ids                                                                 *)

Tick ==
    /\ clock < MaxClock
    /\ clock' = clock + 1
    /\ UNCHANGED <<overlap, lastId, call, dirs, tmp, meta, cmd, clashed, bounded>>

(* run_remote is called, in a new process or in one that has called before.*)
Submit(p) ==
    /\ MayStart(p)
    /\ calls < MaxCalls
    /\ calls' = calls + 1
    /\ \E kept \in Kept :
          call' = [call EXCEPT ![p] = [Idle EXCEPT !.pc = "choosing",
                      !.n = calls', !.kept = kept, !.first = kept]]
    /\ \E globals \in {lastId[p], Never} :
          lastId' = [lastId EXCEPT ![p] = globals]
    /\ UNCHANGED <<overlap, clock, dirs, tmp, meta, cmd, clashed, marks, faults>>

(* Faulty variant: off by one.                                             *)
NewJobIdLate(p) ==
    <<clock, IF lastId[p][1] # clock \/ lastId[p][2] > MaxSeq THEN 1
             ELSE lastId[p][2] + 1>>

(* new_job_id: the next number of this second in this process.             *)
NewJobId(p) ==
    <<clock, IF lastId[p][1] # clock \/ lastId[p][2] = MaxSeq THEN 1
             ELSE lastId[p][2] + 1>>

AfterId(p) == IF call[p].kept THEN "opening" ELSE "sending"

(* Faulty variant: no look at the directory.                               *)
ChooseIdBlindly(p) ==
    /\ At(p, "choosing")
    /\ lastId' = [lastId EXCEPT ![p] = NewJobId(p)]
    /\ call' = [call EXCEPT ![p].id = lastId'[p], ![p].pc = AfterId(p)]
    /\ UNCHANGED <<overlap, clock, dirs, tmp, meta, cmd, clashed, bounded>>

(* _fresh_job_id: one round of its loop.  Only a save makes the directory. *)
ChooseId(p) ==
    /\ At(p, "choosing")
    /\ lastId' = [lastId EXCEPT ![p] = NewJobId(p)]
    /\ call' = IF lastId'[p] \in dirs THEN call
               ELSE [call EXCEPT ![p].id = lastId'[p], ![p].pc = AfterId(p)]
    /\ UNCHANGED <<overlap, clock, dirs, tmp, meta, cmd, clashed, bounded>>

-----------------------------------------------------------------------------
(* save_job.  A file that is renamed stays the one its writers have open.  *)

(* jobs() or job_stop() loads a record and saves it with another status.   *)
Mark(p) ==
    /\ MayStart(p)
    /\ marks < MaxMarks
    /\ \E i \in Id :
          /\ meta[i] \in Call
          /\ call' = [call EXCEPT ![p] = [Idle EXCEPT !.pc = "opening",
                         !.n = meta[i], !.id = i, !.kept = TRUE]]
    /\ marks' = marks + 1
    /\ UNCHANGED <<overlap, clock, lastId, dirs, tmp, meta, cmd, clashed, calls,
                   faults>>

(* Faulty variant: the record itself is opened.                            *)
OpenInPlace(p) ==
    LET i == call[p].id IN
    /\ At(p, "opening")
    /\ dirs' = dirs \cup {i}
    /\ tmp' = [tmp EXCEPT ![i] = Empty] /\ meta' = [meta EXCEPT ![i] = Empty]
    /\ call' = [call EXCEPT ![p].pc = "writing", ![p].handle = "tmp"]
    /\ UNCHANGED <<overlap, clock, lastId, cmd, clashed, bounded>>

(* Another writer has the temporary file open.                             *)
Writers(i) == {p \in Procs : At(p, "writing") /\ call[p].id = i}
Busy(i) == \E q \in Writers(i) : call[q].handle = "tmp"

(* mkdir the directory; open truncates the temporary file.                 *)
OpenTmp(p) ==
    LET i == call[p].id IN
    /\ At(p, "opening")
    /\ dirs' = dirs \cup {i}
    /\ tmp' = [tmp EXCEPT ![i] = Empty]
    /\ clashed' = IF Busy(i) THEN clashed \cup {i} ELSE clashed
    /\ call' = [call EXCEPT ![p].pc = "writing", ![p].handle = "tmp"]
    /\ UNCHANGED <<overlap, clock, lastId, meta, cmd, bounded>>

(* Writing over what another writer has put there may leave its tail.      *)
Written(p, old) ==
    IF old = Empty THEN {call[p].n} ELSE {call[p].n, Mixed}

(* One write from the start of the file, then close.                       *)
WriteTmp(p) ==
    LET i == call[p].id
        put(f) == \E new \in Written(p, f[i]) : f' = [f EXCEPT ![i] = new]
    IN
    /\ At(p, "writing")
    /\ \/ call[p].handle = "tmp"    /\ put(tmp)  /\ UNCHANGED meta
       \/ call[p].handle = "meta"   /\ put(meta) /\ UNCHANGED tmp
       \/ call[p].handle = "orphan" /\ UNCHANGED <<tmp, meta>>
    /\ call' = [call EXCEPT ![p].pc = "replacing", ![p].handle = "closed"]
    /\ UNCHANGED <<overlap, clock, lastId, dirs, cmd, clashed, bounded>>

Renamed(handle) == IF handle = "tmp" THEN "meta"
                   ELSE IF handle = "meta" THEN "orphan" ELSE handle

(* Faulty variant: os.rename where it refuses to replace a file.           *)
RenameTmp(p) ==
    LET i == call[p].id IN
    /\ At(p, "replacing")
    /\ IF tmp[i] = None \/ meta[i] # None
       THEN call' = [call EXCEPT ![p] = Idle] /\ UNCHANGED <<tmp, meta>>
       ELSE /\ meta' = [meta EXCEPT ![i] = tmp[i]]
            /\ tmp' = [tmp EXCEPT ![i] = None]
            /\ call' = [call EXCEPT ![p] =
                          IF @.first THEN [@ EXCEPT !.pc = "sending"] ELSE Idle]
    /\ UNCHANGED <<overlap, clock, lastId, dirs, cmd, clashed, bounded>>

(* os.replace raises when another process has moved the temporary file.    *)
ReplaceTmp(p) ==
    LET i == call[p].id
        moved == [q \in Procs |-> IF call[q].id = i
                                  THEN [call[q] EXCEPT !.handle = Renamed(@)]
                                  ELSE call[q]]
    IN
    /\ At(p, "replacing")
    /\ IF tmp[i] = None
       THEN call' = [call EXCEPT ![p] = Idle] /\ UNCHANGED <<tmp, meta>>
       ELSE /\ meta' = [meta EXCEPT ![i] = tmp[i]]
            /\ tmp' = [tmp EXCEPT ![i] = None]
            /\ call' = [moved EXCEPT ![p] =
                          IF @.first THEN [@ EXCEPT !.pc = "sending"] ELSE Idle]
    /\ UNCHANGED <<overlap, clock, lastId, dirs, cmd, clashed, bounded>>

-----------------------------------------------------------------------------
(* The remote directory, named after the id (foreground).                  *)

(* The launcher writes cmd.sh ...                                          *)
SendCommand(p) ==
    /\ At(p, "sending")
    /\ cmd' = [cmd EXCEPT ![call[p].id] = call[p].n]
    /\ Goes(p, "starting")
    /\ UNCHANGED <<overlap, clock, lastId, dirs, tmp, meta, clashed, bounded>>

(* ... and bash reads it.                                                  *)
StartCommand(p) ==
    /\ At(p, "starting")
    /\ call' = [call EXCEPT ![p].pc = "running", ![p].ran = cmd[call[p].id]]
    /\ UNCHANGED <<overlap, clock, lastId, dirs, tmp, meta, cmd, clashed, bounded>>

(* The command ends: rm -rf the directory; a kept job saves its outcome.   *)
EndCommand(p) ==
    /\ At(p, "running")
    /\ cmd' = [cmd EXCEPT ![call[p].id] = None]
    /\ call' = [call EXCEPT ![p] =
                  IF @.kept THEN [@ EXCEPT !.pc = "opening", !.first = FALSE]
                  ELSE Idle]
    /\ UNCHANGED <<overlap, clock, lastId, dirs, tmp, meta, clashed, bounded>>

(* The process is killed; its files stay as they are.                      *)
Killed(p) ==
    /\ ~At(p, "idle")
    /\ faults < MaxFaults
    /\ faults' = faults + 1
    /\ call' = [call EXCEPT ![p] = Idle]
    /\ UNCHANGED <<overlap, clock, lastId, dirs, tmp, meta, cmd, clashed, calls,
                   marks>>

Next ==
    \/ Tick
    \/ \E p \in Procs :
          \/ Submit(p) \/ ChooseId(p) \/ Mark(p)
          \/ OpenTmp(p) \/ WriteTmp(p) \/ ReplaceTmp(p)
          \/ SendCommand(p) \/ StartCommand(p) \/ EndCommand(p)
          \/ Killed(p)

Spec == Init /\ [][Next]_vars

-----------------------------------------------------------------------------
(* Properties.                                                             *)

(* With processes one after another, a record once saved is a whole record,*)
(* although any of them may be killed at any point of a save and leaves    *)
(* its temporary file behind.                                              *)
RecordsWhole == overlap \/ \A i \in Id : meta[i] \in Call \cup {None}

(* ... and the record of one call never replaces that of another: a new    *)
(* job gets an id that no job has, also within one second, after the       *)
(* sequence number has wrapped and in a process that has not seen the      *)
(* earlier job.                                                            *)
RecordsKept ==
    [][\A i \in Id : meta[i] \in Call /\ ~overlap
                        => meta'[i] \notin Call \ {meta[i]}]_vars

(* Saves that get in each other's way leave no temporary file behind, and  *)
(* when they are over every job directory has a record: a save that raises *)
(* because its file was moved has had it moved into the record's place.    *)
(* The record is a whole one, also when it was moved there while its       *)
(* writer still wrote, unless two saves had the file open together: what   *)
(* they mix in it may stay.                                                *)
SavesSettle ==
    (\A p \in Procs : At(p, "idle")) /\ faults = 0
        => \A i \in dirs :
              /\ tmp[i] = None
              /\ meta[i] \in Call \/ (meta[i] = Mixed /\ i \in clashed)

(* The command that the remote shell starts for a call is the one the call *)
(* was made with.                                                          *)
OwnCommand == \A p \in Procs : At(p, "running") => call[p].ran = call[p].n
=============================================================================
