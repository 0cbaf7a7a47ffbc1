--------------------------- MODULE JobStoreProofs ---------------------------
(***************************************************************************)
(* What save_job and _fresh_job_id promise, for any number of processes,   *)
(* calls, kills, seconds and sequence numbers: whole records that are      *)
(* never another job's while processes come one after another, and         *)
(* directories that end up in order however they overlap.                  *)
(***************************************************************************)
EXTENDS JobStore, TLAPS

Saving(p) == call[p].pc \in {"opening", "writing", "replacing"}
Opened(p) == call[p].pc \in {"writing", "replacing"}

(* What every call knows about itself.                                     *)
CallInv ==
    \A p \in Procs :
        /\ At(p, "idle") => call[p] = Idle
        /\ ~At(p, "idle") => call[p].n \in Call
        /\ call[p].pc \notin {"idle", "choosing"} => call[p].id \in Id
        /\ Saving(p) => call[p].kept
        /\ Opened(p) => call[p].id \in dirs

(* A directory holds a record or the temporary file of one.                *)
DirsInv == \A i \in Id : i \in dirs <=> tmp[i] # None \/ meta[i] # None

(* A temporary file belongs to somebody who will rename it.                *)
SettleInv ==
    faults = 0 => \A i \in Id : tmp[i] # None =>
                      \E p \in Procs : Opened(p) /\ call[p].id = i

(* Processes in turn: only one is under way, the record of its id is its   *)
(* own or none, and nobody else touches its temporary file.                *)
TurnInv ==
    ~overlap =>
        /\ \A p, q \in Procs : At(p, "idle") \/ At(q, "idle") \/ p = q
        /\ \A p \in Procs :
              /\ call[p].kept /\ call[p].pc \notin {"idle", "choosing"}
                    => meta[call[p].id] \in {None, call[p].n}
              /\ At(p, "writing") => /\ call[p].handle = "tmp"
                                     /\ tmp[call[p].id] = Empty
              /\ At(p, "replacing") => tmp[call[p].id] = call[p].n

StoreInv == TypeOK /\ CallInv /\ DirsInv /\ SettleInv /\ TurnInv /\ RecordsWhole

-----------------------------------------------------------------------------
LEMMA IdleType == Idle \in CallState
BY StoreAssumption DEF Idle, CallState, Pc

LEMMA NewIdType ==
  ASSUME TypeOK, NEW p \in Procs
  PROVE  NewJobId(p) \in Id
<1>1. lastId[p] \in Id \cup {Never}
  BY DEF TypeOK
<1>2. /\ lastId[p][1] \in Nat /\ lastId[p][2] \in Nat
      /\ lastId[p][2] <= MaxSeq
  BY <1>1, StoreAssumption DEF Id, Never
<1>3. clock \in 0 .. MaxClock
  BY DEF TypeOK
<1> QED
  BY <1>1, <1>2, <1>3, StoreAssumption DEF NewJobId, Id, Never

LEMMA StoreInit == Init => StoreInv
<1> SUFFICES ASSUME Init PROVE StoreInv
  OBVIOUS
<1>1. TypeOK
  BY IdleType, StoreAssumption DEF Init, TypeOK, File, Call
<1>2. CallInv
  BY DEF Init, CallInv, At, Saving, Opened, Idle
<1>3. DirsInv /\ SettleInv /\ RecordsWhole
  BY DEF Init, DirsInv, SettleInv, RecordsWhole
<1>4. TurnInv
  BY DEF Init, TurnInv, At, Idle
<1> QED
  BY <1>1, <1>2, <1>3, <1>4 DEF StoreInv

(* How an action changes the call of its process.                          *)
Becomes(p, c) ==
    /\ c \in CallState
    /\ call' \in [Procs -> CallState]
    /\ call'[p] = c
    /\ \A q \in Procs \ {p} : call'[q] = call[q]

LEMMA Put ==
  ASSUME TypeOK, NEW p \in Procs, NEW c \in CallState,
         call' = [call EXCEPT ![p] = c]
  PROVE  Becomes(p, c)
BY DEF TypeOK, Becomes

LEMMA SubmitCall ==
  ASSUME TypeOK, NEW p \in Procs, Submit(p)
  PROVE  /\ calls' \in Call
         /\ \E c : /\ Becomes(p, c)
                  /\ c.pc = "choosing" /\ c.n = calls'
<1>1. calls' \in Call
  BY StoreAssumption DEF TypeOK, Submit, Call
<1>2. PICK kept \in BOOLEAN :
         call' = [call EXCEPT ![p] = [Idle EXCEPT !.pc = "choosing",
                     !.n = calls', !.kept = kept, !.first = kept]]
  BY StoreAssumption DEF Submit
<1> DEFINE c == [Idle EXCEPT !.pc = "choosing", !.n = calls', !.kept = kept,
                             !.first = kept]
<1>3. calls' \in 0 .. MaxCalls
  BY <1>1, StoreAssumption DEF Call
<1>4. c \in CallState /\ c.pc = "choosing" /\ c.n = calls'
  BY <1>3, IdleType DEF CallState, Pc
<1> QED
  BY <1>1, <1>2, <1>4, Put

LEMMA ChooseCall ==
  ASSUME TypeOK, NEW p \in Procs, ChooseId(p)
  PROVE  \E c : /\ Becomes(p, c)
                /\ \/ c = call[p]
                   \/ /\ c.id \in Id \ dirs
                      /\ c.pc = IF call[p].kept THEN "opening" ELSE "sending"
                      /\ c.n = call[p].n /\ c.kept = call[p].kept
<1> DEFINE i == lastId'[p]
           c == [call[p] EXCEPT !.id = i, !.pc = AfterId(p)]
<1>1. i \in Id
  BY NewIdType DEF ChooseId, TypeOK
<1>2. call[p] \in CallState /\ call[p].kept \in BOOLEAN
  BY DEF TypeOK, CallState
<1>3. c \in CallState /\ c.id = i /\ c.pc = AfterId(p)
      /\ c.n = call[p].n /\ c.kept = call[p].kept
  BY <1>1, <1>2 DEF CallState, AfterId, Pc
<1>4. CASE i \in dirs
  <2>1. Becomes(p, call[p])
    BY <1>2, <1>4 DEF ChooseId, TypeOK, Becomes
  <2> QED
    BY <2>1
<1>5. CASE i \notin dirs
  <2>1. call' = [call EXCEPT ![p].id = i, ![p].pc = AfterId(p)]
    BY <1>5 DEF ChooseId
  <2>2. call' = [call EXCEPT ![p] = c]
    BY <2>1, <1>2 DEF TypeOK, CallState
  <2> QED
    BY <1>1, <1>3, <1>5, <2>2, Put DEF AfterId
<1> QED
  BY <1>4, <1>5

LEMMA MarkCall ==
  ASSUME TypeOK, NEW p \in Procs, Mark(p)
  PROVE  \E c, i : /\ Becomes(p, c)
                   /\ i \in Id /\ meta[i] \in Call
                   /\ c.pc = "opening" /\ c.n = meta[i] /\ c.id = i /\ c.kept
<1>1. PICK i \in Id :
         /\ meta[i] \in Call
         /\ call' = [call EXCEPT ![p] = [Idle EXCEPT !.pc = "opening",
                        !.n = meta[i], !.id = i, !.kept = TRUE]]
  BY DEF Mark
<1> DEFINE c == [Idle EXCEPT !.pc = "opening", !.n = meta[i], !.id = i,
                             !.kept = TRUE]
<1>2. meta[i] \in 0 .. MaxCalls
  BY <1>1, StoreAssumption DEF Call
<1>3. /\ c \in CallState
      /\ c.pc = "opening" /\ c.n = meta[i] /\ c.id = i /\ c.kept
  BY <1>1, <1>2, IdleType DEF CallState, Pc
<1> QED
  BY <1>1, <1>2, <1>3, Put

LEMMA OpenCall ==
  ASSUME TypeOK, NEW p \in Procs, OpenTmp(p)
  PROVE  \E c : /\ Becomes(p, c)
                /\ c.pc = "writing" /\ c.handle = "tmp"
                /\ c.n = call[p].n /\ c.id = call[p].id /\ c.kept = call[p].kept
<1> DEFINE c == [call[p] EXCEPT !.pc = "writing", !.handle = "tmp"]
<1>1. c \in CallState
  BY DEF TypeOK, CallState, Pc
<1>2. call' = [call EXCEPT ![p] = c]
  BY DEF OpenTmp
<1>3. call[p] \in CallState
  BY DEF TypeOK
<1>4. /\ c.pc = "writing" /\ c.handle = "tmp"
      /\ c.n = call[p].n /\ c.id = call[p].id /\ c.kept = call[p].kept
  BY <1>3 DEF CallState
<1> QED
  BY <1>1, <1>2, <1>4, Put

LEMMA WriteCall ==
  ASSUME TypeOK, NEW p \in Procs, WriteTmp(p)
  PROVE  \E c : /\ Becomes(p, c)
                /\ c.pc = "replacing"
                /\ c.n = call[p].n /\ c.id = call[p].id /\ c.kept = call[p].kept
<1> DEFINE c == [call[p] EXCEPT !.pc = "replacing", !.handle = "closed"]
<1>1. c \in CallState
  BY DEF TypeOK, CallState, Pc
<1>2. call' = [call EXCEPT ![p] = c]
  BY DEF WriteTmp
<1>3. call[p] \in CallState
  BY DEF TypeOK
<1>4. /\ c.pc = "replacing"
      /\ c.n = call[p].n /\ c.id = call[p].id /\ c.kept = call[p].kept
  BY <1>3 DEF CallState
<1> QED
  BY <1>1, <1>2, <1>4, Put

LEMMA ReplaceCall ==
  ASSUME TypeOK, NEW p \in Procs, ReplaceTmp(p)
  PROVE  /\ call' \in [Procs -> CallState]
         /\ \A q \in Procs \ {p} :
               /\ call'[q].pc = call[q].pc /\ call'[q].id = call[q].id
               /\ call'[q].n = call[q].n /\ call'[q].kept = call[q].kept
               /\ call'[q].first = call[q].first /\ call'[q].ran = call[q].ran
               /\ call[q].id # call[p].id => call'[q] = call[q]
         /\ \/ call'[p] = Idle
            \/ /\ call'[p].pc = "sending"
               /\ call'[p].n = call[p].n /\ call'[p].id = call[p].id
               /\ call'[p].kept = call[p].kept
<1> DEFINE i == call[p].id
           moved == [q \in Procs |-> IF call[q].id = i
                                     THEN [call[q] EXCEPT !.handle = Renamed(@)]
                                     ELSE call[q]]
           c == IF moved[p].first THEN [moved[p] EXCEPT !.pc = "sending"] ELSE Idle
<1>1. \A q \in Procs : call[q] \in CallState
  BY DEF TypeOK
<1>2. \A q \in Procs : [call[q] EXCEPT !.handle = Renamed(@)] \in CallState
  BY <1>1 DEF CallState, Renamed
<1>3. moved \in [Procs -> CallState]
  BY <1>1, <1>2
<1>4. \A q \in Procs :
         /\ moved[q].pc = call[q].pc /\ moved[q].id = call[q].id
         /\ moved[q].n = call[q].n /\ moved[q].kept = call[q].kept
         /\ moved[q].first = call[q].first /\ moved[q].ran = call[q].ran
         /\ call[q].id # i => moved[q] = call[q]
  BY <1>1 DEF CallState
<1>5. c \in CallState
  BY <1>3, IdleType DEF CallState, Pc
<1>6. \/ c = Idle
      \/ /\ c.pc = "sending"
         /\ c.n = call[p].n /\ c.id = call[p].id /\ c.kept = call[p].kept
  BY <1>3, <1>4 DEF CallState
<1>7. CASE tmp[i] = None
  BY <1>7, IdleType DEF ReplaceTmp, TypeOK
<1>8. CASE tmp[i] # None
  <2>1. call' = [moved EXCEPT ![p] = c]
    BY <1>8 DEF ReplaceTmp
  <2> HIDE DEF moved, c
  <2> QED
    BY <2>1, <1>3, <1>4, <1>5, <1>6
<1> QED
  BY <1>7, <1>8

LEMMA RemoteCall ==
  ASSUME TypeOK, CallInv, NEW p \in Procs,
         SendCommand(p) \/ StartCommand(p) \/ EndCommand(p)
  PROVE  \E c : /\ Becomes(p, c)
                /\ \/ c = Idle
                   \/ /\ c.pc \in {"starting", "running"}
                      /\ c.n = call[p].n /\ c.id = call[p].id
                      /\ c.kept = call[p].kept
                   \/ /\ c.pc = "opening" /\ call[p].kept
                      /\ c.n = call[p].n /\ c.id = call[p].id
                      /\ c.kept = call[p].kept
<1>1. call[p] \in CallState
  BY DEF TypeOK
<1>2. CASE SendCommand(p)
  <2> DEFINE c == [call[p] EXCEPT !.pc = "starting"]
  <2>1. /\ c \in CallState /\ c.pc = "starting"
        /\ c.n = call[p].n /\ c.id = call[p].id /\ c.kept = call[p].kept
    BY <1>1 DEF CallState, Pc
  <2>2. call' = [call EXCEPT ![p] = c]
    BY <1>2 DEF SendCommand, Goes
  <2> QED
    BY <2>1, <2>2, Put
<1>3. CASE StartCommand(p)
  <2> DEFINE c == [call[p] EXCEPT !.pc = "running", !.ran = cmd[call[p].id]]
  <2>1. cmd[call[p].id] \in Call \cup {None}
    BY <1>3 DEF TypeOK, CallInv, StartCommand, At
  <2>2. /\ c \in CallState /\ c.pc = "running"
        /\ c.n = call[p].n /\ c.id = call[p].id /\ c.kept = call[p].kept
    BY <1>1, <2>1 DEF CallState, Pc
  <2>3. call' = [call EXCEPT ![p] = c]
    BY <1>3 DEF StartCommand
  <2> QED
    BY <2>2, <2>3, Put
<1>4. CASE EndCommand(p)
  <2> DEFINE c == IF call[p].kept
                  THEN [call[p] EXCEPT !.pc = "opening", !.first = FALSE]
                  ELSE Idle
  <2>1. c \in CallState
    BY <1>1, IdleType DEF CallState, Pc
  <2>2. call' = [call EXCEPT ![p] = c]
    BY <1>4 DEF EndCommand
  <2>3. \/ c = Idle
        \/ /\ c.pc = "opening" /\ call[p].kept
           /\ c.n = call[p].n /\ c.id = call[p].id /\ c.kept = call[p].kept
    BY <1>1 DEF CallState
  <2> HIDE DEF c
  <2> QED
    BY <2>1, <2>2, <2>3, Put
<1> QED
  BY <1>2, <1>3, <1>4

-----------------------------------------------------------------------------
(* The inductive step, action by action.                                   *)

LEMMA TickStep == StoreInv /\ (Tick \/ UNCHANGED vars) => StoreInv'
<1> SUFFICES ASSUME StoreInv, Tick \/ UNCHANGED vars PROVE StoreInv'
  OBVIOUS
<1>1. clock' \in 0 .. MaxClock
  BY StoreAssumption DEF StoreInv, TypeOK, Tick, vars
<1>2. UNCHANGED <<overlap, lastId, call, dirs, tmp, meta, cmd, clashed, calls,
                  marks, faults>>
  BY DEF Tick, vars, bounded
<1> QED
  BY <1>1, <1>2 DEF StoreInv, TypeOK, CallInv, DirsInv, SettleInv, TurnInv,
                    RecordsWhole, At, Saving, Opened

LEMMA SubmitStep ==
  ASSUME StoreInv, NEW p \in Procs, Submit(p)
  PROVE  StoreInv'
<1>1. PICK c : Becomes(p, c) /\ c.pc = "choosing" /\ c.n = calls'
  BY SubmitCall DEF StoreInv
<1>2. calls' \in Call /\ calls' \in 0 .. MaxCalls
  BY SubmitCall, StoreAssumption DEF StoreInv, Call
<1>3. UNCHANGED <<overlap, clock, dirs, tmp, meta, cmd, clashed, marks, faults>>
  BY DEF Submit
<1>4. At(p, "idle") /\ (overlap \/ \A q \in Procs : At(q, "idle"))
  BY DEF Submit, MayStart
<1>5. TypeOK'
  BY <1>1, <1>2, <1>3 DEF StoreInv, TypeOK, Submit, Becomes
<1>6. CallInv'
  BY <1>1, <1>2, <1>3 DEF StoreInv, CallInv, Becomes, At, Saving, Opened
<1>7. DirsInv' /\ RecordsWhole'
  BY <1>3 DEF StoreInv, DirsInv, RecordsWhole
<1>8. SettleInv'
  BY <1>1, <1>3, <1>4 DEF StoreInv, SettleInv, Becomes, At, Opened
<1>9. TurnInv'
  BY <1>1, <1>3, <1>4 DEF StoreInv, TurnInv, Becomes, At
<1> QED
  BY <1>5, <1>6, <1>7, <1>8, <1>9 DEF StoreInv

LEMMA ChooseStep ==
  ASSUME StoreInv, NEW p \in Procs, ChooseId(p)
  PROVE  StoreInv'
<1>1. PICK c : /\ Becomes(p, c)
               /\ \/ c = call[p]
                  \/ /\ c.id \in Id \ dirs
                     /\ c.pc = IF call[p].kept THEN "opening" ELSE "sending"
                     /\ c.n = call[p].n /\ c.kept = call[p].kept
  BY ChooseCall DEF StoreInv
<1>2. UNCHANGED <<overlap, clock, dirs, tmp, meta, cmd, clashed, calls, marks,
                  faults>>
  BY DEF ChooseId, bounded
<1>3. call[p].pc = "choosing"
  BY DEF ChooseId, At
<1>4. TypeOK'
  BY <1>1, <1>2, NewIdType DEF StoreInv, TypeOK, ChooseId, Becomes
<1>5. CallInv'
  BY <1>1, <1>2, <1>3 DEF StoreInv, CallInv, Becomes, At, Saving, Opened
<1>6. DirsInv' /\ RecordsWhole'
  BY <1>2 DEF StoreInv, DirsInv, RecordsWhole
<1>7. SettleInv'
  BY <1>1, <1>2, <1>3 DEF StoreInv, SettleInv, Becomes, Opened
<1>8. TurnInv'
  BY <1>1, <1>2, <1>3 DEF StoreInv, TurnInv, DirsInv, Becomes, At
<1> QED
  BY <1>4, <1>5, <1>6, <1>7, <1>8 DEF StoreInv

LEMMA MarkStep ==
  ASSUME StoreInv, NEW p \in Procs, Mark(p)
  PROVE  StoreInv'
<1>1. PICK c, i : /\ Becomes(p, c)
                  /\ i \in Id /\ meta[i] \in Call
                  /\ c.pc = "opening" /\ c.n = meta[i] /\ c.id = i /\ c.kept
  BY MarkCall DEF StoreInv
<1>2. UNCHANGED <<overlap, clock, lastId, dirs, tmp, meta, cmd, clashed, calls,
                  faults>>
  BY DEF Mark
<1>3. At(p, "idle") /\ (overlap \/ \A q \in Procs : At(q, "idle"))
  BY DEF Mark, MayStart
<1>4. marks' \in 0 .. MaxMarks
  BY StoreAssumption DEF StoreInv, TypeOK, Mark
<1>5. TypeOK'
  BY <1>1, <1>2, <1>4 DEF StoreInv, TypeOK, Becomes
<1>6. CallInv'
  BY <1>1, <1>2 DEF StoreInv, CallInv, Becomes, At, Saving, Opened
<1>7. DirsInv' /\ RecordsWhole'
  BY <1>2 DEF StoreInv, DirsInv, RecordsWhole
<1>8. SettleInv'
  BY <1>1, <1>2, <1>3 DEF StoreInv, SettleInv, Becomes, At, Opened
<1>9. TurnInv'
  BY <1>1, <1>2, <1>3 DEF StoreInv, TurnInv, Becomes, At
<1> QED
  BY <1>5, <1>6, <1>7, <1>8, <1>9 DEF StoreInv

LEMMA OpenStep ==
  ASSUME StoreInv, NEW p \in Procs, OpenTmp(p)
  PROVE  StoreInv'
<1> DEFINE i == call[p].id
<1>1. PICK c : /\ Becomes(p, c)
               /\ c.pc = "writing" /\ c.handle = "tmp"
               /\ c.n = call[p].n /\ c.id = i /\ c.kept = call[p].kept
  BY OpenCall DEF StoreInv
<1>2. /\ UNCHANGED <<overlap, clock, lastId, meta, cmd, calls, marks, faults>>
      /\ clashed' \subseteq clashed \cup {i}
  BY DEF OpenTmp, bounded
<1>3. call[p].pc = "opening" /\ i \in Id
  BY DEF OpenTmp, At, StoreInv, CallInv
<1>4. /\ dirs' = dirs \cup {i} /\ tmp' \in [Id -> File] /\ tmp'[i] = Empty
      /\ \A k \in Id \ {i} : tmp'[k] = tmp[k]
  BY <1>3 DEF OpenTmp, StoreInv, TypeOK, File
<1>5. TypeOK'
  BY <1>1, <1>2, <1>3, <1>4 DEF StoreInv, TypeOK, Becomes
<1>6. CallInv'
  BY <1>1, <1>3, <1>4 DEF StoreInv, CallInv, Becomes, At, Saving, Opened
<1>7. DirsInv' /\ RecordsWhole'
  BY <1>2, <1>3, <1>4, StoreAssumption DEF StoreInv, DirsInv, RecordsWhole
<1>8. SettleInv'
  BY <1>1, <1>2, <1>3, <1>4 DEF StoreInv, SettleInv, Becomes, Opened
<1>9. TurnInv'
  BY <1>1, <1>2, <1>3, <1>4 DEF StoreInv, TurnInv, CallInv, Becomes, At, Saving
<1> QED
  BY <1>5, <1>6, <1>7, <1>8, <1>9 DEF StoreInv

LEMMA WriteStep ==
  ASSUME StoreInv, NEW p \in Procs, WriteTmp(p)
  PROVE  StoreInv'
<1> DEFINE i == call[p].id
<1>1. PICK c : /\ Becomes(p, c)
               /\ c.pc = "replacing"
               /\ c.n = call[p].n /\ c.id = i /\ c.kept = call[p].kept
  BY WriteCall DEF StoreInv
<1>2. UNCHANGED <<overlap, clock, lastId, dirs, cmd, clashed, calls, marks,
                  faults>>
  BY DEF WriteTmp, bounded
<1>3. /\ call[p].pc = "writing" /\ i \in Id /\ i \in dirs
      /\ call[p].n \in Call
  BY DEF WriteTmp, At, StoreInv, CallInv, Opened
<1>4. \A old : Written(p, old) \subseteq File \ {None}
  BY <1>3, StoreAssumption DEF Written, File, Call
<1>5. /\ tmp' \in [Id -> File] /\ meta' \in [Id -> File]
      /\ \A k \in Id \ {i} : tmp'[k] = tmp[k] /\ meta'[k] = meta[k]
      /\ tmp'[i] # None \/ tmp'[i] = tmp[i]
      /\ meta'[i] # None \/ meta'[i] = meta[i]
      /\ call[p].handle = "tmp" => tmp'[i] \in Written(p, tmp[i]) /\ meta' = meta
  <2>1. CASE call[p].handle = "tmp"
    <3>1. PICK new \in Written(p, tmp[i]) : tmp' = [tmp EXCEPT ![i] = new]
      BY <2>1 DEF WriteTmp
    <3>2. meta' = meta
      BY <2>1 DEF WriteTmp
    <3> QED
      BY <1>3, <1>4, <3>1, <3>2 DEF StoreInv, TypeOK
  <2>2. CASE call[p].handle = "meta"
    <3>1. PICK new \in Written(p, meta[i]) : meta' = [meta EXCEPT ![i] = new]
      BY <2>2 DEF WriteTmp
    <3>2. tmp' = tmp
      BY <2>2 DEF WriteTmp
    <3> QED
      BY <1>3, <1>4, <2>2, <3>1, <3>2 DEF StoreInv, TypeOK
  <2>3. CASE call[p].handle = "orphan"
    BY <2>3 DEF WriteTmp, StoreInv, TypeOK
  <2> QED
    BY <2>1, <2>2, <2>3 DEF WriteTmp
<1>6. ~overlap => /\ tmp'[i] = call[p].n /\ meta' = meta
  BY <1>3, <1>5 DEF StoreInv, TurnInv, At, Written
<1>7. TypeOK'
  BY <1>1, <1>2, <1>5 DEF StoreInv, TypeOK, Becomes
<1>8. CallInv'
  BY <1>1, <1>2, <1>3 DEF StoreInv, CallInv, Becomes, At, Saving, Opened
<1>9. DirsInv'
  BY <1>2, <1>3, <1>5 DEF StoreInv, DirsInv
<1>10. RecordsWhole'
  BY <1>2, <1>6 DEF StoreInv, RecordsWhole
<1>11. SettleInv'
  <2>1. SUFFICES ASSUME faults = 0, NEW k \in Id, tmp'[k] # None
                 PROVE  \E q \in Procs : Opened(q)' /\ call'[q].id = k
    BY <1>2 DEF SettleInv
  <2>2. CASE k = i
    BY <1>1, <2>2 DEF Becomes, Opened
  <2>3. CASE k # i
    <3>1. PICK q \in Procs : Opened(q) /\ call[q].id = k
      BY <1>5, <2>1, <2>3 DEF StoreInv, SettleInv
    <3> QED
      BY <1>1, <2>3, <3>1 DEF Becomes, Opened
  <2> QED
    BY <2>2, <2>3
<1>12. TurnInv'
  BY <1>1, <1>2, <1>3, <1>6 DEF StoreInv, TurnInv, CallInv, Becomes, At, Saving
<1> QED
  BY <1>7, <1>8, <1>9, <1>10, <1>11, <1>12 DEF StoreInv

LEMMA ReplaceStep ==
  ASSUME StoreInv, NEW p \in Procs, ReplaceTmp(p)
  PROVE  StoreInv'
<1> DEFINE i == call[p].id
<1>1. /\ call' \in [Procs -> CallState]
      /\ \A q \in Procs \ {p} :
            /\ call'[q].pc = call[q].pc /\ call'[q].id = call[q].id
            /\ call'[q].n = call[q].n /\ call'[q].kept = call[q].kept
            /\ call[q].id # i => call'[q] = call[q]
      /\ \/ call'[p] = Idle
         \/ /\ call'[p].pc = "sending"
            /\ call'[p].n = call[p].n /\ call'[p].id = i
            /\ call'[p].kept = call[p].kept
  BY ReplaceCall DEF StoreInv
<1>2. UNCHANGED <<overlap, clock, lastId, dirs, cmd, clashed, calls, marks,
                  faults>>
  BY DEF ReplaceTmp, bounded
<1>3. /\ call[p].pc = "replacing" /\ i \in Id /\ i \in dirs
      /\ call[p].n \in Call
  BY DEF ReplaceTmp, At, StoreInv, CallInv, Opened
<1>4. /\ tmp' \in [Id -> File] /\ meta' \in [Id -> File]
      /\ tmp'[i] = None
      /\ meta'[i] = IF tmp[i] = None THEN meta[i] ELSE tmp[i]
      /\ \A k \in Id \ {i} : tmp'[k] = tmp[k] /\ meta'[k] = meta[k]
  BY <1>3 DEF ReplaceTmp, StoreInv, TypeOK, File
<1>5. TypeOK'
  BY <1>1, <1>2, <1>4 DEF StoreInv, TypeOK
<1>6. CallInv'
  <2>1. Never \notin Id /\ Idle.pc = "idle" /\ Idle.id = Never
    BY DEF Never, Id, Idle
  <2>2. ASSUME NEW q \in Procs, q # p, At(q, "idle") PROVE call'[q] = Idle
    BY <1>1, <1>3, <2>1, <2>2 DEF StoreInv, CallInv
  <2> QED
    BY <1>1, <1>2, <1>3, <2>1, <2>2 DEF StoreInv, CallInv, At, Saving, Opened
<1>7. DirsInv'
  BY <1>2, <1>3, <1>4 DEF StoreInv, DirsInv
<1>8. ~overlap => tmp[i] = call[p].n
  BY <1>3 DEF StoreInv, TurnInv, At
<1>9. RecordsWhole'
  BY <1>2, <1>3, <1>4, <1>8 DEF StoreInv, RecordsWhole
<1>10. SettleInv'
  <2>1. SUFFICES ASSUME faults = 0, NEW k \in Id, tmp'[k] # None
                 PROVE  \E q \in Procs : Opened(q)' /\ call'[q].id = k
    BY <1>2 DEF SettleInv
  <2>2. k # i /\ tmp[k] # None
    BY <1>4, <2>1
  <2>3. PICK q \in Procs : Opened(q) /\ call[q].id = k
    BY <2>1, <2>2 DEF StoreInv, SettleInv
  <2> QED
    BY <1>1, <2>2, <2>3 DEF Opened
<1>11. TurnInv'
  <2>1. ASSUME ~overlap, NEW q \in Procs, q # p PROVE call'[q].pc = "idle"
    BY <1>1, <1>3, <2>1 DEF StoreInv, TurnInv, At
  <2>2. ~overlap => meta'[i] = call[p].n
    BY <1>3, <1>4, <1>8, StoreAssumption DEF Call
  <2> QED
    BY <1>1, <1>2, <2>1, <2>2 DEF TurnInv, At, Idle
<1> QED
  BY <1>5, <1>6, <1>7, <1>9, <1>10, <1>11 DEF StoreInv

LEMMA RemoteStep ==
  ASSUME StoreInv, NEW p \in Procs,
         SendCommand(p) \/ StartCommand(p) \/ EndCommand(p)
  PROVE  StoreInv'
<1>1. PICK c : /\ Becomes(p, c)
               /\ \/ c = Idle
                  \/ /\ c.pc \in {"starting", "running"}
                     /\ c.n = call[p].n /\ c.id = call[p].id
                     /\ c.kept = call[p].kept
                  \/ /\ c.pc = "opening" /\ call[p].kept
                     /\ c.n = call[p].n /\ c.id = call[p].id
                     /\ c.kept = call[p].kept
  BY RemoteCall DEF StoreInv
<1>2. UNCHANGED <<overlap, clock, lastId, dirs, tmp, meta, clashed, calls,
                  marks, faults>>
  BY DEF SendCommand, StartCommand, EndCommand, bounded
<1>3. call[p].pc \in {"sending", "starting", "running"}
  BY DEF SendCommand, StartCommand, EndCommand, At
<1>4. call[p].n \in Call
  BY <1>3 DEF StoreInv, CallInv, At
<1>5. cmd' \in [Id -> Call \cup {None}]
  BY <1>4 DEF StoreInv, TypeOK, SendCommand, StartCommand, EndCommand
<1>6. TypeOK'
  BY <1>1, <1>2, <1>5 DEF StoreInv, TypeOK, Becomes
<1>7. CallInv'
  BY <1>1, <1>2, <1>3 DEF StoreInv, CallInv, Becomes, At, Saving, Opened, Idle
<1>8. DirsInv' /\ RecordsWhole'
  BY <1>2 DEF StoreInv, DirsInv, RecordsWhole
<1>9. SettleInv'
  BY <1>1, <1>2, <1>3 DEF StoreInv, SettleInv, Becomes, Opened
<1>10. TurnInv'
  BY <1>1, <1>2, <1>3 DEF StoreInv, TurnInv, Becomes, At, Idle
<1> QED
  BY <1>6, <1>7, <1>8, <1>9, <1>10 DEF StoreInv

LEMMA KilledStep ==
  ASSUME StoreInv, NEW p \in Procs, Killed(p)
  PROVE  StoreInv'
<1>1. Becomes(p, Idle)
  BY IdleType, Put DEF StoreInv, Killed
<1>2. UNCHANGED <<overlap, clock, lastId, dirs, tmp, meta, cmd, clashed, calls,
                  marks>>
  BY DEF Killed
<1>3. faults' \in 0 .. MaxFaults /\ faults' # 0
  BY StoreAssumption DEF StoreInv, TypeOK, Killed
<1>4. TypeOK'
  BY <1>1, <1>2, <1>3 DEF StoreInv, TypeOK, Becomes
<1>5. CallInv'
  BY <1>1, <1>2 DEF StoreInv, CallInv, Becomes, At, Saving, Opened, Idle
<1>6. DirsInv' /\ RecordsWhole' /\ SettleInv'
  BY <1>2, <1>3 DEF StoreInv, DirsInv, RecordsWhole, SettleInv
<1>7. TurnInv'
  BY <1>1, <1>2 DEF StoreInv, TurnInv, Becomes, At, Idle
<1> QED
  BY <1>4, <1>5, <1>6, <1>7 DEF StoreInv

LEMMA StoreStep == StoreInv /\ [Next]_vars => StoreInv'
BY TickStep, SubmitStep, ChooseStep, MarkStep, OpenStep, WriteStep, ReplaceStep,
   RemoteStep, KilledStep DEF Next

(* Only the renaming of a save that is at its end puts a record in place,  *)
(* and then of the call whose id it is.                                    *)
LEMMA RecordStep ==
  ASSUME StoreInv, [Next]_vars, NEW i \in Id, meta[i] \in Call, ~overlap
  PROVE  meta'[i] \notin Call \ {meta[i]}
<1>1. CASE meta' = meta
  BY <1>1
<1>2. ASSUME NEW p \in Procs, WriteTmp(p) PROVE meta' = meta
  BY <1>2 DEF StoreInv, TurnInv, At, WriteTmp
<1>3. ASSUME NEW p \in Procs, ReplaceTmp(p), meta' # meta
      PROVE  meta'[i] \notin Call \ {meta[i]}
  <2> DEFINE k == call[p].id
  <2>1. k \in Id /\ meta' = [meta EXCEPT ![k] = tmp[k]]
    BY <1>3 DEF ReplaceTmp, StoreInv, CallInv, At
  <2>2. tmp[k] = call[p].n /\ meta[k] \in {None, call[p].n}
    BY <1>3 DEF StoreInv, TurnInv, CallInv, ReplaceTmp, At, Saving
  <2> QED
    BY <2>1, <2>2, StoreAssumption DEF StoreInv, TypeOK, Call
<1> QED
  BY <1>1, <1>2, <1>3 DEF Next, vars, Tick, Submit, ChooseId, Mark, OpenTmp,
                          SendCommand, StartCommand, EndCommand, Killed

-----------------------------------------------------------------------------
(* The invariant behind SavesSettle: as long as no two writers have had the*)
(* temporary file of a job open together, whoever has a file of that job   *)
(* open finds it empty, and is alone with it, also after the file was      *)
(* moved into the record's place; and without kills, no empty file is left *)
(* alone.                                                                  *)

Handles == {"tmp", "meta"}
Under(h, i) == IF h = "tmp" THEN tmp[i] ELSE meta[i]
Holds(p, h, i) == At(p, "writing") /\ call[p].handle = h /\ call[p].id = i

WriterInv ==
    \A h \in Handles, i \in Id :
        /\ faults = 0 /\ Under(h, i) = Empty => \E p \in Procs : Holds(p, h, i)
        /\ i \notin clashed =>
              /\ Under(h, i) # Mixed
              /\ \A p \in Procs : Holds(p, h, i) => Under(h, i) = Empty
              /\ \A p, q \in Procs : Holds(p, h, i) /\ Holds(q, h, i) => p = q

LEMMA WriterInit == Init => WriterInv
BY StoreAssumption DEF Init, WriterInv, Under, Holds, At, Idle

(* Steps before and after a save.                                          *)
LEMMA AsideWriter ==
  ASSUME StoreInv, WriterInv, UNCHANGED <<tmp, meta, clashed>>,
         \A p \in Procs : \A h, i : Holds(p, h, i)' => Holds(p, h, i),
         \/ faults' # 0
         \/ /\ faults' = faults
            /\ \A p \in Procs : \A h, i : Holds(p, h, i) => Holds(p, h, i)'
  PROVE  WriterInv'
BY DEF WriterInv, Under, Handles

LEMMA OpenWriter ==
  ASSUME StoreInv, WriterInv, NEW p \in Procs, OpenTmp(p)
  PROVE  WriterInv'
<1> DEFINE i == call[p].id
<1>1. PICK c : /\ Becomes(p, c)
               /\ c.pc = "writing" /\ c.handle = "tmp" /\ c.id = i
  BY OpenCall DEF StoreInv
<1>2. call[p].pc = "opening" /\ i \in Id
  BY DEF OpenTmp, At, StoreInv, CallInv
<1>3. /\ meta' = meta /\ faults' = faults
      /\ tmp'[i] = Empty /\ \A k \in Id \ {i} : tmp'[k] = tmp[k]
      /\ clashed \subseteq clashed'
      /\ (\E q \in Procs : Holds(q, "tmp", i)) => i \in clashed'
  BY <1>2 DEF OpenTmp, StoreInv, TypeOK, bounded, Busy, Writers, Holds
<1>4. \A q \in Procs : \A h, k :
         Holds(q, h, k)' <=> Holds(q, h, k) \/ (q = p /\ h = "tmp" /\ k = i)
  BY <1>1, <1>2 DEF Becomes, Holds, At
<1> SUFFICES ASSUME NEW h \in Handles, NEW k \in Id
             PROVE  /\ faults' = 0 /\ Under(h, k)' = Empty
                           => \E q \in Procs : Holds(q, h, k)'
                    /\ k \notin clashed' =>
                          /\ Under(h, k)' # Mixed
                          /\ \A q \in Procs : Holds(q, h, k)' => Under(h, k)' = Empty
                          /\ \A q, r \in Procs :
                                Holds(q, h, k)' /\ Holds(r, h, k)' => q = r
  BY DEF WriterInv
<1>5. CASE h = "tmp" /\ k = i
  BY <1>3, <1>4, <1>5, StoreAssumption DEF Under
<1>6. CASE ~(h = "tmp" /\ k = i)
  <2>1. Under(h, k)' = Under(h, k)
    BY <1>3, <1>6 DEF Under, Handles
  <2> QED
    BY <1>3, <1>4, <1>6, <2>1 DEF WriterInv
<1> QED
  BY <1>5, <1>6

(* What is written over an empty file is a whole record.                   *)
LEMMA WriteWriter ==
  ASSUME StoreInv, WriterInv, NEW p \in Procs, WriteTmp(p)
  PROVE  WriterInv'
<1>1. PICK c : Becomes(p, c) /\ c.pc = "replacing"
  BY WriteCall DEF StoreInv
<1>2. /\ call[p].pc = "writing" /\ call[p].id \in Id /\ call[p].n \in Call
      /\ clashed' = clashed /\ faults' = faults
  BY DEF WriteTmp, At, StoreInv, CallInv, bounded
<1> PICK i, g : i \in Id /\ i = call[p].id /\ g = call[p].handle
  BY <1>2
<1>3. /\ \A h \in Handles, k \in Id : ~(h = g /\ k = i) => Under(h, k)' = Under(h, k)
      /\ g \in Handles => Under(g, i)' \in Written(p, Under(g, i))
  BY <1>2 DEF WriteTmp, Under, Handles, StoreInv, TypeOK
<1>4. \A q \in Procs : \A h, k : Holds(q, h, k)' <=> q # p /\ Holds(q, h, k)
  BY <1>1, <1>2 DEF Becomes, Holds, At
<1>5. Holds(p, g, i)
  BY <1>2 DEF Holds, At
<1> SUFFICES ASSUME NEW h \in Handles, NEW k \in Id
             PROVE  /\ faults' = 0 /\ Under(h, k)' = Empty
                           => \E q \in Procs : Holds(q, h, k)'
                    /\ k \notin clashed' =>
                          /\ Under(h, k)' # Mixed
                          /\ \A q \in Procs : Holds(q, h, k)' => Under(h, k)' = Empty
                          /\ \A q, r \in Procs :
                                Holds(q, h, k)' /\ Holds(r, h, k)' => q = r
  BY DEF WriterInv
<1>6. CASE h = g /\ k = i
  <2>1. Under(h, k)' \in {call[p].n, Mixed}
    BY <1>3, <1>6 DEF Written
  <2>2. call[p].n \notin {Empty, Mixed}
    BY <1>2, StoreAssumption DEF Call
  <2>3. k \notin clashed => Under(h, k) = Empty
    BY <1>5, <1>6 DEF WriterInv
  <2>4. k \notin clashed => Under(h, k)' = call[p].n
    BY <1>3, <1>6, <2>3 DEF Written
  <2>5. k \notin clashed => \A q \in Procs : ~Holds(q, h, k)'
    BY <1>4, <1>5, <1>6 DEF WriterInv
  <2> QED
    BY <1>2, <2>1, <2>2, <2>4, <2>5, StoreAssumption
<1>7. CASE ~(h = g /\ k = i)
  <2>1. Under(h, k)' = Under(h, k)
    BY <1>3, <1>7
  <2>2. \A q \in Procs : Holds(q, h, k)' <=> Holds(q, h, k)
    BY <1>4, <1>7 DEF Holds
  <2> QED
    BY <1>2, <2>1, <2>2 DEF WriterInv
<1> QED
  BY <1>6, <1>7

(* Renaming takes the writers of the temporary file along.                 *)
LEMMA ReplaceWriter ==
  ASSUME StoreInv, WriterInv, NEW p \in Procs, ReplaceTmp(p)
  PROVE  WriterInv'
<1>1. /\ call[p].pc = "replacing" /\ call[p].id \in Id
      /\ clashed' = clashed /\ faults' = faults
  BY DEF ReplaceTmp, At, StoreInv, CallInv, bounded
<1> PICK i \in Id : i = call[p].id
  BY <1>1
<1>2. \A q \in Procs : call[q] \in CallState
  BY DEF StoreInv, TypeOK
<1>3. CASE tmp[i] = None
  <2>1. Becomes(p, Idle) /\ UNCHANGED <<tmp, meta>>
    BY <1>3, IdleType, Put DEF ReplaceTmp, StoreInv
  <2>2. \A q \in Procs : \A h, k : Holds(q, h, k)' <=> Holds(q, h, k)
    BY <1>1, <2>1 DEF Becomes, Holds, At, Idle
  <2> QED
    BY <1>1, <2>1, <2>2, AsideWriter
<1>4. CASE tmp[i] # None
  <2> DEFINE moved == [q \in Procs |-> IF call[q].id = i
                                       THEN [call[q] EXCEPT !.handle = Renamed(@)]
                                       ELSE call[q]]
             c == IF moved[p].first THEN [moved[p] EXCEPT !.pc = "sending"] ELSE Idle
  <2>1. /\ call' = [moved EXCEPT ![p] = c]
        /\ meta' = [meta EXCEPT ![i] = tmp[i]]
        /\ tmp' = [tmp EXCEPT ![i] = None]
    BY <1>4 DEF ReplaceTmp
  <2>2. \A q \in Procs : q # p => call'[q] = moved[q]
    BY <2>1
  <2>3. call'[p].pc # "writing"
    <3>1. moved[p] \in CallState
      BY <1>2 DEF CallState, Renamed
    <3>2. c.pc # "writing"
      BY <3>1 DEF CallState, Idle
    <3> QED
      BY <2>1, <3>2
  <2>4. \A q \in Procs : q # p =>
           /\ moved[q].pc = call[q].pc /\ moved[q].id = call[q].id
           /\ moved[q].handle = IF call[q].id = i THEN Renamed(call[q].handle)
                                ELSE call[q].handle
    BY <1>2 DEF CallState
  <2> HIDE DEF moved, c
  <2>5. \A q \in Procs : \A h \in Handles, k \in Id \ {i} :
           Holds(q, h, k)' <=> Holds(q, h, k)
    BY <1>1, <2>2, <2>3, <2>4 DEF Holds, At
  <2>6. \A q \in Procs : /\ ~Holds(q, "tmp", i)'
                         /\ Holds(q, "meta", i)' <=> Holds(q, "tmp", i)
    BY <1>1, <2>2, <2>3, <2>4 DEF Holds, At, Renamed
  <2>7. /\ Under("tmp", i)' = None /\ Under("meta", i)' = Under("tmp", i)
        /\ \A h \in Handles, k \in Id \ {i} : Under(h, k)' = Under(h, k)
    BY <1>1, <2>1 DEF Under, StoreInv, TypeOK
  <2>8. ASSUME NEW h \in Handles, NEW k \in Id
        PROVE  /\ faults' = 0 /\ Under(h, k)' = Empty
                      => \E q \in Procs : Holds(q, h, k)'
               /\ k \notin clashed' =>
                     /\ Under(h, k)' # Mixed
                     /\ \A q \in Procs : Holds(q, h, k)' => Under(h, k)' = Empty
                     /\ \A q, r \in Procs :
                           Holds(q, h, k)' /\ Holds(r, h, k)' => q = r
    <3>1. CASE k # i
      BY <1>1, <2>5, <2>7, <3>1 DEF WriterInv
    <3>2. CASE k = i /\ h = "tmp"
      BY <2>6, <2>7, <3>2, StoreAssumption
    <3>3. CASE k = i /\ h = "meta"
      BY <1>1, <2>6, <2>7, <3>3 DEF WriterInv, Handles
    <3> QED
      BY <3>1, <3>2, <3>3 DEF Handles
  <2> QED
    BY <2>8 DEF WriterInv
<1> QED
  BY <1>3, <1>4

LEMMA WriterStep == StoreInv /\ WriterInv /\ [Next]_vars => WriterInv'
<1> SUFFICES ASSUME StoreInv, WriterInv, [Next]_vars PROVE WriterInv'
  OBVIOUS
<1>1. CASE Tick \/ UNCHANGED vars
  <2>1. UNCHANGED <<call, tmp, meta, clashed, faults>>
    BY <1>1 DEF Tick, vars, bounded
  <2> QED
    BY <2>1, AsideWriter DEF Holds, At
<1>2. ASSUME NEW p \in Procs, NEW c, Becomes(p, c), call[p].pc # "writing",
             c.pc # "writing", UNCHANGED <<tmp, meta, clashed, faults>>
      PROVE  WriterInv'
  <2>1. \A q \in Procs : \A h, i : Holds(q, h, i)' <=> Holds(q, h, i)
    BY <1>2 DEF Becomes, Holds, At
  <2> QED
    BY <1>2, <2>1, AsideWriter
<1>3. ASSUME NEW p \in Procs, Submit(p) \/ ChooseId(p) \/ Mark(p)
      PROVE  WriterInv'
  <2>1. UNCHANGED <<tmp, meta, clashed, faults>> /\ call[p].pc # "writing"
    BY <1>3 DEF Submit, ChooseId, Mark, MayStart, At, bounded
  <2>2. \E c : Becomes(p, c) /\ c.pc # "writing"
    <3>1. CASE Submit(p)
      BY <3>1, SubmitCall DEF StoreInv
    <3>2. CASE ChooseId(p)
      BY <2>1, <3>2, ChooseCall DEF StoreInv
    <3>3. CASE Mark(p)
      BY <3>3, MarkCall DEF StoreInv
    <3> QED
      BY <1>3, <3>1, <3>2, <3>3
  <2> QED
    BY <1>2, <2>1, <2>2
<1>4. ASSUME NEW p \in Procs, SendCommand(p) \/ StartCommand(p) \/ EndCommand(p)
      PROVE  WriterInv'
  <2>1. UNCHANGED <<tmp, meta, clashed, faults>> /\ call[p].pc # "writing"
    BY <1>4 DEF SendCommand, StartCommand, EndCommand, At, bounded
  <2>2. \E c : Becomes(p, c) /\ c.pc # "writing"
    BY <1>4, RemoteCall DEF StoreInv, Idle
  <2> QED
    BY <1>2, <2>1, <2>2
<1>5. ASSUME NEW p \in Procs, Killed(p) PROVE WriterInv'
  <2>1. Becomes(p, Idle) /\ UNCHANGED <<tmp, meta, clashed>>
    BY <1>5, IdleType, Put DEF Killed, StoreInv
  <2>2. \A q \in Procs : \A h, i : Holds(q, h, i)' => Holds(q, h, i)
    BY <2>1 DEF Becomes, Holds, At, Idle
  <2>3. faults' # 0
    BY <1>5, StoreAssumption DEF Killed, StoreInv, TypeOK
  <2> QED
    BY <2>1, <2>2, <2>3, AsideWriter
<1> QED
  BY <1>1, <1>3, <1>4, <1>5, OpenWriter, WriteWriter, ReplaceWriter DEF Next

-----------------------------------------------------------------------------
LEMMA StoreInvariant == Spec => []StoreInv
<1> QED
  BY StoreInit, StoreStep, PTL DEF Spec

(* Every variable keeps its type: ids, handles and the contents of files,  *)
(* also of those that two writers have open.                               *)
THEOREM TypeCorrect == Spec => []TypeOK
<1>1. StoreInv => TypeOK
  BY DEF StoreInv
<1> QED
  BY <1>1, StoreInvariant, PTL

(* A record that was saved is whole (save_job's rename), whatever earlier  *)
(* processes were killed in the middle of a save.                          *)
THEOREM Whole == Spec => []RecordsWhole
<1>1. StoreInv => RecordsWhole
  BY DEF StoreInv
<1> QED
  BY <1>1, StoreInvariant, PTL

(* No record replaces another job's (_fresh_job_id), however the sequence  *)
(* numbers wrap.                                                           *)
THEOREM OwnRecords == Spec => RecordsKept
<1>1. StoreInv /\ [Next]_vars =>
         [\A i \in Id : meta[i] \in Call /\ ~overlap
                            => meta'[i] \notin Call \ {meta[i]}]_vars
  BY RecordStep
<1> QED
  BY <1>1, StoreInvariant, PTL DEF Spec, RecordsKept

(* Saves that collide on meta.json.tmp leave none behind, and a whole      *)
(* record in every directory but those where two of them had that file     *)
(* open together, any number of saves and in any order.                    *)
THEOREM Settled == Spec => []SavesSettle
<1>1. ASSUME StoreInv, WriterInv PROVE SavesSettle
  <2> SUFFICES ASSUME \A p \in Procs : At(p, "idle"), faults = 0, NEW i \in dirs
               PROVE  /\ tmp[i] = None
                      /\ meta[i] \in Call \/ (meta[i] = Mixed /\ i \in clashed)
    BY DEF SavesSettle
  <2>1. i \in Id
    BY <1>1 DEF StoreInv, TypeOK
  <2>2. tmp[i] = None /\ meta[i] # None
    BY <1>1, <2>1 DEF StoreInv, SettleInv, DirsInv, Opened, At
  <2>3. meta[i] # Empty /\ (i \notin clashed => meta[i] # Mixed)
    BY <1>1, <2>1 DEF WriterInv, Under, Handles, Holds, At
  <2> QED
    BY <1>1, <2>1, <2>2, <2>3 DEF StoreInv, TypeOK, File
<1> QED
  BY <1>1, StoreInit, StoreStep, WriterInit, WriterStep, PTL DEF Spec
=============================================================================
