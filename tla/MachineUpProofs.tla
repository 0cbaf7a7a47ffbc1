-------------------------- MODULE MachineUpProofs --------------------------
(***************************************************************************)
(* What `up' and `down' promise, for any number of processes, calls, tries *)
(* and faults and any starting point.                                      *)
(***************************************************************************)
EXTENDS MachineUp, TLAPS

MachineType ==
    /\ kind \in {"container", "ssh"}
    /\ keys \in BOOLEAN /\ image \in BOOLEAN /\ marker \in BOOLEAN
    /\ writable \in BOOLEAN
    /\ cont \in Cont
    /\ ws \in {"absent", "dir", "ready"}

(* Where a call may be and how often it has tried.                         *)
StageInv(p) ==
    /\ call[p].pc \in {"ssh", "pubkey", "image", "inspect", "create", "exec",
                       "marker", "init"} => call[p].op = "up"
    /\ call[p].pc \in {"find", "remove", "unmark"} => call[p].op = "down"
    /\ call[p].pc \in {"check", "use"} => call[p].op \in {"sync", "run"}
    /\ call[p].pc \in {"ssh", "pubkey", "image", "inspect", "create"}
          => call[p].tries = 0
    /\ call[p].pc = "exec" => call[p].tries < Tries
    /\ call[p].alone => call[p].calm

(* What an up has made sure of and nobody but a down or a fault takes away.*)
CalmInv(p) ==
    call[p].calm /\ call[p].op = "up" =>
        /\ call[p].pc \in {"image", "inspect", "create", "exec"}
              => keys /\ kind = "container"
        /\ call[p].pc = "marker" => Reachable /\ kind = "container"
        /\ call[p].pc = "init" => Reachable /\ (kind = "container" => marker)
        /\ call[p].pc = "ended" /\ call[p].result = "ok" =>
              /\ Reachable /\ (kind = "container" => marker)
              /\ writable => ws = "ready"

(* What a call has seen and only another process changes.                  *)
AloneInv(p) ==
    call[p].alone =>
        /\ call[p].pc = "create" => cont = "none"
        /\ call[p].pc = "exec" => cont \in {"starting", "running"}
        /\ call[p].pc = "unmark" /\ kind = "container" => cont = "none"
        /\ Done(p, "up", "error") =>
              \/ ~keys
              \/ call[p].tries = Tries /\ cont \in {"starting", "running"}
        /\ Done(p, "up", "needs_repair") => cont = "stopped"
        /\ Done(p, "down", "ok") /\ kind = "container" => cont = "none" /\ ~marker

CallsInv == \A p \in Procs : StageInv(p) /\ CalmInv(p) /\ AloneInv(p)

UpInv == TypeOK /\ CallsInv

(* What the steps of an up and of sync and run leave standing.             *)
Gentle ==
    /\ kind' = kind /\ writable' = writable
    /\ keys => keys'
    /\ marker => marker'
    /\ cont = "running" => cont' = "running"
    /\ ws = "ready" => ws' = "ready"

-----------------------------------------------------------------------------
LEMMA NoCallType == NoCall \in Call
BY UpAssumption DEF NoCall, Call, Pc

LEMMA UpInit == Init => UpInv
<1> SUFFICES ASSUME Init PROVE UpInv
  OBVIOUS
<1>1. TypeOK
  <2>1. cont \in Cont
    BY DEF Init, Cont
  <2>2. call \in [Procs -> Call]
    BY NoCallType DEF Init
  <2>3. kind \in {"container", "ssh"} /\ ws \in {"absent", "dir", "ready"}
    BY UpAssumption DEF Init
  <2>4. /\ keys \in BOOLEAN /\ image \in BOOLEAN /\ marker \in BOOLEAN
        /\ writable \in BOOLEAN
    BY DEF Init
  <2>5. faults \in 0 .. MaxFaults
    BY UpAssumption DEF Init
  <2> QED
    BY <2>1, <2>2, <2>3, <2>4, <2>5 DEF TypeOK
<1>2. CallsInv
  BY DEF Init, CallsInv, StageInv, CalmInv, AloneInv, Done, At, NoCall
<1> QED
  BY <1>1, <1>2 DEF UpInv

(* How the three ways of going on change the calls.                        *)
Kept(p, q) ==
    /\ call'[q].op = call[q].op /\ call'[q].pc = call[q].pc
    /\ call'[q].tries = call[q].tries /\ call'[q].result = call[q].result
    /\ ~call'[q].alone

LEMMA BecomesCall ==
  ASSUME TypeOK, NEW p \in Procs, NEW c \in Call, Becomes(p, c)
  PROVE  /\ call' \in [Procs -> Call] /\ call'[p] = c
         /\ \A q \in Procs \ {p} : Kept(p, q) /\ call'[q].calm = call[q].calm
<1>1. \A q \in Procs : call[q] \in Call
  BY DEF TypeOK
<1>2. \A q \in Procs : [call[q] EXCEPT !.alone = FALSE] \in Call
  BY <1>1 DEF Call
<1> QED
  BY <1>1, <1>2 DEF Becomes, Kept, Call

LEMMA DisturbsCall ==
  ASSUME TypeOK, NEW p \in Procs, NEW c \in Call, Disturbs(p, c)
  PROVE  /\ call' \in [Procs -> Call] /\ call'[p] = c
         /\ \A q \in Procs \ {p} : Kept(p, q) /\ ~call'[q].calm
<1>1. \A q \in Procs : call[q] \in Call
  BY DEF TypeOK
<1>2. \A q \in Procs : [call[q] EXCEPT !.calm = FALSE, !.alone = FALSE] \in Call
  BY <1>1 DEF Call
<1> QED
  BY <1>1, <1>2 DEF Disturbs, Kept, Call

LEMMA SuffersCall ==
  ASSUME TypeOK, NEW p \in Procs, NEW c \in Call, Suffers(p, c)
  PROVE  /\ call' \in [Procs -> Call]
         /\ call'[p].op = c.op /\ call'[p].pc = c.pc /\ call'[p].tries = c.tries
         /\ ~call'[p].calm /\ ~call'[p].alone
         /\ \A q \in Procs \ {p} : Kept(p, q) /\ ~call'[q].calm
<1> DEFINE next(q) == IF q = p THEN c ELSE call[q]
<1>1. \A q \in Procs : next(q) \in Call
  BY DEF TypeOK
<1>2. \A q \in Procs : [next(q) EXCEPT !.calm = FALSE, !.alone = FALSE] \in Call
  BY <1>1 DEF Call
<1>3. call' = [q \in Procs |-> [next(q) EXCEPT !.calm = FALSE, !.alone = FALSE]]
  BY DEF Suffers
<1> QED
  BY <1>1, <1>2, <1>3 DEF Kept, Call

-----------------------------------------------------------------------------
(* The three kinds of steps.                                               *)

(* A step that only its own call can notice.                               *)
LEMMA QuietStep ==
  ASSUME UpInv, NEW p \in Procs, NEW c \in Call, Becomes(p, c), NoFault,
         MachineType', Gentle, StageInv(p)', CalmInv(p)', AloneInv(p)'
  PROVE  UpInv'
<1>1. /\ call' \in [Procs -> Call]
      /\ \A q \in Procs \ {p} : Kept(p, q) /\ call'[q].calm = call[q].calm
  BY BecomesCall DEF UpInv
<1>2. TypeOK'
  BY <1>1 DEF UpInv, TypeOK, MachineType, NoFault
<1>3. ASSUME NEW q \in Procs \ {p}
      PROVE  StageInv(q)' /\ CalmInv(q)' /\ AloneInv(q)'
  <2>1. StageInv(q) /\ CalmInv(q)
    BY DEF UpInv, CallsInv
  <2>2. StageInv(q)'
    BY <1>1, <2>1 DEF StageInv, Kept
  <2>3. CalmInv(q)'
    BY <1>1, <2>1 DEF CalmInv, Kept, Gentle, Reachable
  <2>4. AloneInv(q)'
    BY <1>1 DEF AloneInv, Kept
  <2> QED
    BY <2>2, <2>3, <2>4
<1> QED
  BY <1>2, <1>3 DEF UpInv, CallsInv

(* A step of down that others do notice.                                   *)
LEMMA DisturbingStep ==
  ASSUME UpInv, NEW p \in Procs, NEW c \in Call, Disturbs(p, c),
         MachineType', StageInv(p)', CalmInv(p)', AloneInv(p)'
  PROVE  UpInv'
<1>1. /\ call' \in [Procs -> Call]
      /\ \A q \in Procs \ {p} : Kept(p, q) /\ ~call'[q].calm
  BY DisturbsCall DEF UpInv
<1>2. TypeOK'
  BY <1>1 DEF UpInv, TypeOK, MachineType, Disturbs, NoFault
<1>3. ASSUME NEW q \in Procs \ {p}
      PROVE  StageInv(q)' /\ CalmInv(q)' /\ AloneInv(q)'
  BY <1>1 DEF UpInv, CallsInv, StageInv, CalmInv, AloneInv, Kept
<1> QED
  BY <1>2, <1>3 DEF UpInv, CallsInv

(* A fault.                                                                *)
LEMMA FaultyStep ==
  ASSUME UpInv, NEW p \in Procs, NEW c \in Call, Suffers(p, c), MachineType',
         \/ c.pc = "ended" \/ c.pc = "idle"
         \/ c.op = "up" /\ c.pc \in {"pubkey", "create"} /\ c.tries = 0
         \/ c.op = "up" /\ c.pc = "exec" /\ c.tries < Tries
         \/ c.op = "down" /\ c.pc = "unmark"
  PROVE  UpInv'
<1>1. /\ call' \in [Procs -> Call]
      /\ call'[p].op = c.op /\ call'[p].pc = c.pc /\ call'[p].tries = c.tries
      /\ ~call'[p].calm /\ ~call'[p].alone
      /\ \A q \in Procs \ {p} : Kept(p, q) /\ ~call'[q].calm
  BY SuffersCall DEF UpInv
<1>2. TypeOK'
  <2>1. faults' \in 0 .. MaxFaults
    <3>1. faults < MaxFaults /\ faults' = faults + 1
      BY DEF Suffers, Fault
    <3>2. faults \in 0 .. MaxFaults
      BY DEF UpInv, TypeOK
    <3> QED
      BY <3>1, <3>2, UpAssumption
  <2>2. call' \in [Procs -> Call]
    BY <1>1
  <2> QED
    BY <2>1, <2>2 DEF TypeOK, MachineType
<1>3. StageInv(p)' /\ CalmInv(p)' /\ AloneInv(p)'
  BY <1>1 DEF StageInv, CalmInv, AloneInv
<1>4. ASSUME NEW q \in Procs \ {p}
      PROVE  StageInv(q)' /\ CalmInv(q)' /\ AloneInv(q)'
  BY <1>1 DEF UpInv, CallsInv, StageInv, CalmInv, AloneInv, Kept
<1> QED
  BY <1>2, <1>3, <1>4 DEF UpInv, CallsInv

LEMMA BreakStep ==
  ASSUME UpInv, NEW p \in Procs, Breaks(p), MachineType'
  PROVE  UpInv'
<1> DEFINE c == [call[p] EXCEPT !.pc = "ended", !.result = "error"]
<1>1. c \in Call /\ c.pc = "ended"
  BY DEF UpInv, TypeOK, Call, Pc
<1> QED
  BY <1>1, FaultyStep DEF Breaks
-----------------------------------------------------------------------------
(* The actions of up.                                                      *)

(* What p has after going on to stage pc, or after ending with a result.   *)
LEMMA GoesCall ==
  ASSUME TypeOK, NEW p \in Procs, NEW pc \in Pc, Goes(p, pc)
  PROVE  \E c \in Call :
            /\ Becomes(p, c) /\ call'[p] = c
            /\ c.op = call[p].op /\ c.pc = pc /\ c.tries = call[p].tries
            /\ c.result = call[p].result
            /\ c.calm = call[p].calm /\ c.alone = call[p].alone
<1> DEFINE c == [call[p] EXCEPT !.pc = pc]
<1>1. /\ c \in Call
      /\ c.op = call[p].op /\ c.pc = pc /\ c.tries = call[p].tries
      /\ c.result = call[p].result
      /\ c.calm = call[p].calm /\ c.alone = call[p].alone
  BY DEF TypeOK, Call
<1> QED
  BY <1>1, BecomesCall DEF Goes

LEMMA EndsCall ==
  ASSUME TypeOK, NEW p \in Procs,
         NEW r \in {"ok", "needs_repair", "blocked", "error"},
         Ends(p, r)
  PROVE  \E c \in Call :
            /\ Becomes(p, c) /\ call'[p] = c
            /\ c.op = call[p].op /\ c.pc = "ended" /\ c.tries = call[p].tries
            /\ c.result = r
            /\ c.calm = call[p].calm /\ c.alone = call[p].alone
<1> DEFINE c == [call[p] EXCEPT !.pc = "ended", !.result = r]
<1>1. /\ c \in Call
      /\ c.op = call[p].op /\ c.pc = "ended" /\ c.tries = call[p].tries
      /\ c.result = r
      /\ c.calm = call[p].calm /\ c.alone = call[p].alone
  BY DEF TypeOK, Call, Pc
<1> QED
  BY <1>1, BecomesCall DEF Ends

LEMMA CheckLoginStep ==
  ASSUME UpInv, NEW p \in Procs, CheckLogin(p)
  PROVE  UpInv'
<1>1. call[p].pc = "ssh" /\ UNCHANGED machine
  BY DEF CheckLogin, At
<1>2. MachineType' /\ Gentle
  BY <1>1 DEF UpInv, TypeOK, MachineType, Gentle, machine
<1>3. StageInv(p) /\ call[p] \in Call
  BY DEF UpInv, CallsInv, TypeOK
<1>4. CASE keys /\ Goes(p, AfterLogin) /\ NoFault
  <2>1. kind \in {"container", "ssh"}
    BY DEF UpInv, TypeOK
  <2>2. PICK c \in Call :
           /\ Becomes(p, c) /\ call'[p] = c
           /\ c.op = call[p].op /\ c.pc = AfterLogin /\ c.tries = call[p].tries
           /\ c.calm = call[p].calm /\ c.alone = call[p].alone
    BY <1>4, GoesCall DEF UpInv, AfterLogin, Pc
  <2>3. StageInv(p)' /\ AloneInv(p)'
    BY <1>1, <1>3, <2>2 DEF StageInv, AloneInv, AfterLogin, Done, At
  <2>4. CalmInv(p)'
    BY <1>1, <1>4, <2>1, <2>2 DEF CalmInv, AfterLogin, Reachable, machine
  <2> QED
    BY <1>2, <1>4, <2>2, <2>3, <2>4, QuietStep
<1>5. CASE ~keys /\ call[p].password /\ Goes(p, "pubkey") /\ NoFault
  <2>1. PICK c \in Call :
           /\ Becomes(p, c) /\ call'[p] = c
           /\ c.op = call[p].op /\ c.pc = "pubkey" /\ c.tries = call[p].tries
           /\ c.calm = call[p].calm /\ c.alone = call[p].alone
    BY <1>5, GoesCall DEF UpInv, Pc
  <2>2. StageInv(p)' /\ AloneInv(p)' /\ CalmInv(p)'
    BY <1>1, <1>3, <2>1 DEF StageInv, AloneInv, CalmInv, Done, At
  <2> QED
    BY <1>2, <1>5, <2>1, <2>2, QuietStep
<1>6. CASE ~keys /\ Ends(p, "error") /\ NoFault
  <2>1. PICK c \in Call :
           /\ Becomes(p, c) /\ call'[p] = c
           /\ c.op = call[p].op /\ c.pc = "ended" /\ c.result = "error"
           /\ c.calm = call[p].calm /\ c.alone = call[p].alone
    BY <1>6, EndsCall DEF UpInv
  <2>2. StageInv(p)' /\ AloneInv(p)' /\ CalmInv(p)'
    BY <1>1, <1>3, <1>6, <2>1 DEF StageInv, AloneInv, CalmInv, Done, At, machine
  <2> QED
    BY <1>2, <1>6, <2>1, <2>2, QuietStep
<1>7. CASE Suffers(p, [call[p] EXCEPT !.pc = "pubkey"])
  <2> DEFINE c == [call[p] EXCEPT !.pc = "pubkey"]
  <2>1. c \in Call /\ c.op = "up" /\ c.pc = "pubkey" /\ c.tries = 0
    BY <1>1, <1>3 DEF StageInv, Call, Pc
  <2> HIDE DEF c
  <2> QED
    BY <1>2, <1>7, <2>1, FaultyStep DEF c
<1>8. CASE Breaks(p)
  BY <1>2, <1>8, BreakStep
<1> QED
  BY <1>4, <1>5, <1>6, <1>7, <1>8 DEF CheckLogin

LEMMA PushKeyStep ==
  ASSUME UpInv, NEW p \in Procs, PushKey(p)
  PROVE  UpInv'
<1>1. /\ call[p].pc = "pubkey"
      /\ keys' = TRUE
      /\ UNCHANGED <<kind, image, cont, writable, ws, marker>>
  BY DEF PushKey, At
<1>2. MachineType' /\ Gentle
  BY <1>1 DEF UpInv, TypeOK, MachineType, Gentle, machine, Cont
<1>3. StageInv(p) /\ CalmInv(p) /\ AloneInv(p) /\ call[p] \in Call
  BY DEF UpInv, CallsInv, TypeOK
<1>4. kind \in {"container", "ssh"}
  BY DEF UpInv, TypeOK
<1>5. CASE Goes(p, AfterLogin) /\ NoFault
  <2>1. PICK c \in Call :
           /\ Becomes(p, c) /\ call'[p] = c
           /\ c.op = call[p].op /\ c.pc = AfterLogin /\ c.tries = call[p].tries
           /\ c.calm = call[p].calm /\ c.alone = call[p].alone
    BY <1>5, GoesCall DEF UpInv, AfterLogin, Pc
  <2>2. StageInv(p)' /\ AloneInv(p)' /\ CalmInv(p)'
    BY <1>1, <1>3, <1>4, <2>1
       DEF StageInv, AloneInv, CalmInv, AfterLogin, Done, At, Reachable
  <2> QED
    BY <1>2, <1>5, <2>1, <2>2, QuietStep
<1>6. CASE Breaks(p)
  BY <1>2, <1>6, BreakStep
<1> QED
  BY <1>5, <1>6 DEF PushKey, Answered

LEMMA EnsureImageStep ==
  ASSUME UpInv, NEW p \in Procs, EnsureImage(p)
  PROVE  UpInv'
<1>1. /\ call[p].pc = "image"
      /\ keys
      /\ image' = TRUE
      /\ UNCHANGED <<kind, keys, cont, writable, ws, marker>>
  BY DEF EnsureImage, At
<1>2. MachineType' /\ Gentle
  BY <1>1 DEF UpInv, TypeOK, MachineType, Gentle, machine, Cont
<1>3. StageInv(p) /\ CalmInv(p) /\ AloneInv(p) /\ call[p] \in Call
  BY DEF UpInv, CallsInv, TypeOK
<1>4. CASE Goes(p, "inspect") /\ NoFault
  <2>1. PICK c \in Call :
           /\ Becomes(p, c) /\ call'[p] = c
           /\ c.op = call[p].op /\ c.pc = "inspect" /\ c.tries = call[p].tries
           /\ c.calm = call[p].calm /\ c.alone = call[p].alone
    BY <1>4, GoesCall DEF UpInv, Pc
  <2>2. StageInv(p)' /\ AloneInv(p)' /\ CalmInv(p)'
    BY <1>1, <1>3, <1>4, <2>1
       DEF StageInv, AloneInv, CalmInv, Done, At, Reachable, machine
  <2> QED
    BY <1>2, <1>4, <2>1, <2>2, QuietStep
<1>5. CASE Breaks(p)
  BY <1>2, <1>5, BreakStep
<1> QED
  BY <1>4, <1>5 DEF EnsureImage, Answered

LEMMA InspectStep ==
  ASSUME UpInv, NEW p \in Procs, Inspect(p)
  PROVE  UpInv'
<1>1. call[p].pc = "inspect" /\ keys /\ UNCHANGED machine
  BY DEF Inspect, At
<1>2. MachineType' /\ Gentle
  BY <1>1 DEF UpInv, TypeOK, MachineType, Gentle, machine, Cont
<1>3. StageInv(p) /\ CalmInv(p) /\ AloneInv(p) /\ call[p] \in Call
  BY DEF UpInv, CallsInv, TypeOK
<1>4. CASE cont = "none" /\ Goes(p, "create") /\ NoFault
  <2>1. PICK c \in Call :
           /\ Becomes(p, c) /\ call'[p] = c
           /\ c.op = call[p].op /\ c.pc = "create" /\ c.tries = call[p].tries
           /\ c.calm = call[p].calm /\ c.alone = call[p].alone
    BY <1>4, GoesCall DEF UpInv, Pc
  <2>2. StageInv(p)' /\ AloneInv(p)' /\ CalmInv(p)'
    BY <1>1, <1>3, <1>4, <2>1
       DEF StageInv, AloneInv, CalmInv, Done, At, Reachable, machine
  <2> QED
    BY <1>2, <1>4, <2>1, <2>2, QuietStep
<1>5. CASE cont = "stopped" /\ Ends(p, "needs_repair") /\ NoFault
  <2>1. PICK c \in Call :
           /\ Becomes(p, c) /\ call'[p] = c
           /\ c.op = call[p].op /\ c.pc = "ended" /\ c.tries = call[p].tries
           /\ c.calm = call[p].calm /\ c.alone = call[p].alone
           /\ c.result = "needs_repair"
    BY <1>5, EndsCall DEF UpInv
  <2>2. StageInv(p)' /\ AloneInv(p)' /\ CalmInv(p)'
    BY <1>1, <1>3, <1>5, <2>1
       DEF StageInv, AloneInv, CalmInv, Done, At, Reachable, machine
  <2> QED
    BY <1>2, <1>5, <2>1, <2>2, QuietStep
<1>6. CASE cont \in {"starting", "running"} /\ Goes(p, "exec") /\ NoFault
  <2>1. PICK c \in Call :
           /\ Becomes(p, c) /\ call'[p] = c
           /\ c.op = call[p].op /\ c.pc = "exec" /\ c.tries = call[p].tries
           /\ c.calm = call[p].calm /\ c.alone = call[p].alone
    BY <1>6, GoesCall DEF UpInv, Pc
  <2>2. StageInv(p)' /\ AloneInv(p)' /\ CalmInv(p)'
    BY <1>1, <1>3, <1>6, <2>1, UpAssumption
       DEF StageInv, AloneInv, CalmInv, Done, At, Reachable, machine
  <2> QED
    BY <1>2, <1>6, <2>1, <2>2, QuietStep
<1>7. CASE Suffers(p, [call[p] EXCEPT !.pc = "create"])
  <2> DEFINE c == [call[p] EXCEPT !.pc = "create"]
  <2>1. c \in Call /\ c.op = "up" /\ c.pc = "create" /\ c.tries = 0
    BY <1>1, <1>3 DEF StageInv, Call, Pc
  <2> HIDE DEF c
  <2> QED
    BY <1>2, <1>7, <2>1, FaultyStep DEF c
<1> QED
  BY <1>4, <1>5, <1>6, <1>7 DEF Inspect

LEMMA CreateStep ==
  ASSUME UpInv, NEW p \in Procs, Create(p)
  PROVE  UpInv'
<1>1. /\ call[p].pc = "create"
      /\ keys
      /\ UNCHANGED <<kind, keys, image, writable, ws, marker>>
      /\ cont' = (IF cont = "none" THEN "starting" ELSE cont)
  BY DEF Create, At
<1>2. MachineType' /\ Gentle
  BY <1>1 DEF UpInv, TypeOK, MachineType, Gentle, machine, Cont
<1>3. StageInv(p) /\ CalmInv(p) /\ AloneInv(p) /\ call[p] \in Call
  BY DEF UpInv, CallsInv, TypeOK
<1>4. CASE cont = "none" /\ Goes(p, "exec") /\ NoFault
  <2>1. PICK c \in Call :
           /\ Becomes(p, c) /\ call'[p] = c
           /\ c.op = call[p].op /\ c.pc = "exec" /\ c.tries = call[p].tries
           /\ c.calm = call[p].calm /\ c.alone = call[p].alone
    BY <1>4, GoesCall DEF UpInv, Pc
  <2>2. StageInv(p)' /\ AloneInv(p)' /\ CalmInv(p)'
    BY <1>1, <1>3, <1>4, <2>1, UpAssumption
       DEF StageInv, AloneInv, CalmInv, Done, At, Reachable, machine
  <2> QED
    BY <1>2, <1>4, <2>1, <2>2, QuietStep
<1>5. CASE Breaks(p)
  BY <1>2, <1>5, BreakStep
<1>6. CASE cont # "none" /\ Ends(p, "error") /\ NoFault
  <2>1. PICK c \in Call :
           /\ Becomes(p, c) /\ call'[p] = c
           /\ c.op = call[p].op /\ c.pc = "ended" /\ c.tries = call[p].tries
           /\ c.calm = call[p].calm /\ c.alone = call[p].alone
           /\ c.result = "error"
    BY <1>6, EndsCall DEF UpInv
  <2>2. StageInv(p)' /\ AloneInv(p)' /\ CalmInv(p)'
    BY <1>1, <1>3, <1>6, <2>1
       DEF StageInv, AloneInv, CalmInv, Done, At, Reachable, machine
  <2> QED
    BY <1>2, <1>6, <2>1, <2>2, QuietStep
<1> QED
  BY <1>4, <1>5, <1>6 DEF Create, Answered

LEMMA WriteEndpointStep ==
  ASSUME UpInv, NEW p \in Procs, WriteEndpoint(p)
  PROVE  UpInv'
<1>1. /\ call[p].pc = "marker"
      /\ marker' = TRUE
      /\ UNCHANGED <<kind, keys, image, cont, writable, ws>>
      /\ NoFault
  BY DEF WriteEndpoint, At
<1>2. MachineType' /\ Gentle
  BY <1>1 DEF UpInv, TypeOK, MachineType, Gentle, machine, Cont
<1>3. StageInv(p) /\ CalmInv(p) /\ AloneInv(p) /\ call[p] \in Call
  BY DEF UpInv, CallsInv, TypeOK
<1>4. CASE Goes(p, "init")
  <2>1. PICK c \in Call :
           /\ Becomes(p, c) /\ call'[p] = c
           /\ c.op = call[p].op /\ c.pc = "init" /\ c.tries = call[p].tries
           /\ c.calm = call[p].calm /\ c.alone = call[p].alone
    BY <1>4, GoesCall DEF UpInv, Pc
  <2>2. StageInv(p)' /\ AloneInv(p)' /\ CalmInv(p)'
    BY <1>1, <1>3, <1>4, <2>1
       DEF StageInv, AloneInv, CalmInv, Done, At, Reachable, machine
  <2> QED
    BY <1>1, <1>2, <1>4, <2>1, <2>2, QuietStep
<1> QED
  BY <1>4 DEF WriteEndpoint

LEMMA InitWorkspaceStep ==
  ASSUME UpInv, NEW p \in Procs, InitWorkspace(p)
  PROVE  UpInv'
<1>1. /\ call[p].pc = "init"
      /\ UNCHANGED <<kind, keys, image, cont, writable, marker>>
      /\ ws' = (IF Reachable /\ writable THEN "ready" ELSE ws)
  BY DEF InitWorkspace, At
<1>2. MachineType' /\ Gentle
  BY <1>1 DEF UpInv, TypeOK, MachineType, Gentle, machine, Cont
<1>3. StageInv(p) /\ CalmInv(p) /\ AloneInv(p) /\ call[p] \in Call
  BY DEF UpInv, CallsInv, TypeOK
<1>4. CASE Reachable /\ Ends(p, "ok") /\ NoFault
  <2>1. PICK c \in Call :
           /\ Becomes(p, c) /\ call'[p] = c
           /\ c.op = call[p].op /\ c.pc = "ended" /\ c.tries = call[p].tries
           /\ c.calm = call[p].calm /\ c.alone = call[p].alone
           /\ c.result = "ok"
    BY <1>4, EndsCall DEF UpInv
  <2>2. StageInv(p)' /\ AloneInv(p)' /\ CalmInv(p)'
    BY <1>1, <1>3, <1>4, <2>1
       DEF StageInv, AloneInv, CalmInv, Done, At, Reachable, machine
  <2> QED
    BY <1>2, <1>4, <2>1, <2>2, QuietStep
<1>5. CASE Breaks(p)
  BY <1>2, <1>5, BreakStep
<1>6. CASE ~Reachable /\ Ends(p, "error") /\ NoFault
  <2>1. PICK c \in Call :
           /\ Becomes(p, c) /\ call'[p] = c
           /\ c.op = call[p].op /\ c.pc = "ended" /\ c.tries = call[p].tries
           /\ c.calm = call[p].calm /\ c.alone = call[p].alone
           /\ c.result = "error"
    BY <1>6, EndsCall DEF UpInv
  <2>2. StageInv(p)' /\ AloneInv(p)' /\ CalmInv(p)'
    BY <1>1, <1>3, <1>6, <2>1
       DEF StageInv, AloneInv, CalmInv, Done, At, Reachable, machine
  <2> QED
    BY <1>2, <1>6, <2>1, <2>2, QuietStep
<1> QED
  BY <1>4, <1>5, <1>6 DEF InitWorkspace

LEMMA WaitExecStep ==
  ASSUME UpInv, NEW p \in Procs, WaitExec(p)
  PROVE  UpInv'
<1>1. call[p].pc = "exec" /\ UNCHANGED machine
  BY DEF WaitExec, At
<1>2. MachineType' /\ Gentle
  BY <1>1 DEF UpInv, TypeOK, MachineType, Gentle, machine, Cont
<1>3. StageInv(p) /\ CalmInv(p) /\ AloneInv(p) /\ call[p] \in Call
  BY DEF UpInv, CallsInv, TypeOK
<1>4. CASE Reachable /\ Goes(p, "marker") /\ NoFault
  <2>1. PICK c \in Call :
           /\ Becomes(p, c) /\ call'[p] = c
           /\ c.op = call[p].op /\ c.pc = "marker" /\ c.tries = call[p].tries
           /\ c.calm = call[p].calm /\ c.alone = call[p].alone
    BY <1>4, GoesCall DEF UpInv, Pc
  <2>2. StageInv(p)' /\ AloneInv(p)' /\ CalmInv(p)'
    BY <1>1, <1>3, <1>4, <2>1
       DEF StageInv, AloneInv, CalmInv, Done, At, Reachable, machine
  <2> QED
    BY <1>2, <1>4, <2>1, <2>2, QuietStep
<1>5. /\ Tried(p) \in Call /\ Tried(p).op = "up"
      /\ Tried(p).calm = call[p].calm /\ Tried(p).alone = call[p].alone
      /\ Tried(p).tries = call[p].tries + 1
      /\ \/ Tried(p).pc = "exec" /\ Tried(p).tries < Tries
         \/ /\ Tried(p).pc = "ended" /\ Tried(p).result = "error"
            /\ Tried(p).tries = Tries
  <2> DEFINE next == [call[p] EXCEPT !.tries = @ + 1]
  <2>1. call[p].op = "up" /\ call[p].tries \in Nat /\ call[p].tries < Tries
    BY <1>1, <1>3, UpAssumption DEF StageInv, Call
  <2>2. /\ next \in Call /\ next.op = "up" /\ next.pc = "exec"
        /\ next.tries = call[p].tries + 1
        /\ next.calm = call[p].calm /\ next.alone = call[p].alone
    <3>1. call[p].tries + 1 \in 0 .. Tries
      BY <2>1, UpAssumption
    <3> QED
      BY <1>1, <1>3, <2>1, <3>1 DEF Call
  <2> HIDE DEF next
  <2>3. Tried(p) = IF next.tries < Tries THEN next
                   ELSE [next EXCEPT !.pc = "ended", !.result = "error"]
    BY DEF Tried, next
  <2>4. CASE next.tries < Tries
    BY <2>2, <2>3, <2>4
  <2>5. CASE ~(next.tries < Tries)
    <3>1. next.tries = Tries
      BY <2>1, <2>2, <2>5, UpAssumption
    <3> QED
      BY <2>2, <2>3, <2>5, <3>1 DEF Call, Pc
  <2> QED
    BY <2>4, <2>5
<1>6. CASE ~Reachable /\ Becomes(p, Tried(p)) /\ NoFault
  <2>1. call'[p] = Tried(p)
    BY <1>5, <1>6, BecomesCall DEF UpInv
  <2>2. StageInv(p)' /\ AloneInv(p)' /\ CalmInv(p)'
    BY <1>1, <1>3, <1>5, <1>6, <2>1
       DEF StageInv, AloneInv, CalmInv, Done, At, machine
  <2> QED
    BY <1>2, <1>5, <1>6, <2>2, QuietStep
<1>7. CASE Suffers(p, Tried(p))
  BY <1>2, <1>5, <1>7, FaultyStep
<1> QED
  BY <1>4, <1>6, <1>7 DEF WaitExec

LEMMA FindContainerStep ==
  ASSUME UpInv, NEW p \in Procs, FindContainer(p)
  PROVE  UpInv'
<1>1. call[p].pc = "find" /\ UNCHANGED machine
  BY DEF FindContainer, At
<1>2. MachineType' /\ Gentle
  BY <1>1 DEF UpInv, TypeOK, MachineType, Gentle, machine, Cont
<1>3. StageInv(p) /\ CalmInv(p) /\ AloneInv(p) /\ call[p] \in Call
  BY DEF UpInv, CallsInv, TypeOK
<1>4. CASE kind = "ssh" /\ Ends(p, "ok") /\ NoFault
  <2>1. PICK c \in Call :
           /\ Becomes(p, c) /\ call'[p] = c
           /\ c.op = call[p].op /\ c.pc = "ended" /\ c.tries = call[p].tries
           /\ c.calm = call[p].calm /\ c.alone = call[p].alone
           /\ c.result = "ok"
    BY <1>4, EndsCall DEF UpInv
  <2>2. StageInv(p)' /\ AloneInv(p)' /\ CalmInv(p)'
    BY <1>1, <1>3, <1>4, <2>1
       DEF StageInv, AloneInv, CalmInv, Done, At, Reachable, machine
  <2> QED
    BY <1>2, <1>4, <2>1, <2>2, QuietStep
<1>5. CASE kind = "container" /\ ~keys /\ Ends(p, "error") /\ NoFault
  <2>1. PICK c \in Call :
           /\ Becomes(p, c) /\ call'[p] = c
           /\ c.op = call[p].op /\ c.pc = "ended" /\ c.tries = call[p].tries
           /\ c.calm = call[p].calm /\ c.alone = call[p].alone
           /\ c.result = "error"
    BY <1>5, EndsCall DEF UpInv
  <2>2. StageInv(p)' /\ AloneInv(p)' /\ CalmInv(p)'
    BY <1>1, <1>3, <1>5, <2>1
       DEF StageInv, AloneInv, CalmInv, Done, At, Reachable, machine
  <2> QED
    BY <1>2, <1>5, <2>1, <2>2, QuietStep
<1>6. CASE cont = "none" /\ Goes(p, "unmark") /\ NoFault
  <2>1. PICK c \in Call :
           /\ Becomes(p, c) /\ call'[p] = c
           /\ c.op = call[p].op /\ c.pc = "unmark" /\ c.tries = call[p].tries
           /\ c.calm = call[p].calm /\ c.alone = call[p].alone
    BY <1>6, GoesCall DEF UpInv, Pc
  <2>2. StageInv(p)' /\ AloneInv(p)' /\ CalmInv(p)'
    BY <1>1, <1>3, <1>6, <2>1
       DEF StageInv, AloneInv, CalmInv, Done, At, Reachable, machine
  <2> QED
    BY <1>2, <1>6, <2>1, <2>2, QuietStep
<1>7. CASE cont # "none" /\ Goes(p, "remove") /\ NoFault
  <2>1. PICK c \in Call :
           /\ Becomes(p, c) /\ call'[p] = c
           /\ c.op = call[p].op /\ c.pc = "remove" /\ c.tries = call[p].tries
           /\ c.calm = call[p].calm /\ c.alone = call[p].alone
    BY <1>7, GoesCall DEF UpInv, Pc
  <2>2. StageInv(p)' /\ AloneInv(p)' /\ CalmInv(p)'
    BY <1>1, <1>3, <1>7, <2>1
       DEF StageInv, AloneInv, CalmInv, Done, At, Reachable, machine
  <2> QED
    BY <1>2, <1>7, <2>1, <2>2, QuietStep
<1>8. CASE Suffers(p, [call[p] EXCEPT !.pc = "unmark"])
  <2> DEFINE c == [call[p] EXCEPT !.pc = "unmark"]
  <2>1. c \in Call /\ c.op = "down" /\ c.pc = "unmark"
    BY <1>1, <1>3 DEF StageInv, Call, Pc
  <2> HIDE DEF c
  <2> QED
    BY <1>2, <1>8, <2>1, FaultyStep DEF c
<1> QED
  BY <1>4, <1>5, <1>6, <1>7, <1>8 DEF FindContainer

LEMMA RemoveContainerStep ==
  ASSUME UpInv, NEW p \in Procs, RemoveContainer(p)
  PROVE  UpInv'
<1>1. /\ call[p].pc = "remove"
      /\ cont' = "none"
      /\ ws' \in {"absent", "dir"}
      /\ UNCHANGED <<kind, keys, image, writable, marker>>
  BY DEF RemoveContainer, At
<1>2. MachineType'
  BY <1>1 DEF UpInv, TypeOK, MachineType, machine, Cont
<1>3. StageInv(p) /\ CalmInv(p) /\ AloneInv(p) /\ call[p] \in Call
  BY DEF UpInv, CallsInv, TypeOK
<1>4. CASE Disturbs(p, [call[p] EXCEPT !.pc = "unmark"])
  <2> DEFINE c == [call[p] EXCEPT !.pc = "unmark"]
  <2>1. /\ c \in Call /\ c.op = "down" /\ c.pc = "unmark"
        /\ c.calm = call[p].calm /\ c.alone = call[p].alone
    BY <1>1, <1>3 DEF StageInv, Call, Pc
  <2> HIDE DEF c
  <2>2. Disturbs(p, c)
    BY <1>4 DEF c
  <2>3. call'[p] = c
    BY <2>1, <2>2, DisturbsCall DEF UpInv
  <2>4. StageInv(p)' /\ AloneInv(p)' /\ CalmInv(p)'
    BY <1>1, <1>3, <2>1, <2>3 DEF StageInv, AloneInv, CalmInv, Done, At
  <2> QED
    BY <1>2, <2>1, <2>2, <2>4, DisturbingStep
<1>5. CASE Breaks(p)
  BY <1>2, <1>5, BreakStep
<1> QED
  BY <1>4, <1>5 DEF RemoveContainer

LEMMA RemoveEndpointStep ==
  ASSUME UpInv, NEW p \in Procs, RemoveEndpoint(p)
  PROVE  UpInv'
<1>1. /\ call[p].pc = "unmark"
      /\ marker' = FALSE
      /\ UNCHANGED <<kind, keys, image, cont, writable, ws>>
  BY DEF RemoveEndpoint, At
<1>2. MachineType'
  BY <1>1 DEF UpInv, TypeOK, MachineType, machine, Cont
<1>3. StageInv(p) /\ CalmInv(p) /\ AloneInv(p) /\ call[p] \in Call
  BY DEF UpInv, CallsInv, TypeOK
<1>4. CASE Disturbs(p, [call[p] EXCEPT !.pc = "ended", !.result = "ok"])
  <2> DEFINE c == [call[p] EXCEPT !.pc = "ended", !.result = "ok"]
  <2>1. /\ c \in Call /\ c.op = "down" /\ c.pc = "ended"
        /\ c.calm = call[p].calm /\ c.alone = call[p].alone
    BY <1>1, <1>3 DEF StageInv, Call, Pc
  <2> HIDE DEF c
  <2>2. Disturbs(p, c)
    BY <1>4 DEF c
  <2>3. call'[p] = c
    BY <2>1, <2>2, DisturbsCall DEF UpInv
  <2>4. StageInv(p)' /\ AloneInv(p)' /\ CalmInv(p)'
    BY <1>1, <1>3, <2>1, <2>3 DEF StageInv, AloneInv, CalmInv, Done, At
  <2> QED
    BY <1>2, <2>1, <2>2, <2>4, DisturbingStep
<1> QED
  BY <1>4 DEF RemoveEndpoint

LEMMA EnsureUpStep ==
  ASSUME UpInv, NEW p \in Procs, EnsureUp(p)
  PROVE  UpInv'
<1>1. call[p].pc = "check" /\ UNCHANGED machine /\ NoFault
  BY DEF EnsureUp, At
<1>2. MachineType' /\ Gentle
  BY <1>1 DEF UpInv, TypeOK, MachineType, Gentle, machine, Cont
<1>3. StageInv(p) /\ CalmInv(p) /\ AloneInv(p) /\ call[p] \in Call
  BY DEF UpInv, CallsInv, TypeOK
<1>4. CASE Goes(p, "use")
  <2>1. PICK c \in Call :
           /\ Becomes(p, c) /\ call'[p] = c
           /\ c.op = call[p].op /\ c.pc = "use" /\ c.tries = call[p].tries
           /\ c.calm = call[p].calm /\ c.alone = call[p].alone
    BY <1>4, GoesCall DEF UpInv, Pc
  <2>2. StageInv(p)' /\ AloneInv(p)' /\ CalmInv(p)'
    BY <1>1, <1>3, <1>4, <2>1
       DEF StageInv, AloneInv, CalmInv, Done, At, Reachable, machine
  <2> QED
    BY <1>1, <1>2, <1>4, <2>1, <2>2, QuietStep
<1>5. CASE Ends(p, "blocked")
  <2>1. PICK c \in Call :
           /\ Becomes(p, c) /\ call'[p] = c
           /\ c.op = call[p].op /\ c.pc = "ended" /\ c.tries = call[p].tries
           /\ c.calm = call[p].calm /\ c.alone = call[p].alone
           /\ c.result = "blocked"
    BY <1>5, EndsCall DEF UpInv
  <2>2. StageInv(p)' /\ AloneInv(p)' /\ CalmInv(p)'
    BY <1>1, <1>3, <1>5, <2>1
       DEF StageInv, AloneInv, CalmInv, Done, At, Reachable, machine
  <2> QED
    BY <1>1, <1>2, <1>5, <2>1, <2>2, QuietStep
<1>6. CASE Ends(p, "error")
  <2>1. PICK c \in Call :
           /\ Becomes(p, c) /\ call'[p] = c
           /\ c.op = call[p].op /\ c.pc = "ended" /\ c.tries = call[p].tries
           /\ c.calm = call[p].calm /\ c.alone = call[p].alone
           /\ c.result = "error"
    BY <1>6, EndsCall DEF UpInv
  <2>2. StageInv(p)' /\ AloneInv(p)' /\ CalmInv(p)'
    BY <1>1, <1>3, <1>6, <2>1
       DEF StageInv, AloneInv, CalmInv, Done, At, Reachable, machine
  <2> QED
    BY <1>1, <1>2, <1>6, <2>1, <2>2, QuietStep
<1> QED
  BY <1>4, <1>5, <1>6 DEF EnsureUp

LEMMA UseWorkspaceStep ==
  ASSUME UpInv, NEW p \in Procs, UseWorkspace(p)
  PROVE  UpInv'
<1>1. /\ call[p].pc = "use"
      /\ UNCHANGED <<kind, keys, image, cont, writable, marker>>
      /\ NoFault
      /\ ws' \in {ws, IF ws = "absent" THEN "dir" ELSE ws}
  BY DEF UseWorkspace, At
<1>2. MachineType' /\ Gentle
  BY <1>1 DEF UpInv, TypeOK, MachineType, Gentle, machine, Cont
<1>3. StageInv(p) /\ CalmInv(p) /\ AloneInv(p) /\ call[p] \in Call
  BY DEF UpInv, CallsInv, TypeOK
<1>4. CASE Ends(p, "ok")
  <2>1. PICK c \in Call :
           /\ Becomes(p, c) /\ call'[p] = c
           /\ c.op = call[p].op /\ c.pc = "ended" /\ c.tries = call[p].tries
           /\ c.calm = call[p].calm /\ c.alone = call[p].alone
           /\ c.result = "ok"
    BY <1>4, EndsCall DEF UpInv
  <2>2. StageInv(p)' /\ AloneInv(p)' /\ CalmInv(p)'
    BY <1>1, <1>3, <1>4, <2>1
       DEF StageInv, AloneInv, CalmInv, Done, At, Reachable, machine
  <2> QED
    BY <1>1, <1>2, <1>4, <2>1, <2>2, QuietStep
<1>5. CASE Ends(p, "error")
  <2>1. PICK c \in Call :
           /\ Becomes(p, c) /\ call'[p] = c
           /\ c.op = call[p].op /\ c.pc = "ended" /\ c.tries = call[p].tries
           /\ c.calm = call[p].calm /\ c.alone = call[p].alone
           /\ c.result = "error"
    BY <1>5, EndsCall DEF UpInv
  <2>2. StageInv(p)' /\ AloneInv(p)' /\ CalmInv(p)'
    BY <1>1, <1>3, <1>5, <2>1
       DEF StageInv, AloneInv, CalmInv, Done, At, Reachable, machine
  <2> QED
    BY <1>1, <1>2, <1>5, <2>1, <2>2, QuietStep
<1> QED
  BY <1>4, <1>5 DEF UseWorkspace

-----------------------------------------------------------------------------
(* The other actions.                                                      *)

LEMMA StartStep ==
  ASSUME UpInv, NEW p \in Procs, Start(p)
  PROVE  UpInv'
<1>1. UNCHANGED machine /\ NoFault
  BY DEF Start
<1>2. MachineType' /\ Gentle
  BY <1>1 DEF UpInv, TypeOK, MachineType, Gentle, machine
<1>3. PICK op \in Ops, password \in BOOLEAN :
         Becomes(p, [NoCall EXCEPT
              !.op = op, !.password = password, !.calm = TRUE, !.alone = TRUE,
              !.pc = CASE op = "up"   -> "ssh"
                       [] op = "down" -> "find"
                       [] op = "sync" -> "check"
                       [] op = "run"  -> "use"])
  BY DEF Start
<1> DEFINE pc == CASE op = "up"   -> "ssh"
                   [] op = "down" -> "find"
                   [] op = "sync" -> "check"
                   [] op = "run"  -> "use"
           c == [NoCall EXCEPT !.op = op, !.password = password, !.calm = TRUE,
                               !.alone = TRUE, !.pc = pc]
<1>4. \/ op = "up" /\ pc = "ssh"
      \/ op = "down" /\ pc = "find"
      \/ op = "sync" /\ pc = "check"
      \/ op = "run" /\ pc = "use"
  <2>1. op \in {"up", "down", "sync", "run"}
    BY UpAssumption
  <2> QED
    BY <2>1
<1> HIDE DEF pc
<1>5. /\ c \in Call /\ c.op = op /\ c.pc = pc /\ c.tries = 0
      /\ c.calm /\ c.alone
  <2>1. pc \in Pc
    BY <1>4 DEF Pc
  <2>2. NoCall.tries = 0
    BY DEF NoCall
  <2> QED
    BY <2>1, <2>2, NoCallType DEF Call
<1>6. Becomes(p, c)
  BY <1>3 DEF pc
<1> HIDE DEF c
<1>7. call'[p] = c
  BY <1>5, <1>6, BecomesCall DEF UpInv
<1>8. StageInv(p)' /\ AloneInv(p)' /\ CalmInv(p)'
  BY <1>4, <1>5, <1>7 DEF StageInv, AloneInv, CalmInv, Done, At
<1> QED
  BY <1>1, <1>2, <1>5, <1>6, <1>8, QuietStep

LEMMA ReturnStep ==
  ASSUME UpInv, NEW p \in Procs, Return(p)
  PROVE  UpInv'
<1>1. UNCHANGED machine /\ NoFault /\ Becomes(p, NoCall)
  BY DEF Return
<1>2. MachineType' /\ Gentle
  BY <1>1 DEF UpInv, TypeOK, MachineType, Gentle, machine
<1>3. call'[p] = NoCall
  BY <1>1, NoCallType, BecomesCall DEF UpInv
<1>4. StageInv(p)' /\ AloneInv(p)' /\ CalmInv(p)'
  BY <1>3 DEF StageInv, AloneInv, CalmInv, NoCall
<1> QED
  BY <1>1, <1>2, <1>4, NoCallType, QuietStep

LEMMA FailStep ==
  ASSUME UpInv, NEW p \in Procs, CallFails(p) \/ Killed(p)
  PROVE  UpInv'
<1>1. UNCHANGED machine
  BY DEF CallFails, Killed
<1>2. MachineType'
  BY <1>1 DEF UpInv, TypeOK, MachineType, machine
<1>3. CASE CallFails(p)
  BY <1>2, <1>3, BreakStep DEF CallFails
<1>4. CASE Killed(p)
  <2>1. NoCall.pc = "idle"
    BY DEF NoCall
  <2> QED
    BY <1>2, <1>4, <2>1, NoCallType, FaultyStep DEF Killed
<1> QED
  BY <1>3, <1>4

LEMMA LoginRefusedStep ==
  ASSUME UpInv, NEW p \in Procs, LoginRefused(p)
  PROVE  UpInv'
<1>1. /\ call[p].pc \in {"image", "inspect", "create", "remove"} /\ ~keys
      /\ UNCHANGED machine /\ NoFault /\ Ends(p, "error")
  BY DEF LoginRefused
<1>2. MachineType' /\ Gentle
  BY <1>1 DEF UpInv, TypeOK, MachineType, Gentle, machine
<1>3. PICK c \in Call :
         /\ Becomes(p, c) /\ call'[p] = c
         /\ c.op = call[p].op /\ c.pc = "ended" /\ c.result = "error"
         /\ c.calm = call[p].calm /\ c.alone = call[p].alone
  BY <1>1, EndsCall DEF UpInv
<1>4. StageInv(p) /\ call[p] \in Call
  BY DEF UpInv, CallsInv, TypeOK
<1>5. StageInv(p)' /\ AloneInv(p)' /\ CalmInv(p)'
  BY <1>1, <1>3, <1>4 DEF StageInv, AloneInv, CalmInv, Done, At, machine
<1> QED
  BY <1>1, <1>2, <1>3, <1>5, QuietStep

LEMMA ReadyStep == UpInv /\ ContainerReady => UpInv'
<1> SUFFICES ASSUME UpInv, ContainerReady PROVE UpInv'
  OBVIOUS
<1>1. cont = "starting" /\ cont' = "running"
      /\ UNCHANGED <<kind, keys, image, writable, ws, marker, call, faults>>
  BY DEF ContainerReady, NoFault
<1>2. TypeOK'
  BY <1>1 DEF UpInv, TypeOK, Cont
<1>3. ASSUME NEW p \in Procs PROVE StageInv(p)' /\ CalmInv(p)' /\ AloneInv(p)'
  BY <1>1 DEF UpInv, CallsInv, StageInv, CalmInv, AloneInv, Done, At, Reachable
<1> QED
  BY <1>2, <1>3 DEF UpInv, CallsInv

LEMMA OthersStep == UpInv /\ OthersAct => UpInv'
<1> SUFFICES ASSUME UpInv, OthersAct PROVE UpInv'
  OBVIOUS
<1>1. \A q \in Procs : call[q] \in Call
  BY DEF UpInv, TypeOK
<1>2. \A q \in Procs : [call[q] EXCEPT !.calm = FALSE, !.alone = FALSE] \in Call
  BY <1>1 DEF Call
<1>3. /\ call' \in [Procs -> Call]
      /\ \A q \in Procs : Kept(q, q) /\ ~call'[q].calm
  BY <1>1, <1>2 DEF OthersAct, Kept, Call
<1>4. faults' \in 0 .. MaxFaults
  <2>1. faults < MaxFaults /\ faults' = faults + 1
    BY DEF OthersAct, Fault
  <2> QED
    BY <2>1, UpAssumption DEF UpInv, TypeOK
<1>5. MachineType'
  BY DEF OthersAct, UpInv, TypeOK, MachineType, Cont
<1>6. TypeOK'
  BY <1>3, <1>4, <1>5 DEF TypeOK, MachineType
<1>7. ASSUME NEW p \in Procs PROVE StageInv(p)' /\ CalmInv(p)' /\ AloneInv(p)'
  BY <1>3 DEF UpInv, CallsInv, StageInv, CalmInv, AloneInv, Kept
<1> QED
  BY <1>6, <1>7 DEF UpInv, CallsInv

LEMMA UpStep == UpInv /\ [Next]_vars => UpInv'
<1> SUFFICES ASSUME UpInv, [Next]_vars PROVE UpInv'
  OBVIOUS
<1>1. CASE UNCHANGED vars
  BY <1>1 DEF UpInv, TypeOK, CallsInv, StageInv, CalmInv, AloneInv, Done, At,
              Reachable, vars, machine
<1>2. ASSUME NEW p \in Procs, Step(p) PROVE UpInv'
  BY <1>2, CheckLoginStep, PushKeyStep, EnsureImageStep, InspectStep, CreateStep,
     WaitExecStep, WriteEndpointStep, InitWorkspaceStep, FindContainerStep,
     RemoveContainerStep, RemoveEndpointStep, EnsureUpStep, UseWorkspaceStep
     DEF Step
<1> QED
  BY <1>1, <1>2, StartStep, ReturnStep, FailStep, LoginRefusedStep, ReadyStep,
     OthersStep DEF Next

-----------------------------------------------------------------------------
LEMMA UpInvariant == Spec => []UpInv
<1> QED
  BY UpInit, UpStep, PTL DEF Spec

(* Every variable keeps its type, the number of tries of _wait_exec        *)
(* included.                                                               *)
THEOREM TypeCorrect == Spec => []TypeOK
<1>1. UpInv => TypeOK
  BY DEF UpInv
<1> QED
  BY <1>1, UpInvariant, PTL

(* An up (machine_up) that returns ok with no fault and no down in between *)
(* has made the machine reachable, with its marker and, where it may write,*)
(* with the workspace, however many other ups overlap with it.             *)
THEOREM OkMeansReady == Spec => []UpMeansReady
<1>1. UpInv => UpMeansReady
  BY DEF UpInv, CallsInv, CalmInv, UpMeansReady, Done, At
<1> QED
  BY <1>1, UpInvariant, PTL

(* An undisturbed up fails only for the two reasons nobody can repair, from*)
(* whatever state earlier calls have left.                                 *)
THEOREM Converges == Spec => []UpConverges
<1>1. UpInv => UpConverges
  BY DEF UpInv, CallsInv, AloneInv, UpConverges
<1> QED
  BY <1>1, UpInvariant, PTL

(* An undisturbed down (machine_down) leaves neither container nor marker. *)
THEOREM DownLeavesNothing == Spec => []DownCleans
<1>1. UpInv => DownCleans
  BY DEF UpInv, CallsInv, AloneInv, DownCleans
<1> QED
  BY <1>1, UpInvariant, PTL
=============================================================================
