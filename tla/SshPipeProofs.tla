---------------------------- MODULE SshPipeProofs ----------------------------
(***************************************************************************)
(* ssh_pipe reports success only for a stream that has arrived, for any    *)
(* amount of data and messages and any size of the pipes.                  *)
(***************************************************************************)
EXTENDS SshPipe, TLAPS

(* Every block is either unwritten, in the pipe or read.                   *)
Conserved == total = data + out + got

(* What a return code of 0 stands for, and what the CLI has waited for.    *)
CodesInv ==
    /\ local = "done" => data = 0
    /\ ssh = "done" => out = 0 /\ local # "running"
    /\ pc = "returned" => local = "done" /\ ssh = "done"

PipeInv == TypeOK /\ Conserved /\ CodesInv

LEMMA PipeInit == Init => PipeInv
<1> SUFFICES ASSUME Init PROVE PipeInv
  OBVIOUS
<1>1. TypeOK
  <2>1. 0 \in 0 .. MaxData /\ 0 \in 0 .. OutCap /\ 0 \in 0 .. ErrCap
    BY PipeAssumption
  <2> QED
    BY <2>1 DEF Init, TypeOK, Command, Pc
<1>2. Conserved
  BY PipeAssumption DEF Init, Conserved
<1>3. CodesInv
  BY DEF Init, CodesInv
<1> QED
  BY <1>1, <1>2, <1>3 DEF PipeInv

(* A step of the local command.                                            *)
LEMMA LocalStep == PipeInv /\ (Local \/ LocalFails) => PipeInv'
<1> SUFFICES ASSUME PipeInv, Local \/ LocalFails PROVE PipeInv'
  OBVIOUS
<1> USE PipeAssumption DEF PipeInv, TypeOK, Conserved, CodesInv, sshVars
<1>1. CASE Writes
  BY <1>1 DEF Writes
<1>2. CASE WritesInVain \/ LocalFails
  BY <1>2 DEF WritesInVain, LocalFails, Command
<1>3. CASE Says
  BY <1>3 DEF Says
<1>4. CASE Exits
  BY <1>4 DEF Exits, Command
<1> QED
  BY <1>1, <1>2, <1>3, <1>4 DEF Local

(* A step of ssh or of the remote command.                                 *)
LEMMA RemoteStep == PipeInv /\ (Remote \/ SshFails \/ Stalls) => PipeInv'
<1> SUFFICES ASSUME PipeInv, Remote \/ SshFails \/ Stalls PROVE PipeInv'
  OBVIOUS
<1> USE PipeAssumption DEF PipeInv, TypeOK, Conserved, CodesInv, localVars
<1>1. CASE SshReads
  BY <1>1 DEF SshReads
<1>2. CASE SshEnds
  BY <1>2 DEF SshEnds, Command
<1>3. CASE SshFails \/ Stalls
  BY <1>3 DEF SshFails, Stalls, Command
<1> QED
  BY <1>1, <1>2, <1>3 DEF Remote

(* A step of the CLI.                                                      *)
LEMMA CliStep == PipeInv /\ (Cli \/ TimesOut) => PipeInv'
<1> SUFFICES ASSUME PipeInv, Cli \/ TimesOut PROVE PipeInv'
  OBVIOUS
<1> USE PipeAssumption DEF PipeInv, TypeOK, Conserved, CodesInv, localVars, sshVars
<1>1. CASE Spawned
  BY <1>1 DEF Spawned, Command, Pc
<1>2. CASE SshOver
  BY <1>2 DEF SshOver, Pc
<1>3. CASE LocalOver
  BY <1>3 DEF LocalOver, Verdict, Pc
<1>4. CASE TimesOut
  BY <1>4 DEF TimesOut, Command, Pc
<1> QED
  BY <1>1, <1>2, <1>3, <1>4 DEF Cli

LEMMA PipeStep == PipeInv /\ [Next]_vars => PipeInv'
<1>1. PipeInv /\ UNCHANGED vars => PipeInv'
  BY DEF PipeInv, TypeOK, Conserved, CodesInv, vars, localVars, sshVars
<1> QED
  BY <1>1, LocalStep, RemoteStep, CliStep DEF Next

(* Every variable keeps its type; in particular neither pipe overflows.    *)
THEOREM TypeCorrect == Spec => []TypeOK
<1>1. PipeInv => TypeOK
  BY DEF PipeInv
<1> QED
  BY <1>1, PipeInit, PipeStep, PTL DEF Spec

(* A return without an error means that the remote command has read every  *)
(* block the local one was to send, whatever failed or stalled on the way. *)
THEOREM Delivered == Spec => []SuccessDelivers
<1>1. PipeInv => SuccessDelivers
  BY DEF PipeInv, TypeOK, Conserved, CodesInv, SuccessDelivers
<1> QED
  BY <1>1, PipeInit, PipeStep, PTL DEF Spec

-----------------------------------------------------------------------------
(* What is behind PipeReturns, as far as it can be said without fairness.  *)

(* Nobody takes the messages before the local command is over; whoever     *)
(* waits for it has closed the pipe and ssh is over.                       *)
WaitInv ==
    /\ local = "running" => talk + err = words
    /\ pc = "spawn" => ssh = "none"
    /\ pc = "wait" => ~Readable
    /\ pc \in {"returned", "raised"} => local # "running" \/ ~Readable

(* The local command is in a write that does not return.                   *)
Blocked ==
    /\ local = "running"
    /\ data > 0 => Readable /\ out = OutCap
    /\ talk > 0 => err = ErrCap
    /\ data > 0 \/ talk > 0

(* It blocks only on blocks, and only while the CLI has yet to start ssh   *)
(* or waits for it: never while the CLI waits for the local command.       *)
NoCircle ==
    words <= ErrCap /\ Blocked => out = OutCap /\ pc \in {"spawn", "run"}

LEMMA WaitInit == Init => WaitInv
BY PipeAssumption DEF Init, WaitInv, Readable

LEMMA WaitStep == PipeInv /\ WaitInv /\ [Next]_vars => WaitInv'
<1> SUFFICES ASSUME PipeInv, WaitInv, [Next]_vars PROVE WaitInv'
  OBVIOUS
<1> USE DEF WaitInv, Readable
<1>0. TypeOK /\ CodesInv
  BY DEF PipeInv
<1>1. CASE Writes \/ WritesInVain \/ Exits \/ LocalFails
  BY <1>0, <1>1 DEF Writes, WritesInVain, Exits, LocalFails, sshVars
<1>2. CASE Says
  BY <1>0, <1>2 DEF Says, sshVars, TypeOK
<1>3. CASE SshReads \/ SshEnds \/ SshFails \/ Stalls
  BY <1>0, <1>3 DEF SshReads, SshEnds, SshFails, Stalls, localVars
<1>4. CASE Spawned
  BY <1>0, <1>4 DEF Spawned, localVars
<1>5. CASE SshOver
  BY <1>0, <1>5 DEF SshOver, localVars, sshVars
<1>6. CASE LocalOver
  BY <1>0, <1>6 DEF LocalOver, Verdict, localVars, sshVars, TypeOK
<1>7. CASE TimesOut
  BY <1>0, <1>7 DEF TimesOut
<1>8. CASE UNCHANGED vars
  BY <1>8 DEF vars, localVars, sshVars
<1> QED
  BY <1>1, <1>2, <1>3, <1>4, <1>5, <1>6, <1>7, <1>8 DEF Next, Local, Remote, Cli

(* If the local command has no more messages than its second pipe takes,   *)
(* it and the CLI never wait for each other: `finally' has closed stdout   *)
(* before wait(), for any amount of data and any size of the pipes.        *)
THEOREM NeverStuck == Spec => []NoCircle
<1>1. PipeInv /\ WaitInv => NoCircle
  <2> SUFFICES ASSUME PipeInv, WaitInv, words <= ErrCap, Blocked
               PROVE  out = OutCap /\ pc \in {"spawn", "run"}
    BY DEF NoCircle
  <2>1. pc \in Pc /\ {words, talk, err, data} \subseteq Nat
    BY PipeAssumption DEF PipeInv, TypeOK
  <2>2. CASE data > 0
    BY <2>1, <2>2 DEF Blocked, WaitInv, Pc
  <2>3. CASE ~(data > 0)
    <3>1. talk > 0 /\ err = ErrCap
      BY <2>3 DEF Blocked
    <3>2. talk + err # words
      BY <2>1, <3>1, PipeAssumption
    <3> QED
      BY <2>1, <3>1, <3>2 DEF WaitInv, Blocked, Pc
  <2> QED
    BY <2>2, <2>3
<1> QED
  BY <1>1, PipeInit, PipeStep, WaitInit, WaitStep, PTL DEF Spec

(* What is left to happen in a call: each block to be written and read,    *)
(* each message, the end of either command, a stall, the steps of the CLI. *)
Rank(c) == IF c = "spawn" THEN 4 ELSE IF c = "run" THEN 2
           ELSE IF c = "wait" THEN 1 ELSE 0

ToCome ==
    2 * data + out + talk
      + (IF local = "running" THEN 1 ELSE 0) + (IF ssh = "running" THEN 1 ELSE 0)
      + (IF stalled THEN 0 ELSE 1) + Rank(pc)

(* Every step of whatever process, failures included, leaves less to come, *)
(* so that a call has at most 2 * MaxData + MaxTalk + 6 steps: ssh_pipe    *)
(* never loops.                                                            *)
THEOREM Finite == Spec => [][ToCome' < ToCome]_vars
<1>1. ASSUME PipeInv, Next PROVE ToCome' < ToCome
  <2>1. TypeOK /\ {data, out, talk} \subseteq Nat
    BY <1>1, PipeAssumption DEF PipeInv, TypeOK
  <2> USE DEF ToCome, Rank
  <2>2. CASE Writes \/ Says
    BY <2>1, <2>2 DEF Writes, Says, sshVars
  <2>3. CASE WritesInVain \/ Exits \/ LocalFails
    BY <2>1, <2>3 DEF WritesInVain, Exits, LocalFails, sshVars
  <2>4. CASE SshReads
    BY <2>1, <2>4 DEF SshReads, localVars
  <2>5. CASE SshEnds \/ SshFails
    BY <2>1, <2>5 DEF SshEnds, SshFails, localVars
  <2>6. CASE Stalls
    BY <2>1, <2>6 DEF Stalls, localVars
  <2>7. CASE Spawned
    BY <2>1, <2>7 DEF Spawned, localVars
  <2>8. CASE SshOver
    BY <2>1, <2>8 DEF SshOver, localVars, sshVars
  <2>9. CASE LocalOver
    BY <2>1, <2>9 DEF LocalOver, Verdict, localVars, sshVars
  <2>10. CASE TimesOut
    BY <2>1, <2>10 DEF TimesOut
  <2> QED
    BY <1>1, <2>2, <2>3, <2>4, <2>5, <2>6, <2>7, <2>8, <2>9, <2>10
    DEF Next, Local, Remote, Cli
<1>2. PipeInv /\ [Next]_vars => [ToCome' < ToCome]_vars
  BY <1>1
<1> QED
  BY <1>2, PipeInit, PipeStep, PTL DEF Spec
=============================================================================
