------------------------------- MODULE SshPipe -------------------------------
(***************************************************************************)
(* ssh_pipe (ssh.py): a local command, tar or git bundle, writes into the  *)
(* standard input of ssh, whose remote command reads it, while the CLI     *)
(* waits for ssh and then for the local command.                           *)
(*                                                                         *)
(* Pipes are bounded and a write to a full one blocks, a write to one that *)
(* nobody can read any more kills the writer, and a reader sees the end    *)
(* when the writer is over.  The local command has two pipes; its error    *)
(* output is not read before it is over.                                   *)
(***************************************************************************)
EXTENDS Naturals

CONSTANTS
    MaxData,    \* bound on the blocks the local command has to send
    MaxTalk,    \* bound on the messages it has to write
    OutCap,     \* blocks a pipe takes
    ErrCap,     \* messages a pipe takes
    Spawns      \* is there an ssh to run?  a subset of BOOLEAN

ASSUME PipeAssumption ==
    /\ {MaxData, MaxTalk} \subseteq Nat
    /\ {OutCap, ErrCap} \subseteq Nat \ {0}
    /\ Spawns \subseteq BOOLEAN

VARIABLES
    total,      \* blocks the local command was started with
    words,      \* ... and messages
    data,       \* blocks it has not yet written
    talk,       \* messages it has not yet written
    out, err,   \* blocks and messages in the pipes
    local,      \* the local command
    ssh,        \* ssh and the remote command
    stalled,    \* the network has stopped
    got,        \* blocks the remote command has read
    held,       \* does the CLI hold the read end of the first pipe?
    pc          \* the CLI

localVars == <<data, talk, local>>
sshVars   == <<ssh, stalled, got>>
vars == <<total, words, localVars, out, err, sshVars, held, pc>>

(* "done" is return code 0.                                                *)
Command == {"running", "done", "failed", "killed"}
Pc == {"spawn", "run", "wait", "returned", "raised"}

TypeOK ==
    /\ total \in 0 .. MaxData /\ words \in 0 .. MaxTalk
    /\ data \in 0 .. MaxData /\ talk \in 0 .. MaxTalk
    /\ out \in 0 .. OutCap /\ err \in 0 .. ErrCap
    /\ local \in Command
    /\ ssh \in Command \cup {"none"}
    /\ stalled \in BOOLEAN /\ held \in BOOLEAN
    /\ got \in 0 .. MaxData
    /\ pc \in Pc

(* Popen has started the local command.                                    *)
Init ==
    /\ total \in 0 .. MaxData /\ words \in 0 .. MaxTalk
    /\ data = total /\ talk = words
    /\ out = 0 /\ err = 0
    /\ local = "running"
    /\ ssh = "none" /\ stalled = FALSE /\ got = 0
    /\ held = TRUE
    /\ pc = "spawn"

-----------------------------------------------------------------------------
(* The local command.                                                      *)

Readable == held \/ ssh = "running"

Writes ==
    /\ local = "running" /\ data > 0
    /\ Readable /\ out < OutCap
    /\ data' = data - 1 /\ out' = out + 1
    /\ UNCHANGED <<total, words, talk, err, local, sshVars, held, pc>>

(* SIGPIPE                                                                 *)
WritesInVain ==
    /\ local = "running" /\ data > 0
    /\ ~Readable
    /\ local' = "failed"
    /\ UNCHANGED <<total, words, data, talk, out, err, sshVars, held, pc>>

Says ==
    /\ local = "running" /\ talk > 0 /\ err < ErrCap
    /\ talk' = talk - 1 /\ err' = err + 1
    /\ UNCHANGED <<total, words, data, local, out, sshVars, held, pc>>

(* A command that has complained may end with a return code of its own.    *)
Exits ==
    /\ local = "running" /\ data = 0 /\ talk = 0
    /\ local' \in {"done", "failed"}
    /\ UNCHANGED <<total, words, data, talk, out, err, sshVars, held, pc>>

LocalFails ==
    /\ local = "running"
    /\ local' = "failed"
    /\ UNCHANGED <<total, words, data, talk, out, err, sshVars, held, pc>>

-----------------------------------------------------------------------------
(* ssh and the remote command.                                             *)

SshReads ==
    /\ ssh = "running" /\ ~stalled /\ out > 0
    /\ out' = out - 1 /\ got' = got + 1
    /\ UNCHANGED <<total, words, localVars, err, ssh, stalled, held, pc>>

(* The remote command sees the end of its input and judges what it got.    *)
SshEnds ==
    /\ ssh = "running" /\ ~stalled /\ out = 0 /\ local # "running"
    /\ ssh' \in {"done", "failed"}
    /\ UNCHANGED <<total, words, localVars, out, err, stalled, got, held, pc>>

(* The connection breaks or the remote command fails before the end.       *)
SshFails ==
    /\ ssh = "running"
    /\ ssh' = "failed"
    /\ UNCHANGED <<total, words, localVars, out, err, stalled, got, held, pc>>

Stalls ==
    /\ ssh = "running" /\ ~stalled
    /\ stalled' = TRUE
    /\ UNCHANGED <<total, words, localVars, out, err, ssh, got, held, pc>>

-----------------------------------------------------------------------------
(* The CLI.                                                                *)

(* subprocess.run starts ssh, or raises, and stdout is closed.             *)
Spawned ==
    /\ pc = "spawn"
    /\ \E found \in Spawns :
          IF found THEN ssh' = "running" /\ pc' = "run" /\ UNCHANGED held
                   ELSE held' = FALSE /\ pc' = "raised" /\ UNCHANGED ssh
    /\ UNCHANGED <<total, words, localVars, out, err, stalled, got>>

(* Faulty variant: stdout stays open until the local command has ended.    *)
SshOverLate ==
    /\ pc = "run" /\ ssh # "running"
    /\ pc' = "wait"
    /\ UNCHANGED <<total, words, localVars, out, err, sshVars, held>>

(* run returns ssh's code, `finally' closes stdout.                        *)
SshOver ==
    /\ pc = "run" /\ ssh # "running"
    /\ held' = FALSE /\ pc' = "wait"
    /\ UNCHANGED <<total, words, localVars, out, err, sshVars>>

(* Faulty variant: the local command is left to itself.                    *)
TimesOutLeaving ==
    /\ pc = "run" /\ ssh = "running"
    /\ ssh' = "killed"
    /\ held' = held /\ pc' = "raised"
    /\ UNCHANGED <<total, words, localVars, out, err, stalled, got>>

(* PIPE_TIMEOUT_SECONDS: run kills ssh, the handler the local command.     *)
TimesOut ==
    /\ pc = "run" /\ ssh = "running"
    /\ ssh' = "killed"
    /\ local' = IF local = "running" THEN "killed" ELSE local
    /\ held' = FALSE /\ pc' = "raised"
    /\ UNCHANGED <<total, words, data, talk, out, err, stalled, got>>

(* Faulty variant: only ssh's result counts.                               *)
RemoteVerdict == IF ssh = "done" THEN "returned" ELSE "raised"

(* Both return codes have to be 0.                                         *)
Verdict == IF local = "done" /\ ssh = "done" THEN "returned" ELSE "raised"

(* wait, then the messages are read.                                       *)
LocalOver ==
    /\ pc = "wait" /\ local # "running"
    /\ err' = 0
    /\ pc' = Verdict
    /\ UNCHANGED <<total, words, localVars, out, sshVars, held>>

Local == Writes \/ WritesInVain \/ Says \/ Exits
Remote == SshReads \/ SshEnds
Cli == Spawned \/ SshOver \/ LocalOver

Next == Local \/ LocalFails \/ Remote \/ SshFails \/ Stalls \/ Cli \/ TimesOut

(* Processes that can go on do so, and the clock runs.                     *)
Fairness == /\ WF_vars(Local) /\ WF_vars(Remote)
            /\ WF_vars(Cli) /\ WF_vars(TimesOut)

Spec == Init /\ [][Next]_vars
FairSpec == Spec /\ Fairness

-----------------------------------------------------------------------------
(* Properties.                                                             *)

(* ssh_pipe returns only when the local command has sent everything, the   *)
(* remote one has read it all, and both have ended well, although either   *)
(* may take the other's early end for the end of the data.                 *)
SuccessDelivers ==
    pc = "returned" =>
        local = "done" /\ ssh = "done" /\ got = total /\ out = 0

(* Whichever of the processes fails or stalls first, the CLI gets out of   *)
(* ssh_pipe, unless the local command has more to complain about than its  *)
(* second pipe takes: then each may wait for the other.                    *)
PipeReturns == words <= ErrCap ~> pc \in {"returned", "raised"}

(* ... and no process of the call stays behind.                            *)
NobodyLeft ==
    words <= ErrCap /\ pc \in {"returned", "raised"}
        ~> local # "running" /\ ssh # "running"
=============================================================================
