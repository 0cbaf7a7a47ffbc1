----------------------------- MODULE MachineUp ------------------------------
(***************************************************************************)
(* `remote up' and `remote down' for one machine (updown.py, bootstrap.py) *)
(* and what `remote sync' and `remote run' make of their results: public   *)
(* key, image, container, endpoint marker and workspace are separate       *)
(* resources, changed one ssh call at a time by CLI processes that may     *)
(* overlap, fail at any call or be killed between two.                     *)
(*                                                                         *)
(* docker version, the device probe and the progress output change nothing *)
(* and are folded into the step that follows them.                         *)
(***************************************************************************)
EXTENDS Naturals

CONSTANTS
    Procs,      \* CLI processes
    Ops,        \* what they are called for: "up", "down", "sync", "run"
    Kinds,      \* the machine's mode: "container", "ssh"
    Mounted,    \* does workspace_root lie in a directory of the host?
    Tries,      \* how often _wait_exec tries (20)
    MaxFaults   \* bound on failed calls, kills and outside changes

ASSUME UpAssumption ==
    /\ Ops \subseteq {"up", "down", "sync", "run"}
    /\ Kinds \subseteq {"container", "ssh"}
    /\ Mounted \in BOOLEAN
    /\ Tries \in Nat \ {0}
    /\ MaxFaults \in Nat

VARIABLES
    kind,       \* the machine's mode
    keys,       \* does the machine accept the local public key?
    image,      \* does the host have container.image?
    cont,       \* the container named container.name
    writable,   \* can the login's user make workspace_root?
    ws,         \* workspace_root: "ready" with mirrors and git settings
    marker,     \* does state/endpoints/<alias>.json exist?
    call,       \* call[p]: the call process p is executing
    faults      \* number of faults so far

machine == <<kind, keys, image, cont, writable, ws, marker>>
vars == <<machine, call, faults>>

Cont == {"none", "starting", "running", "stopped"}
Pc == {"idle", "ssh", "pubkey", "image", "inspect", "create", "exec",
       "marker", "init", "find", "remove", "unmark", "check", "use", "ended"}

(* calm: since the call began there was no fault and no down has changed   *)
(* anything; alone: nor did any other process take a step.  Both history.  *)
Call == [op : Ops \cup {"none"}, pc : Pc, password : BOOLEAN, tries : 0 .. Tries,
         result : {"none", "ok", "needs_repair", "blocked", "error"},
         calm : BOOLEAN, alone : BOOLEAN]

NoCall == [op |-> "none", pc |-> "idle", password |-> FALSE, tries |-> 0,
           result |-> "none", calm |-> FALSE, alone |-> FALSE]

TypeOK ==
    /\ kind \in {"container", "ssh"}
    /\ keys \in BOOLEAN /\ image \in BOOLEAN /\ marker \in BOOLEAN
    /\ writable \in BOOLEAN
    /\ cont \in Cont
    /\ ws \in {"absent", "dir", "ready"}
    /\ call \in [Procs -> Call]
    /\ faults \in 0 .. MaxFaults

(* A machine that `up' has never seen; in container mode somebody may have *)
(* made the container before.                                              *)
Init ==
    /\ kind \in Kinds
    /\ keys \in BOOLEAN
    /\ image \in BOOLEAN
    /\ cont \in IF kind = "ssh" THEN {"none"} ELSE Cont
    /\ writable \in BOOLEAN
    /\ ws = "absent"
    /\ marker = FALSE
    /\ call = [p \in Procs |-> NoCall]
    /\ faults = 0

-----------------------------------------------------------------------------
(* The bookkeeping of calls.                                               *)

NoFault == UNCHANGED faults
Fault == faults < MaxFaults /\ faults' = faults + 1

At(p, pc) == call[p].pc = pc

(* p goes on as `new'.                                                     *)
Becomes(p, new) ==
    call' = [q \in Procs |-> IF q = p THEN new
                             ELSE [call[q] EXCEPT !.alone = FALSE]]

(* ... and every other call feels what it did.                             *)
Disturbs(p, new) ==
    /\ call' = [q \in Procs |-> IF q = p THEN new
                                ELSE [call[q] EXCEPT !.calm = FALSE, !.alone = FALSE]]
    /\ NoFault

(* ... because something has gone wrong, which its own call feels as well. *)
Suffers(p, new) ==
    /\ call' = [q \in Procs |-> [(IF q = p THEN new ELSE call[q])
                                    EXCEPT !.calm = FALSE, !.alone = FALSE]]
    /\ Fault

Goes(p, pc) == Becomes(p, [call[p] EXCEPT !.pc = pc])
Ends(p, result) == Becomes(p, [call[p] EXCEPT !.pc = "ended", !.result = result])
Breaks(p) == Suffers(p, [call[p] EXCEPT !.pc = "ended", !.result = "error"])

(* The answer of a call arrives, or its effect remains and the answer is   *)
(* lost (SSHError, or a return code that is not 0).                        *)
Answered(p, pc) ==
    \/ Goes(p, pc) /\ NoFault
    \/ Breaks(p)

(* docker exec and plain ssh reach the place where work is done.           *)
Reachable == keys /\ (kind = "container" => cont = "running")

Start(p) ==
    /\ At(p, "idle")
    /\ \E op \in Ops, password \in BOOLEAN :
          Becomes(p, [NoCall EXCEPT
              !.op = op, !.password = password, !.calm = TRUE, !.alone = TRUE,
              !.pc = CASE op = "up"   -> "ssh"
                       [] op = "down" -> "find"
                       [] op = "sync" -> "check"
                       [] op = "run"  -> "use"])
    /\ UNCHANGED machine /\ NoFault

Return(p) ==
    /\ At(p, "ended")
    /\ Becomes(p, NoCall)
    /\ UNCHANGED machine /\ NoFault

-----------------------------------------------------------------------------
(* machine_up                                                              *)

AfterLogin == IF kind = "container" THEN "image" ELSE "init"

(* _ensure_passwordless: `true' over BatchMode ssh.  An SSHError counts as *)
(* not passwordless.                                                       *)
CheckLogin(p) ==
    /\ At(p, "ssh")
    /\ \/ keys /\ Goes(p, AfterLogin) /\ NoFault
       \/ /\ ~keys
          /\ IF call[p].password THEN Goes(p, "pubkey") ELSE Ends(p, "error")
          /\ NoFault
       \/ /\ keys
          /\ IF call[p].password
             THEN Suffers(p, [call[p] EXCEPT !.pc = "pubkey"])
             ELSE Breaks(p)
    /\ UNCHANGED machine

(* push_pubkey with the password, and the second `true'.                   *)
PushKey(p) ==
    /\ At(p, "pubkey")
    /\ keys' = TRUE
    /\ Answered(p, AfterLogin)
    /\ UNCHANGED <<kind, image, cont, writable, ws, marker>>

(* _check_docker, _ensure_image: inspect it, pull it if it is missing.     *)
EnsureImage(p) ==
    /\ At(p, "image") /\ keys
    /\ image' = TRUE
    /\ Answered(p, "inspect")
    /\ UNCHANGED <<kind, keys, cont, writable, ws, marker>>

(* Faulty variant: whatever container exists is reused.                    *)
InspectTrusting(p) ==
    /\ At(p, "inspect") /\ keys
    /\ Goes(p, IF cont = "none" THEN "create" ELSE "exec")
    /\ UNCHANGED machine /\ NoFault

(* _inspect_container, _container_healthy.  "starting" is Running, too.  A *)
(* dropped connection looks like a container that does not exist.          *)
Inspect(p) ==
    /\ At(p, "inspect") /\ keys
    /\ \/ cont = "none" /\ Goes(p, "create") /\ NoFault
       \/ cont = "stopped" /\ Ends(p, "needs_repair") /\ NoFault
       \/ cont \in {"starting", "running"} /\ Goes(p, "exec") /\ NoFault
       \/ /\ cont # "none"
          /\ Suffers(p, [call[p] EXCEPT !.pc = "create"])
    /\ UNCHANGED machine

(* docker run --name refuses a name that is taken.                         *)
Create(p) ==
    /\ At(p, "create") /\ keys
    /\ IF cont = "none"
       THEN cont' = "starting" /\ Answered(p, "exec")
       ELSE UNCHANGED cont /\ Ends(p, "error") /\ NoFault
    /\ UNCHANGED <<kind, keys, image, writable, ws, marker>>

(* Faulty variant: off by one.                                             *)
TriedOnceMore(p) ==
    LET next == [call[p] EXCEPT !.tries = @ + 1] IN
    IF next.tries <= Tries THEN next
    ELSE [next EXCEPT !.pc = "ended", !.result = "error"]

(* A failed try; the last one is an error.                                 *)
Tried(p) ==
    LET next == [call[p] EXCEPT !.tries = @ + 1] IN
    IF next.tries < Tries THEN next
    ELSE [next EXCEPT !.pc = "ended", !.result = "error"]

(* _wait_exec: docker exec true, up to Tries times; a dropped connection   *)
(* is a failed try.                                                        *)
WaitExec(p) ==
    /\ At(p, "exec")
    /\ \/ Reachable /\ Goes(p, "marker") /\ NoFault
       \/ ~Reachable /\ Becomes(p, Tried(p)) /\ NoFault
       \/ Reachable /\ Suffers(p, Tried(p))
    /\ UNCHANGED machine

(* _write_endpoint, before the workspace exists.                           *)
WriteEndpoint(p) ==
    /\ At(p, "marker")
    /\ marker' = TRUE
    /\ Goes(p, "init")
    /\ UNCHANGED <<kind, keys, image, cont, writable, ws>> /\ NoFault

(* Faulty variant: a directory that exists is taken for initialised.       *)
InitWorkspaceOnce(p) ==
    /\ At(p, "init")
    /\ IF Reachable
       THEN /\ ws' = IF writable /\ ws = "absent" THEN "ready" ELSE ws
            /\ (Ends(p, "ok") /\ NoFault) \/ Breaks(p)
       ELSE UNCHANGED ws /\ Ends(p, "error") /\ NoFault
    /\ UNCHANGED <<kind, keys, image, cont, writable, marker>>

(* _init_workspace: mkdir the root and the mirrors, two git settings.  The *)
(* script's return code is that of the last setting.                       *)
InitWorkspace(p) ==
    /\ At(p, "init")
    /\ IF Reachable
       THEN /\ ws' = IF writable THEN "ready" ELSE ws
            /\ (Ends(p, "ok") /\ NoFault) \/ Breaks(p)
       ELSE UNCHANGED ws /\ Ends(p, "error") /\ NoFault
    /\ UNCHANGED <<kind, keys, image, cont, writable, marker>>

-----------------------------------------------------------------------------
(* machine_down                                                            *)

(* Faulty variant: without a container there is nothing to do.             *)
FindContainerOrLeave(p) ==
    /\ At(p, "find")
    /\ \/ (kind = "ssh" \/ cont = "none") /\ Ends(p, "ok") /\ NoFault
       \/ kind = "container" /\ ~keys /\ Ends(p, "error") /\ NoFault
       \/ kind = "container" /\ keys /\ cont # "none" /\ Goes(p, "remove") /\ NoFault
    /\ UNCHANGED machine

(* Nothing to do in ssh mode; else docker version, which fails without the *)
(* key, and docker inspect, whose every failure means `not_found'.         *)
FindContainer(p) ==
    /\ At(p, "find")
    /\ \/ kind = "ssh" /\ Ends(p, "ok") /\ NoFault
       \/ kind = "container" /\ ~keys /\ Ends(p, "error") /\ NoFault
       \/ /\ kind = "container" /\ keys
          /\ Goes(p, IF cont = "none" THEN "unmark" ELSE "remove") /\ NoFault
       \/ /\ kind = "container" /\ keys /\ cont # "none"
          /\ Suffers(p, [call[p] EXCEPT !.pc = "unmark"])
    /\ UNCHANGED machine

(* docker rm -f: the container and what is in it, settings included.       *)
RemoveContainer(p) ==
    /\ At(p, "remove") /\ keys
    /\ cont' = "none"
    /\ ws' = IF Mounted /\ ws # "absent" THEN "dir" ELSE "absent"
    /\ \/ Disturbs(p, [call[p] EXCEPT !.pc = "unmark"])
       \/ Breaks(p)
    /\ UNCHANGED <<kind, keys, image, writable, marker>>

(* _remove_endpoint_state                                                  *)
RemoveEndpoint(p) ==
    /\ At(p, "unmark")
    /\ marker' = FALSE
    /\ Disturbs(p, [call[p] EXCEPT !.pc = "ended", !.result = "ok"])
    /\ UNCHANGED <<kind, keys, image, cont, writable, ws>>

-----------------------------------------------------------------------------
(* sync_git asks whether the machine is up, run_remote does not.           *)

(* _ensure_up: the marker, or in ssh mode the directory.                   *)
EnsureUp(p) ==
    /\ At(p, "check")
    /\ IF kind = "container"
       THEN IF marker THEN Goes(p, "use") ELSE Ends(p, "blocked")
       ELSE IF ~keys THEN Ends(p, "error")
       ELSE IF ws = "absent" THEN Ends(p, "blocked") ELSE Goes(p, "use")
    /\ UNCHANGED machine /\ NoFault

(* Both create the directories they need with mkdir -p.                    *)
UseWorkspace(p) ==
    /\ At(p, "use")
    /\ IF Reachable /\ writable
       THEN /\ ws' = IF ws = "absent" THEN "dir" ELSE ws
            /\ Ends(p, "ok")
       ELSE UNCHANGED ws /\ Ends(p, "error")
    /\ UNCHANGED <<kind, keys, image, cont, writable, marker>> /\ NoFault

Step(p) ==
    \/ CheckLogin(p) \/ PushKey(p) \/ EnsureImage(p) \/ Inspect(p) \/ Create(p)
    \/ WaitExec(p) \/ WriteEndpoint(p) \/ InitWorkspace(p)
    \/ FindContainer(p) \/ RemoveContainer(p) \/ RemoveEndpoint(p)
    \/ EnsureUp(p) \/ UseWorkspace(p)

-----------------------------------------------------------------------------
(* What goes wrong, and what others do.                                    *)

(* A call fails before it has had an effect.                               *)
CallFails(p) ==
    /\ \/ call[p].pc \in {"pubkey", "image", "inspect", "create", "exec", "init",
                          "remove", "use"}
       \/ At(p, "find") /\ kind = "container"
       \/ At(p, "check") /\ kind = "ssh"
    /\ Breaks(p)
    /\ UNCHANGED machine

(* The key was withdrawn in the middle of a call.                          *)
LoginRefused(p) ==
    /\ call[p].pc \in {"image", "inspect", "create", "remove"} /\ ~keys
    /\ Ends(p, "error")
    /\ UNCHANGED machine /\ NoFault

Killed(p) ==
    /\ call[p].pc \notin {"idle", "ended"}
    /\ Suffers(p, NoCall)
    /\ UNCHANGED machine

ContainerReady ==
    /\ cont = "starting" /\ cont' = "running"
    /\ UNCHANGED <<kind, keys, image, writable, ws, marker, call>> /\ NoFault

(* Somebody stops, starts or removes the container, withdraws the key or   *)
(* changes who may write where the workspace is.                           *)
OthersAct ==
    /\ \/ cont # "none" /\ cont' = "stopped" /\ UNCHANGED <<keys, writable, ws>>
       \/ cont = "stopped" /\ cont' = "starting" /\ UNCHANGED <<keys, writable, ws>>
       \/ /\ cont # "none" /\ cont' = "none" /\ UNCHANGED <<keys, writable>>
          /\ ws' = IF Mounted /\ ws # "absent" THEN "dir" ELSE "absent"
       \/ keys /\ keys' = FALSE /\ UNCHANGED <<cont, writable, ws>>
       \/ writable' = ~writable /\ UNCHANGED <<keys, cont, ws>>
    /\ call' = [q \in Procs |->
                   [call[q] EXCEPT !.calm = FALSE, !.alone = FALSE]]
    /\ UNCHANGED <<kind, image, marker>> /\ Fault

Next ==
    \/ \E p \in Procs :
          \/ Start(p) \/ Step(p) \/ Return(p)
          \/ CallFails(p) \/ LoginRefused(p) \/ Killed(p)
    \/ ContainerReady \/ OthersAct

Spec == Init /\ [][Next]_vars

-----------------------------------------------------------------------------
(* Properties.                                                             *)

Done(p, op, result) == At(p, "ended") /\ call[p].op = op /\ call[p].result = result

(* When `up' returns ok, and no down and no fault has come between, the    *)
(* machine can be worked on, and its workspace is initialised if it could  *)
(* be made at all, other ups at the same time or not.                      *)
UpMeansReady ==
    \A p \in Procs :
        Done(p, "up", "ok") /\ call[p].calm
            => /\ Reachable /\ (kind = "container" => marker)
               /\ writable => ws = "ready"

(* `up' converges from whatever earlier calls, killed or failed at any     *)
(* point, have left behind: undisturbed it fails only without a way to log *)
(* in or with a container that does not accept docker exec, and asks for a *)
(* repair only when the container is not running.                          *)
UpConverges ==
    \A p \in Procs :
        call[p].alone =>
            /\ Done(p, "up", "error") =>
                  \/ ~keys
                  \/ call[p].tries = Tries /\ cont \in {"starting", "running"}
            /\ Done(p, "up", "needs_repair") => cont = "stopped"

(* `down' also finishes what an earlier down or up left half done: no      *)
(* container and no marker remain.                                         *)
DownCleans ==
    \A p \in Procs :
        Done(p, "down", "ok") /\ call[p].alone /\ kind = "container"
            => cont = "none" /\ ~marker

(* sync goes on only in a workspace that an `up' has completed.            *)
SyncNeedsUp == \A p \in Procs : Done(p, "sync", "ok") => ws = "ready"

(* ... and so does run.                                                    *)
RunNeedsUp == \A p \in Procs : Done(p, "run", "ok") => ws = "ready"

(* An `up' that returns ok has made the workspace.                         *)
UpMakesWorkspace ==
    \A p \in Procs :
        Done(p, "up", "ok") /\ call[p].calm => ws # "absent"

(* A container that does not accept docker exec makes `up' ask for repair. *)
UnexecutableNeedsRepair ==
    \A p \in Procs :
        At(p, "ended") /\ call[p].tries = Tries => call[p].result = "needs_repair"

(* `down' that returns ok has removed the container.                       *)
DownRemoves ==
    \A p \in Procs : Done(p, "down", "ok") /\ kind = "container" => cont = "none"

(* With every call over, a marker names a container that exists.           *)
NoOrphanMarker ==
    (\A p \in Procs : call[p].pc \in {"idle", "ended"}) /\ marker
        => cont # "none"
=============================================================================
