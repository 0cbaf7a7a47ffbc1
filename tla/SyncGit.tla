------------------------------ MODULE SyncGit -------------------------------
(***************************************************************************)
(* `remote sync' of a whole workspace (sync_git.py, snapshot.py): a        *)
(* synthetic snapshot commit per repository, built bottom-up; one query of *)
(* the parity refs of the remote mirrors; a skip, delta or full bundle per *)
(* repository; one script that forces the remote work trees onto the       *)
(* parity refs; and the verification of heads, status and file samples.    *)
(*                                                                         *)
(* Several processes may sync the same workspace to the same machine; each *)
(* may be killed between two steps, leaving its temporary refs and a       *)
(* script that still runs on the machine.                                  *)
(*                                                                         *)
(* A commit is the sequence of trees on its first-parent line.  Identity   *)
(* and dates of snapshot commits are fixed, so two commits with the same   *)
(* trees and parents are the same object, and so are equal sequences.      *)
(***************************************************************************)
EXTENDS Naturals, Sequences, SequencesExt

CONSTANTS
    Procs,      \* the `remote sync' processes
    Repos,      \* the repositories of the workspace, the root among them
    Order,      \* the repositories in postorder; the root is the last
    Kids,       \* Kids[r]: repositories mounted in r (submodules, worktrees)
    MirrorOf,   \* MirrorOf[r]: the mirror that _repo_id gives r
    Content,    \* contents of a repository's own files
    None,
    MaxEdits,   \* bound on local edits
    MaxFaults,  \* bound on kills, failed ssh calls, pruned objects, remote
                \* edits and `remote down's
    MaxEvents   \* bound on edits and faults together

ASSUME SyncAssumption ==
    /\ Order \in Seq(Repos) /\ Len(Order) > 0
    /\ \A r \in Repos : \E i \in 1 .. Len(Order) : Order[i] = r
    /\ Kids \in [Repos -> SUBSET Repos]
    /\ \A r \in Repos : r = Order[Len(Order)] \/ \E q \in Repos : r \in Kids[q]
    /\ \A i, k \in 1 .. Len(Order) : Order[k] \in Kids[Order[i]] => k < i
    /\ MaxEdits \in Nat /\ MaxFaults \in Nat /\ MaxEvents \in Nat

VARIABLES
    work,       \* work[r]: the local files of r
    odb,        \* odb[r]: snapshot commits in the local object database
    tmp,        \* tmp[r]: the temporary ref refs/remote-plugin/sync/...
    last,       \* state/sync/<alias>/workspace.json: the last synced commits
    up,         \* is the machine up, with its workspace?
    objs,       \* objs[m]: commits in the object database of mirror m
    parity,     \* parity[m]: its parity ref
    head,       \* head[r]: HEAD of r's remote work tree
    touched,    \* touched[r]: have its files been changed since?
    sync,       \* sync[p]: the local variables of process p
    script,     \* script[p]: repositories its materialize script has to do
    edits, faults

localVars  == <<work, odb, tmp, last>>
remoteVars == <<up, objs, parity, head, touched, script>>
vars == <<localVars, remoteVars, sync, edits, faults>>

Root == Order[Len(Order)]
Mirrors == {MirrorOf[r] : r \in Repos}
Plan == {"skip", "delta", "full"}
Busy == {"start", "snapshot", "heads", "status", "probe", "ask", "push",
         "pipe", "unref", "materialize", "save"}
Result == {"none", "blocked", "ready", "no_change", "failed", "error"}

(* What one sync_git call keeps in memory.  The last three are history:    *)
(* quiet, nothing else has happened since the call began; agreed, every    *)
(* remote HEAD was the snapshot's commit at some read of the verification  *)
(* under way; moved, another sync has checked out another commit of the    *)
(* root between the reads of its HEAD and of its status, the last two.     *)
IdleSync ==
    [pc |-> "idle", result |-> "none", fast |-> FALSE, good |-> TRUE,
     queue |-> <<>>,
     old |-> [r \in Repos |-> None], snap |-> [r \in Repos |-> None],
     base |-> [r \in Repos |-> None], probe |-> [r \in Repos |-> None],
     seen |-> [r \in Repos |-> None], quiet |-> FALSE, agreed |-> FALSE,
     moved |-> FALSE]

IsCommit(r, c) ==
    /\ Len(c) > 0
    /\ \A i \in 1 .. Len(c) :
          c[i].content \in Content /\ DOMAIN c[i].links = Kids[r]
MaybeCommit(r, c) == c = None \/ IsCommit(r, c)

TypeOK ==
    /\ work \in [Repos -> Content]
    /\ DOMAIN odb = Repos /\ DOMAIN tmp = Repos
    /\ \A r \in Repos : /\ \A c \in odb[r] : IsCommit(r, c)
                        /\ MaybeCommit(r, tmp[r])
                        /\ last # None => IsCommit(r, last[r])
    /\ up \in BOOLEAN
    /\ DOMAIN objs = Mirrors /\ DOMAIN parity = Mirrors
    /\ \A m \in Mirrors : parity[m] # None => parity[m] \in objs[m]
    /\ touched \in [Repos -> BOOLEAN]
    /\ script \in [Procs -> Seq(Repos)]
    /\ \A p \in Procs :
          /\ sync[p].pc \in Busy \cup {"idle", "ended"}
          /\ sync[p].result \in Result
          /\ sync[p].queue \in Seq(Repos)
          /\ \A r \in Repos : MaybeCommit(r, sync[p].snap[r])
    /\ edits \in 0 .. MaxEdits /\ faults \in 0 .. MaxFaults

Init ==
    /\ work \in [Repos -> Content]
    /\ odb = [r \in Repos |-> {}]
    /\ tmp = [r \in Repos |-> None]
    /\ last = None
    /\ up = TRUE
    /\ objs = [m \in Mirrors |-> {}]
    /\ parity = [m \in Mirrors |-> None]
    /\ head = [r \in Repos |-> None]
    /\ touched = [r \in Repos |-> FALSE]
    /\ sync = [p \in Procs |-> IdleSync]
    /\ script = [p \in Procs |-> <<>>]
    /\ edits = 0
    /\ faults = 0

(* p takes a step to the local state `new', disturbing every other call.   *)
Moves(p, new) ==
    sync' = [q \in Procs |->
                IF q = p THEN new ELSE [sync[q] EXCEPT !.quiet = FALSE]]
Disturb == sync' = [q \in Procs |-> [sync[q] EXCEPT !.quiet = FALSE]]

Fault ==
    /\ faults < MaxFaults /\ edits + faults < MaxEvents
    /\ faults' = faults + 1
    /\ UNCHANGED edits
NoFault == UNCHANGED <<edits, faults>>

At(p, pc) == sync[p].pc = pc
Verifying(p) == sync[p].pc \in {"heads", "status"}
Ended(p, result) ==
    [IdleSync EXCEPT !.pc = "ended", !.result = result, !.snap = sync[p].snap,
                     !.quiet = sync[p].quiet, !.agreed = sync[p].agreed,
                     !.moved = sync[p].moved]

-----------------------------------------------------------------------------
(* sync_git: checks and snapshots                                          *)

(* A process calls again only once its earlier script is over; another     *)
(* process is the one that meets the script of a killed call.              *)
Start(p) ==
    /\ At(p, "idle") /\ script[p] = <<>>
    /\ Moves(p, [IdleSync EXCEPT !.pc = "start", !.quiet = TRUE])
    /\ UNCHANGED <<localVars, remoteVars>> /\ NoFault

(* _ensure_up; then load the last state.  A parent that the local object   *)
(* database no longer has is dropped.                                      *)
EnsureUp(p) ==
    /\ At(p, "start")
    /\ IF up
       THEN Moves(p, [sync[p] EXCEPT
                !.pc = "snapshot", !.queue = Order,
                !.old = IF last = None THEN @ ELSE last])
       ELSE Moves(p, Ended(p, "blocked"))
    /\ UNCHANGED <<localVars, remoteVars>> /\ NoFault

TreeOf(p, r) == [content |-> work[r],
                 links |-> [k \in Kids[r] |-> sync[p].snap[k]]]

(* _build_snapshot of the next repository in postorder: reuse the parent   *)
(* whose tree is unchanged, else commit the tree on top of it.             *)
BuildSnapshot(p) ==
    LET r      == Head(sync[p].queue)
        old    == sync[p].old[r]
        usable == old # None /\ old \in odb[r]
        reuse  == usable /\ Last(old) = TreeOf(p, r)
        commit == IF reuse THEN old
                  ELSE IF usable THEN Append(old, TreeOf(p, r))
                  ELSE <<TreeOf(p, r)>>
    IN
    /\ At(p, "snapshot") /\ sync[p].queue # <<>>
    /\ odb' = [odb EXCEPT ![r] = @ \cup {commit}]
    /\ Moves(p, [sync[p] EXCEPT
                !.queue = Tail(@), !.snap[r] = commit,
                !.base[r] = IF usable /\ ~reuse THEN old ELSE None])
    /\ UNCHANGED <<work, tmp, last, remoteVars>> /\ NoFault

(* All built: nothing changed since the last sync leads to the fast path.  *)
Compare(p) ==
    /\ At(p, "snapshot") /\ sync[p].queue = <<>>
    /\ Moves(p, IF last # None /\ sync[p].old = sync[p].snap
                THEN [sync[p] EXCEPT !.pc = "heads", !.fast = TRUE,
                                     !.queue = Order]
                ELSE [sync[p] EXCEPT !.pc = "probe"])
    /\ UNCHANGED <<localVars, remoteVars>> /\ NoFault

-----------------------------------------------------------------------------
(* Transport                                                               *)

(* _remote_parity_heads: one script reads the parity refs in turn.         *)
QueryParity(p) ==
    /\ At(p, "probe") /\ up
    /\ Moves(p, [sync[p] EXCEPT !.pc = "ask", !.queue = Order,
                                !.probe = [r \in Repos |-> None]])
    /\ UNCHANGED <<localVars, remoteVars>> /\ NoFault

(* Faulty variant: bundles are pushed from the root down.                  *)
PlanTopDown(p) ==
    /\ At(p, "ask") /\ sync[p].queue = <<>>
    /\ Moves(p, [sync[p] EXCEPT !.pc = "push", !.queue = Reverse(Order)])
    /\ UNCHANGED <<localVars, remoteVars>> /\ NoFault

ReadParity(p) ==
    LET r == Head(sync[p].queue) IN
    /\ At(p, "ask") /\ sync[p].queue # <<>> /\ up
    /\ Moves(p, [sync[p] EXCEPT !.queue = Tail(@),
                                !.probe[r] = parity[MirrorOf[r]]])
    /\ UNCHANGED <<localVars, remoteVars>> /\ NoFault

(* The answer is there: _push_bundles goes through the repositories.       *)
PlanBundles(p) ==
    /\ At(p, "ask") /\ sync[p].queue = <<>>
    /\ Moves(p, [sync[p] EXCEPT !.pc = "push", !.queue = Order])
    /\ UNCHANGED <<localVars, remoteVars>> /\ NoFault

(* Faulty variant: the remote side is trusted to hold the base.            *)
BundlePlanUnprobed(commit, base, remote) ==
    IF remote = commit THEN "skip"
    ELSE IF base # None THEN "delta"
    ELSE "full"

(* _bundle_plan                                                            *)
BundlePlan(commit, base, remote) ==
    IF remote = commit THEN "skip"
    ELSE IF base # None /\ remote = base THEN "delta"
    ELSE "full"

PlanOf(p, r) == BundlePlan(sync[p].snap[r], sync[p].base[r], sync[p].probe[r])

SkipRepo(p) ==
    /\ At(p, "push") /\ sync[p].queue # <<>>
    /\ PlanOf(p, Head(sync[p].queue)) = "skip"
    /\ Moves(p, [sync[p] EXCEPT !.queue = Tail(@)])
    /\ UNCHANGED <<localVars, remoteVars>> /\ NoFault

(* git update-ref of the temporary ref                                     *)
SetTemporaryRef(p) ==
    LET r == Head(sync[p].queue) IN
    /\ At(p, "push") /\ sync[p].queue # <<>>
    /\ PlanOf(p, r) # "skip"
    /\ tmp' = [tmp EXCEPT ![r] = sync[p].snap[r]]
    /\ Moves(p, [sync[p] EXCEPT !.pc = "pipe"])
    /\ UNCHANGED <<work, odb, last, remoteVars>> /\ NoFault

(* Faulty variants: the bundle holds the commit without its ancestors, or  *)
(* its ancestors without the commit.                                       *)
HistoryTip(c) == {c}
HistoryBefore(c) == {SubSeq(c, 1, i) : i \in 1 .. Len(c) - 1}

(* What a full bundle of c carries.                                        *)
History(c) == {SubSeq(c, 1, i) : i \in 1 .. Len(c)}

(* The bundle is cut at whatever the temporary ref names now; the mirror   *)
(* accepts it when it holds the wanted commit and a delta finds its base.  *)
Accepted(p, r) ==
    /\ tmp[r] = sync[p].snap[r]
    /\ PlanOf(p, r) = "delta" => sync[p].base[r] \in objs[MirrorOf[r]]

(* bundle create | ssh "cat > bundle; git fetch --force commit:parity"     *)
PipeBundle(p) ==
    LET r == Head(sync[p].queue)
        m == MirrorOf[r]
        c == sync[p].snap[r]
    IN
    /\ At(p, "pipe") /\ up
    /\ IF Accepted(p, r)
       THEN /\ objs' = [objs EXCEPT ![m] = @ \cup
                   IF PlanOf(p, r) = "delta" THEN {c} ELSE History(c)]
            /\ parity' = [parity EXCEPT ![m] = c]
       ELSE UNCHANGED <<objs, parity>>
    /\ Moves(p, [sync[p] EXCEPT !.pc = "unref", !.good = Accepted(p, r)])
    /\ UNCHANGED <<localVars, up, head, touched, script>> /\ NoFault

(* finally: delete the temporary ref; a failed transfer is an SSHError.    *)
DeleteTemporaryRef(p) ==
    LET r == Head(sync[p].queue) IN
    /\ At(p, "unref")
    /\ tmp' = [tmp EXCEPT ![r] = None]
    /\ Moves(p, IF sync[p].good
                THEN [sync[p] EXCEPT !.pc = "push", !.queue = Tail(@)]
                ELSE Ended(p, "error"))
    /\ UNCHANGED <<work, odb, last, remoteVars>> /\ NoFault

-----------------------------------------------------------------------------
(* _materialize                                                            *)

(* Send the script: each repository before those mounted in it.            *)
SendScript(p) ==
    /\ At(p, "push") /\ sync[p].queue = <<>> /\ up
    /\ script' = [script EXCEPT ![p] = Reverse(Order)]
    /\ Moves(p, [sync[p] EXCEPT !.pc = "materialize"])
    /\ UNCHANGED <<localVars, up, objs, parity, head, touched>> /\ NoFault

(* A checkout of c in r comes between q's reads of the root.               *)
MovesRoot(q, r, c) ==
    /\ At(q, "status") /\ sync[q].queue = <<Root>>
    /\ r = Root /\ head[r] # c

(* The script, on the machine: fetch the parity ref, checkout, reset and   *)
(* clean one repository; `set -e' stops it at a mirror without the ref.    *)
MaterializeRepo(p) ==
    LET r == Head(script[p])
        c == parity[MirrorOf[r]]
    IN
    /\ script[p] # <<>> /\ up
    /\ IF c # None
       THEN /\ head' = [head EXCEPT ![r] = c]
            /\ touched' = [touched EXCEPT ![r] = FALSE]
            /\ script' = [script EXCEPT ![p] = Tail(@)]
            /\ sync' = [q \in Procs |->
                  IF q = p THEN sync[q]
                  ELSE [sync[q] EXCEPT
                           !.quiet = FALSE,
                           !.moved = @ \/ MovesRoot(q, r, c)]]
       ELSE /\ UNCHANGED <<head, touched>>
            /\ script' = [script EXCEPT ![p] = <<>>]
            /\ Moves(p, IF At(p, "materialize") THEN Ended(p, "error")
                        ELSE sync[p])
    /\ UNCHANGED <<localVars, up, objs, parity>> /\ NoFault

(* ssh returns 0: go on to _verify_remote.                                 *)
ScriptReturns(p) ==
    /\ At(p, "materialize") /\ script[p] = <<>>
    /\ Moves(p, [sync[p] EXCEPT !.pc = "heads", !.fast = FALSE, !.good = TRUE,
                                !.queue = Order,
                                !.seen = [r \in Repos |-> None]])
    /\ UNCHANGED <<localVars, remoteVars>> /\ NoFault

-----------------------------------------------------------------------------
(* _verify_remote                                                          *)

Below[r \in Repos] == {r} \cup UNION {Below[k] : k \in Kids[r]}

(* git status in r also reports a mounted repository that has changed      *)
(* files or whose HEAD is not the commit r records for it.                 *)
Dirty(r) ==
    \E d \in Below[r] :
        \/ touched[d]
        \/ head[d] = None
        \/ \E k \in Kids[d] : head[k] # Last(head[d]).links[k]

Agree(p) == \A r \in Repos : head[r] = sync[p].snap[r]

(* rev-parse HEAD of the next repository, in postorder.                    *)
ReadHead(p) ==
    LET r == Head(sync[p].queue) IN
    /\ At(p, "heads") /\ up
    /\ head[r] # None
    /\ Moves(p, [sync[p] EXCEPT
                !.pc = "status", !.seen[r] = head[r],
                !.agreed = @ \/ Agree(p)])
    /\ UNCHANGED <<localVars, remoteVars>> /\ NoFault

ReadStatus(p) ==
    LET r == Head(sync[p].queue) IN
    /\ At(p, "status") /\ up /\ sync[p].queue # <<>>
    /\ Moves(p, [sync[p] EXCEPT
                !.pc = IF Len(sync[p].queue) > 1 THEN "heads" ELSE "status",
                !.queue = Tail(@), !.good = @ /\ ~Dirty(r),
                !.agreed = @ \/ Agree(p)])
    /\ UNCHANGED <<localVars, remoteVars>> /\ NoFault

(* Faulty variant: the fast path reports its own mismatch.                 *)
RejectAtOnce(p) == Ended(p, "failed")

(* The fast path goes on to a full sync; a full sync has failed.           *)
Reject(p) ==
    IF sync[p].fast THEN [sync[p] EXCEPT !.pc = "probe", !.agreed = FALSE,
                                          !.moved = FALSE]
    ELSE Ended(p, "failed")

(* A sample compares remote files of the snapshot with the local files of  *)
(* now: edits made since may be noticed, but only in sampled files.        *)
SampleMayDiffer(p) ==
    \E r \in Repos : Last(sync[p].snap[r]).content # work[r]

(* Faulty variant: a clean status is enough.                               *)
MatchesCleanly(p) == sync[p].good

(* Every HEAD is the snapshot's commit and every status is empty.          *)
Matches(p) == sync[p].good /\ sync[p].seen = sync[p].snap

Accept(p) ==
    /\ At(p, "status") /\ sync[p].queue = <<>>
    /\ Matches(p)
    /\ Moves(p, IF sync[p].fast THEN Ended(p, "no_change")
                ELSE [sync[p] EXCEPT !.pc = "save"])
    /\ UNCHANGED <<localVars, remoteVars>> /\ NoFault

Refuse(p) ==
    /\ \/ /\ At(p, "status") /\ sync[p].queue = <<>>
          /\ ~Matches(p) \/ (~sync[p].fast /\ SampleMayDiffer(p))
       \/ /\ At(p, "heads") /\ up
          /\ head[Head(sync[p].queue)] = None
    /\ Moves(p, Reject(p))
    /\ UNCHANGED <<localVars, remoteVars>> /\ NoFault

(* _save_last_state                                                        *)
SaveState(p) ==
    /\ At(p, "save")
    /\ last' = sync[p].snap
    /\ Moves(p, Ended(p, "ready"))
    /\ UNCHANGED <<work, odb, tmp, remoteVars>> /\ NoFault

Finish(p) ==
    /\ At(p, "ended")
    /\ Moves(p, IdleSync)
    /\ UNCHANGED <<localVars, remoteVars>> /\ NoFault

Step(p) ==
    \/ Start(p) \/ EnsureUp(p) \/ BuildSnapshot(p) \/ Compare(p)
    \/ QueryParity(p) \/ ReadParity(p) \/ PlanBundles(p) \/ SkipRepo(p)
    \/ SetTemporaryRef(p) \/ PipeBundle(p) \/ DeleteTemporaryRef(p)
    \/ SendScript(p) \/ MaterializeRepo(p) \/ ScriptReturns(p)
    \/ ReadHead(p) \/ ReadStatus(p) \/ Accept(p) \/ Refuse(p)
    \/ SaveState(p) \/ Finish(p)

-----------------------------------------------------------------------------
(* What goes wrong, and what others do.                                    *)

(* _bundle_tmp names the file on the machine after repository and commit:  *)
(* another sync that pipes the same commit may write over it or remove it. *)
SharesBundle(p, q) ==
    LET r == Head(sync[p].queue) IN
    /\ p # q /\ At(p, "pipe") /\ At(q, "pipe")
    /\ Head(sync[q].queue) = r /\ sync[q].snap[r] = sync[p].snap[r]

(* A failure that is no fault: the machine is down, or a bundle is shared. *)
FaultUnlessBound(p) ==
    IF up /\ \A q \in Procs : ~SharesBundle(p, q) THEN Fault ELSE NoFault

(* SSHError from a timeout or a failed transfer; from the pipe it passes   *)
(* through the finally clause, from _verify_remote it is a rejection when  *)
(* ssh returned 255.                                                       *)
SshFails(p) ==
    LET quietless(s) == [s EXCEPT !.quiet = FALSE] IN
    /\ sync[p].pc \in {"probe", "ask", "pipe", "materialize", "heads",
                       "status"}
    /\ \/ /\ At(p, "pipe")
          /\ Moves(p, quietless([sync[p] EXCEPT !.pc = "unref", !.good = FALSE]))
       \/ /\ ~At(p, "pipe")
          /\ Moves(p, quietless(Ended(p, "error")))
       \/ /\ Verifying(p)
          /\ Moves(p, quietless(Reject(p)))
    /\ UNCHANGED <<localVars, remoteVars>> /\ FaultUnlessBound(p)

(* The process is killed; refs, mirrors and its script stay as they are.   *)
Killed(p) ==
    /\ sync[p].pc \in Busy
    /\ Moves(p, IdleSync)
    /\ UNCHANGED <<localVars, remoteVars>> /\ Fault

EditFiles(r) ==
    /\ edits < MaxEdits /\ edits + faults < MaxEvents
    /\ \E c \in Content \ {work[r]} : work' = [work EXCEPT ![r] = c]
    /\ edits' = edits + 1
    /\ Disturb
    /\ UNCHANGED <<odb, tmp, last, remoteVars, faults>>

(* git gc prunes the unreachable snapshot commits of a repository; recent  *)
(* objects are spared, so none of a sync under way.                        *)
PruneObjects(r) ==
    /\ \A p \in Procs : sync[p].pc \notin Busy
    /\ odb[r] # {}
    /\ odb' = [odb EXCEPT ![r] = {}]
    /\ Disturb
    /\ UNCHANGED <<work, tmp, last, remoteVars>> /\ Fault

(* A command on the machine changes files of a work tree.                  *)
TouchRemote(r) ==
    /\ up /\ head[r] # None /\ ~touched[r]
    /\ touched' = [touched EXCEPT ![r] = TRUE]
    /\ Disturb
    /\ UNCHANGED <<localVars, up, objs, parity, head, script>> /\ Fault

(* `remote down' removes the container with its workspace and scripts;     *)
(* `remote up' makes an empty one.                                         *)
TakeDown ==
    /\ up
    /\ up' = FALSE
    /\ objs' = [m \in Mirrors |-> {}]
    /\ parity' = [m \in Mirrors |-> None]
    /\ head' = [r \in Repos |-> None]
    /\ touched' = [r \in Repos |-> FALSE]
    /\ script' = [p \in Procs |-> <<>>]
    /\ sync' = [p \in Procs |->
                  IF At(p, "materialize") /\ script[p] # <<>>
                  THEN [Ended(p, "error") EXCEPT !.quiet = FALSE]
                  ELSE [sync[p] EXCEPT !.quiet = FALSE]]
    /\ UNCHANGED localVars /\ Fault

BringUp ==
    /\ ~up
    /\ up' = TRUE
    /\ Disturb
    /\ UNCHANGED <<localVars, objs, parity, head, touched, script>> /\ NoFault

Next ==
    \/ \E p \in Procs : Step(p) \/ SshFails(p) \/ Killed(p)
    \/ \E r \in Repos : EditFiles(r) \/ PruneObjects(r) \/ TouchRemote(r)
    \/ TakeDown \/ BringUp

Spec == Init /\ [][Next]_vars

-----------------------------------------------------------------------------
(* Properties.                                                             *)

(* A sync that nothing disturbs while it runs succeeds, whatever earlier   *)
(* syncs, killed or failed at any point, edits, prunes and changes of the  *)
(* remote side have left behind.                                           *)
QuietSyncSucceeds ==
    \A p \in Procs :
        At(p, "ended") /\ sync[p].quiet
            => sync[p].result \notin {"failed", "error"}

(* ready and no_change are true: there was an instant during the           *)
(* verification at which every remote HEAD was the snapshot's commit,      *)
(* although the script reads them one after the other while other syncs    *)
(* move them: the root, which records what is mounted in it, is read last. *)
(* (A sync that checks out another commit of the root between the reads of *)
(* its HEAD and of its status can hide a mismatch.)                        *)
SuccessWasTrue ==
    \A p \in Procs :
        At(p, "ended") /\ sync[p].result \in {"ready", "no_change"}
                      /\ ~sync[p].moved
            => sync[p].agreed

(* Mirrors are fed bottom-up: a parity ref never records a commit of a     *)
(* mounted repository that the latter's mirror lacks, however syncs        *)
(* overlap.  (A `remote down' between two pushes of one sync takes the     *)
(* mirrors already fed away, which the verification then finds out.)       *)
MirrorsComplete ==
    faults = 0 => \A r \in Repos :
        parity[MirrorOf[r]] # None =>
            \A k \in Kids[r] :
                Last(parity[MirrorOf[r]]).links[k] \in objs[MirrorOf[k]]

(* A mirror holds the whole history of every commit it holds: a delta is   *)
(* accepted only on top of its base.                                       *)
MirrorsClosed ==
    \A m \in Mirrors : \A c \in objs[m] :
        \A i \in 1 .. Len(c) : SubSeq(c, 1, i) \in objs[m]
=============================================================================
