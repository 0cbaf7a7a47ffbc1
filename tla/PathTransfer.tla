---------------------------- MODULE PathTransfer ----------------------------
(***************************************************************************)
(* `remote sync --paths' (sync_paths.py, a push) and `remote pull'         *)
(* (pull.py): a tar stream from one side to the other, checked by sha256.  *)
(*                                                                         *)
(* A push lists, streams, hashes the source, hashes the destination; a     *)
(* pull hashes the source, reads the whole archive, unpacks it, hashes the *)
(* destination.  None of them locks anything: users and commands edit both *)
(* sides, and other transfers write them, between any two of these steps.  *)
(* A content is a number that no earlier content had; a hash is the        *)
(* content itself.                                                         *)
(***************************************************************************)
EXTENDS Naturals

CONSTANTS
    Files,      \* paths of regular files below workspace root and --dest
    Dropped,    \* those whose line in sha256sum's output the parser drops
    Misread,    \* those whose line it takes for that of another path
    Trees,      \* what the two sides may hold at first
    Procs,      \* CLI processes
    Requests,   \* what they may be asked for, see Request
    MaxContent, \* bound on edits, torn writes included
    MaxFaults,  \* bound on broken connections and killed processes
    MaxCalls,   \* bound on calls
    MaxEvents,  \* bound on all of these together
    None        \* no such file, no content

Side == {"local", "remote"}
Content == 0 .. MaxContent

(* dir: one directory that holds the files; else the files are the         *)
(* arguments themselves.                                                   *)
Request == [push : BOOLEAN, dir : BOOLEAN, files : SUBSET Files]

ASSUME TransferAssumption ==
    /\ Dropped \subseteq Files /\ Misread \subseteq Files \ Dropped
    /\ Trees \subseteq [Side -> [Files -> {None, 0}]]
    /\ Requests \subseteq Request
    /\ {MaxContent, MaxFaults, MaxCalls, MaxEvents} \subseteq Nat
    /\ None \notin Nat \cup Procs

VARIABLES
    tree,       \* tree[side][f]: the content of f
    fresh,      \* the last content in use
    pc,         \* pc[p]: control state of the call
    ask,        \* ask[p]: its request
    names,      \* names[p]: files_map of a push, the manifest's of a pull
    todo,       \* todo[p]: files its present stage has still to read
    stream,     \* stream[p]: what tar has read and not yet unpacked
    source,     \* source[p]: hashes taken at the source
    dest,       \* dest[p]: hashes taken at the destination
    vanished,   \* vanished[p]: tar missed a file it had listed
    sent,       \* sent[p]: (history) files it has unpacked
    past,       \* past[p]: (history) source trees since the call began
    sole,       \* sole[p]: (history) no other transfer wrote on either side,
                \* and nobody else its destination
    calm,       \* calm[p]: (history) nobody else wrote on either side
    calls,      \* number of calls so far
    faults      \* number of faults so far

callVars == <<pc, ask, names, todo, stream, source, dest, vanished>>
treeVars == <<tree, fresh, past, sole, calm, sent>>
vars     == <<callVars, treeVars, calls, faults>>

Stage == {"idle", "finding", "summing", "walking", "reading", "writing",
          "piping", "checking", "ready", "failed", "error", "broken"}
Over  == {"ready", "failed", "error", "broken"}
Listing == [Files -> Content \cup {None}]
Blank == [f \in Files |-> None]

TypeOK ==
    /\ tree \in [Side -> Listing]
    /\ fresh \in Content
    /\ pc \in [Procs -> Stage]
    /\ ask \in [Procs -> Request]
    /\ names \in [Procs -> SUBSET Files]
    /\ todo \in [Procs -> SUBSET Files]
    /\ stream \in [Procs -> Listing]
    /\ source \in [Procs -> Listing]
    /\ dest \in [Procs -> Listing]
    /\ vanished \in [Procs -> BOOLEAN]
    /\ past \in [Procs -> SUBSET Listing]
    /\ sent \in [Procs -> SUBSET Files]
    /\ sole \in [Procs -> BOOLEAN]
    /\ calm \in [Procs -> BOOLEAN]
    /\ calls \in 0 .. MaxCalls
    /\ faults \in 0 .. MaxFaults

NoRequest == [push |-> FALSE, dir |-> FALSE, files |-> {}]

Init ==
    /\ tree \in Trees
    /\ fresh = 0
    /\ pc = [p \in Procs |-> "idle"]
    /\ ask = [p \in Procs |-> NoRequest]
    /\ names = [p \in Procs |-> {}]
    /\ todo = [p \in Procs |-> {}]
    /\ stream = [p \in Procs |-> Blank]
    /\ source = [p \in Procs |-> Blank]
    /\ dest = [p \in Procs |-> Blank]
    /\ vanished = [p \in Procs |-> FALSE]
    /\ past = [p \in Procs |-> {}]
    /\ sent = [p \in Procs |-> {}]
    /\ sole = [p \in Procs |-> TRUE]
    /\ calm = [p \in Procs |-> TRUE]
    /\ calls = 0
    /\ faults = 0

-----------------------------------------------------------------------------
Active(p) == pc[p] # "idle"
From(p) == IF ask[p].push THEN "local" ELSE "remote"
Onto(p) == IF ask[p].push THEN "remote" ELSE "local"

(* The requested files that exist at the source, and whether every         *)
(* argument does.                                                          *)
Present(side, r) == {f \in r.files : tree[side][f] # None}
Complete(side, r) == r.dir \/ Present(side, r) = r.files

Quota == calls + fresh + faults < MaxEvents

(* Some of a tree changes, by the hand of p or, if p is None, of others.   *)
Alter(p, side, new) ==
    /\ tree' = [tree EXCEPT ![side] = new]
    /\ past' = [q \in Procs |-> IF Active(q) /\ From(q) = side
                                THEN past[q] \cup {new} ELSE past[q]]
    /\ sole' = [q \in Procs |->
                    sole[q] /\ (q = p \/ (p = None /\ Onto(q) # side))]
    /\ calm' = [q \in Procs |-> calm[q] /\ q = p]

(* The call goes on with another stage and the files that stage visits.    *)
Proceed(p, stage, visit) ==
    /\ pc' = [pc EXCEPT ![p] = stage]
    /\ todo' = [todo EXCEPT ![p] = visit]

Visited(p, f) == todo' = [todo EXCEPT ![p] = @ \ {f}]

(* Faulty variant: the parser takes a whole line, hash and path, for a     *)
(* path.                                                                   *)
WholeLines(S) == {<<f, f>> : f \in S}

(* _parse_sha256_output: the lines it keeps.  sha256sum puts a backslash   *)
(* before the hash of a path that it escapes.                              *)
Kept(S) == S \ Dropped

(* ... and those it keeps under their path: a blank or asterisk at the     *)
(* beginning of one is taken for the separator.                            *)
Legible(S) == Kept(S) \ Misread

-----------------------------------------------------------------------------
(* A call begins: a push resolves its arguments and lists their files, a   *)
(* pull only makes --dest.                                                 *)
Starts(p, r) ==
    /\ pc[p] = "idle"
    /\ Quota /\ calls < MaxCalls /\ calls' = calls + 1
    /\ ask' = [ask EXCEPT ![p] = r]
    /\ pc' = [pc EXCEPT ![p] =
                IF ~r.push THEN "finding"
                ELSE IF Complete("local", r) THEN "walking" ELSE "error"]
    /\ names' = [names EXCEPT ![p] = IF r.push THEN Present("local", r) ELSE {}]
    /\ past' = [past EXCEPT ![p] = {tree[IF r.push THEN "local" ELSE "remote"]}]
    /\ sole' = [sole EXCEPT ![p] = TRUE]
    /\ calm' = [calm EXCEPT ![p] = TRUE]
    /\ UNCHANGED <<tree, fresh, sent, todo, stream, source, dest, vanished,
                   faults>>

(* Pull: the manifest script checks its arguments and finds their files.   *)
Finds(p) ==
    /\ pc[p] = "finding"
    /\ names' = [names EXCEPT ![p] = Present("remote", ask[p])]
    /\ IF Complete("remote", ask[p])
          THEN Proceed(p, "summing", names'[p])
          ELSE Proceed(p, "error", {})
    /\ UNCHANGED <<ask, stream, source, dest, vanished, treeVars, calls, faults>>

(* sha256sum of one file of the source: on the machine for a pull's        *)
(* manifest, _local_sha256 for a push.  A file that is gone ends the call. *)
Sums(p, f) ==
    /\ pc[p] = "summing" /\ f \in todo[p]
    /\ source' = [source EXCEPT ![p][f] = tree[From(p)][f]]
    /\ IF tree[From(p)][f] = None
          THEN Proceed(p, "error", {})
          ELSE Visited(p, f) /\ UNCHANGED pc
    /\ UNCHANGED <<ask, names, stream, dest, vanished, treeVars, calls, faults>>

(* The hashes are complete.  A pull keeps the lines it can parse and runs  *)
(* tar; a push checks the destination.                                     *)
Summed(p) ==
    /\ pc[p] = "summing" /\ todo[p] = {}
    /\ names' = [names EXCEPT ![p] = IF ask[p].push THEN @ ELSE Kept(@)]
    /\ IF ask[p].push
          THEN Proceed(p, "checking", names[p])
          ELSE Proceed(p, "walking", {})
    /\ UNCHANGED <<ask, stream, source, dest, vanished, treeVars, calls, faults>>

(* tar looks its arguments up anew; a missing one makes it fail later.     *)
Walks(p) ==
    /\ pc[p] = "walking"
    /\ Proceed(p, IF ask[p].push THEN "piping" ELSE "reading",
               Present(From(p), ask[p]))
    /\ vanished' = [vanished EXCEPT ![p] = ~Complete(From(p), ask[p])]
    /\ UNCHANGED <<ask, names, stream, source, dest, treeVars, calls, faults>>

(* tar archives one file.                                                  *)
Reads(p, f) ==
    /\ pc[p] \in {"reading", "piping"} /\ f \in todo[p]
    /\ Visited(p, f)
    /\ stream' = [stream EXCEPT ![p][f] = tree[From(p)][f]]
    /\ vanished' = [vanished EXCEPT ![p] = @ \/ tree[From(p)][f] = None]
    /\ UNCHANGED <<pc, ask, names, source, dest, treeVars, calls, faults>>

(* Pull: ssh_run returns the whole archive with tar's return code.         *)
Archived(p) ==
    /\ pc[p] = "reading" /\ todo[p] = {}
    /\ Proceed(p, IF vanished[p] THEN "error" ELSE "writing", {})
    /\ UNCHANGED <<ask, names, stream, source, dest, vanished, treeVars, calls,
                   faults>>

(* Faulty variant: tar -x that keeps files that exist.                     *)
UnpacksNew(p, f) ==
    /\ pc[p] \in {"piping", "writing"} /\ stream[p][f] # None
    /\ stream' = [stream EXCEPT ![p][f] = None]
    /\ Alter(p, Onto(p), [tree[Onto(p)] EXCEPT ![f] =
                            IF @ = None THEN stream[p][f] ELSE @])
    /\ sent' = [sent EXCEPT ![p] = @ \cup {f}]
    /\ UNCHANGED <<pc, ask, names, todo, source, dest, vanished, fresh, calls,
                   faults>>

(* tar -x writes one file over what is there; the remote end of a push     *)
(* while the local end still reads.                                        *)
Unpacks(p, f) ==
    /\ pc[p] \in {"piping", "writing"} /\ stream[p][f] # None
    /\ stream' = [stream EXCEPT ![p][f] = None]
    /\ Alter(p, Onto(p), [tree[Onto(p)] EXCEPT ![f] = stream[p][f]])
    /\ sent' = [sent EXCEPT ![p] = @ \cup {f}]
    /\ UNCHANGED <<pc, ask, names, todo, source, dest, vanished, fresh, calls,
                   faults>>

(* Push: both ends of ssh_pipe are over.  Without regular files there is   *)
(* nothing to hash.                                                        *)
Piped(p) ==
    /\ pc[p] = "piping" /\ todo[p] = {} /\ stream[p] = Blank
    /\ IF vanished[p] THEN Proceed(p, "error", {})
       ELSE IF names[p] = {} THEN Proceed(p, "ready", {})
       ELSE Proceed(p, "summing", names[p])
    /\ UNCHANGED <<ask, names, stream, source, dest, vanished, treeVars, calls,
                   faults>>

(* Pull: tar -x has returned 0; what is kept of the manifest follows.      *)
Unpacked(p) ==
    /\ pc[p] = "writing" /\ stream[p] = Blank
    /\ Proceed(p, "checking", names[p])
    /\ UNCHANGED <<ask, names, stream, source, dest, vanished, treeVars, calls,
                   faults>>

(* What lies at the destination under the path a call has for f: a push    *)
(* asks for f itself, a pull for what it has read in the manifest, and a   *)
(* path that was misread is nobody's.                                      *)
Lies(p, f) ==
    IF ask[p].push \/ f \notin Misread THEN tree[Onto(p)][f] ELSE None

(* sha256 of one file at the destination; a push asks the machine, whose   *)
(* sha256sum fails for a missing file, a pull looks for itself.            *)
Checks(p, f) ==
    /\ pc[p] = "checking" /\ f \in todo[p]
    /\ dest' = [dest EXCEPT ![p][f] = Lies(p, f)]
    /\ IF Lies(p, f) = None
          THEN Proceed(p, IF ask[p].push THEN "failed" ELSE "error", {})
          ELSE Visited(p, f) /\ UNCHANGED pc
    /\ UNCHANGED <<ask, names, stream, source, vanished, treeVars, calls, faults>>

(* Faulty variant: the comparison looks at the names only.                 *)
SameNames(p) == \A f \in names[p] : dest[p][f] # None /\ source[p][f] # None

(* remote_hashes == local_hashes                                           *)
Agree(p) ==
    /\ ask[p].push => Legible(names[p]) = names[p]
    /\ \A f \in names[p] : dest[p][f] = source[p][f]

Checked(p) ==
    /\ pc[p] = "checking" /\ todo[p] = {}
    /\ Proceed(p, IF Agree(p) THEN "ready"
                  ELSE IF ask[p].push THEN "failed" ELSE "error", {})
    /\ UNCHANGED <<ask, names, stream, source, dest, vanished, treeVars, calls,
                   faults>>

(* The process is over; nothing of it remains but what it wrote.           *)
Returns(p) ==
    /\ pc[p] \in Over
    /\ Proceed(p, "idle", {})
    /\ ask' = [ask EXCEPT ![p] = NoRequest]
    /\ names' = [names EXCEPT ![p] = {}]
    /\ stream' = [stream EXCEPT ![p] = Blank]
    /\ source' = [source EXCEPT ![p] = Blank]
    /\ dest' = [dest EXCEPT ![p] = Blank]
    /\ vanished' = [vanished EXCEPT ![p] = FALSE]
    /\ past' = [past EXCEPT ![p] = {}]
    /\ sent' = [sent EXCEPT ![p] = {}]
    /\ UNCHANGED <<tree, fresh, sole, calm, calls, faults>>

-----------------------------------------------------------------------------
(* A user or a command writes or deletes a file.                           *)
Edits(side, f) ==
    /\ Quota /\ fresh < MaxContent /\ fresh' = fresh + 1
    /\ \E c \in {None, fresh'} : Alter(None, side, [tree[side] EXCEPT ![f] = c])
    /\ UNCHANGED <<callVars, sent, calls, faults>>

(* The connection breaks, tar fails or the process is killed.  tar -x may  *)
(* have left the file it was writing cut short.                            *)
Breaks(p) ==
    /\ Active(p) /\ pc[p] \notin Over
    /\ Quota /\ faults < MaxFaults /\ faults' = faults + 1
    /\ Proceed(p, "broken", {})
    /\ \/ UNCHANGED treeVars
       \/ /\ fresh < MaxContent /\ fresh' = fresh + 1
          /\ \E f \in Files :
                /\ pc[p] \in {"piping", "writing"} /\ stream[p][f] # None
                /\ Alter(p, Onto(p), [tree[Onto(p)] EXCEPT ![f] = fresh'])
    /\ UNCHANGED <<ask, names, stream, source, dest, vanished, sent, calls>>

Step(p) ==
    \/ \E r \in Requests : Starts(p, r)
    \/ \E f \in Files :
          Sums(p, f) \/ Reads(p, f) \/ Unpacks(p, f) \/ Checks(p, f)
    \/ Finds(p) \/ Summed(p) \/ Walks(p) \/ Archived(p) \/ Piped(p)
    \/ Unpacked(p) \/ Checked(p) \/ Returns(p)

Next ==
    \/ \E p \in Procs : Step(p) \/ Breaks(p)
    \/ \E side \in Side, f \in Files : Edits(side, f)

Spec == Init /\ [][Next]_vars

-----------------------------------------------------------------------------
(* Properties.                                                             *)

(* The files that a ready transfer has delivered and verified lay at the   *)
(* source all together, with these contents, at one moment of the call,    *)
(* although they were read one by one while others edited them: reading    *)
(* everything twice and comparing makes the copy a snapshot.  It needs a   *)
(* destination that nobody else writes, since a file of another transfer   *)
(* can pass the check in the place of one's own, and a source to which no  *)
(* other transfer brings an old content back.                              *)
ReadyIsSnapshot ==
    \A p \in Procs :
        pc[p] = "ready" /\ sole[p] =>
            \E t \in past[p] :
                \A f \in names[p] \cap sent[p] : t[f] = dest[p][f]

(* A call that nobody disturbs ends ready exactly when all its arguments   *)
(* exist and the paths in the machine's answer allow it, whatever earlier  *)
(* calls, broken ones too, have left at the destination, and then the      *)
(* destination has all of the requested files.  A push wants each path     *)
(* back; a pull looks for every path it has read, so that a dropped one    *)
(* goes unnoticed and a misread one is missing.                            *)
UndisturbedCopies ==
    \A p \in Procs :
        LET here == Present(From(p), ask[p]) IN
        pc[p] \in Over \ {"broken"} /\ calm[p] =>
            /\ pc[p] = "ready" <=>
                  /\ Complete(From(p), ask[p])
                  /\ (IF ask[p].push THEN here ELSE Kept(here)) \subseteq Legible(here)
            /\ pc[p] = "ready" =>
                  \A f \in here : tree[Onto(p)][f] = tree[From(p)][f]
=============================================================================
