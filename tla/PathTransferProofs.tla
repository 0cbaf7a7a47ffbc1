------------------------- MODULE PathTransferProofs -------------------------
(***************************************************************************)
(* A transfer that ends ready has delivered a snapshot of its source, and  *)
(* one that nobody disturbs succeeds exactly when it can, for every set of *)
(* files and processes, any requests, edits and faults.                    *)
(***************************************************************************)
EXTENDS PathTransfer, TLAPS

-----------------------------------------------------------------------------
(* Type correctness.                                                       *)

Tree == [Side -> Listing]

CallType ==
    /\ pc \in [Procs -> Stage]
    /\ ask \in [Procs -> Request]
    /\ names \in [Procs -> SUBSET Files]
    /\ todo \in [Procs -> SUBSET Files]
    /\ stream \in [Procs -> Listing]
    /\ source \in [Procs -> Listing]
    /\ dest \in [Procs -> Listing]
    /\ vanished \in [Procs -> BOOLEAN]

TreeType ==
    /\ tree \in Tree
    /\ fresh \in Content
    /\ past \in [Procs -> SUBSET Listing]
    /\ sent \in [Procs -> SUBSET Files]
    /\ sole \in [Procs -> BOOLEAN]
    /\ calm \in [Procs -> BOOLEAN]

CountType == calls \in 0 .. MaxCalls /\ faults \in 0 .. MaxFaults

Types == CallType /\ TreeType /\ CountType

LEMMA TypeParts == TypeOK <=> Types
BY DEF TypeOK, Types, CallType, TreeType, CountType, Tree

LEMMA BlankType == Blank \in Listing /\ NoRequest \in Request
BY DEF Blank, Listing, NoRequest, Request

LEMMA TypeInit == Init => Types
<1> SUFFICES ASSUME Init PROVE Types
  OBVIOUS
<1>1. [Files -> {None, 0}] \subseteq Listing
  BY TransferAssumption DEF Listing, Content
<1>2. TreeType
  BY <1>1, TransferAssumption DEF Init, TreeType, Tree, Content
<1>3. CallType
  BY BlankType DEF Init, CallType, Stage
<1>4. CountType
  BY TransferAssumption DEF Init, CountType
<1> QED
  BY <1>2, <1>3, <1>4 DEF Types

(* Altering one side of the tree keeps it a tree.                          *)
LEMMA AlterType ==
  ASSUME TreeType, NEW p, NEW side \in Side, NEW new \in Listing,
         Alter(p, side, new), fresh' \in Content, sent' \in [Procs -> SUBSET Files]
  PROVE  TreeType'
<1>1. tree' \in Tree
  BY DEF TreeType, Alter, Tree
<1>2. past' \in [Procs -> SUBSET Listing]
  <2>1. \A q \in Procs : past[q] \cup {new} \in SUBSET Listing
    BY DEF TreeType
  <2> QED
    BY <2>1 DEF TreeType, Alter
<1>3. sole' \in [Procs -> BOOLEAN]
  BY DEF Alter
<1>4. calm' \in [Procs -> BOOLEAN]
  BY DEF Alter
<1> QED
  BY <1>1, <1>2, <1>3, <1>4 DEF TreeType

LEMMA SideType ==
  ASSUME NEW p \in Procs
  PROVE  From(p) \in Side /\ Onto(p) \in Side /\ From(p) # Onto(p)
BY DEF From, Onto, Side

LEMMA PresentType ==
  ASSUME CallType, NEW p \in Procs, NEW side
  PROVE  Present(side, ask[p]) \in SUBSET Files
BY DEF Present, CallType, Request

LEMMA ProceedType ==
  ASSUME CallType, NEW p \in Procs, NEW stage \in Stage, NEW visit \in SUBSET Files,
         Proceed(p, stage, visit)
  PROVE  pc' \in [Procs -> Stage] /\ todo' \in [Procs -> SUBSET Files]
BY DEF CallType, Proceed

LEMMA VisitedType ==
  ASSUME CallType, NEW p \in Procs, NEW f \in Files, Visited(p, f)
  PROVE  todo' \in [Procs -> SUBSET Files]
BY DEF CallType, Visited

LEMMA PutType ==
  ASSUME NEW h \in [Procs -> Listing], NEW p \in Procs, NEW f \in Files,
         NEW c \in Content \cup {None}
  PROVE  [h EXCEPT ![p][f] = c] \in [Procs -> Listing]
<1>1. [h[p] EXCEPT ![f] = c] \in Listing
  BY DEF Listing
<1> QED
  BY <1>1

LEMMA CallSteps ==
  ASSUME Types, NEW p \in Procs,
         \/ Finds(p) \/ Summed(p) \/ Walks(p) \/ Archived(p) \/ Piped(p)
         \/ Unpacked(p) \/ Checked(p)
         \/ \E f \in Files : Sums(p, f) \/ Reads(p, f) \/ Checks(p, f)
  PROVE  Types'
<1> USE DEF Types
<1>1. TreeType' /\ CountType'
  BY DEF Finds, Summed, Walks, Archived, Piped, Unpacked, Checked, Sums, Reads,
         Checks, treeVars, TreeType, CountType
<1>2. CASE Finds(p)
  <2>1. names' \in [Procs -> SUBSET Files]
    BY <1>2, PresentType DEF Finds, CallType
  <2> QED
    BY <1>1, <1>2, <2>1, ProceedType DEF Finds, CallType, Stage
<1>3. CASE Summed(p)
  <2>1. names' \in [Procs -> SUBSET Files]
    BY <1>3 DEF Summed, CallType, Kept
  <2> QED
    BY <1>1, <1>3, <2>1, ProceedType DEF Summed, CallType, Stage
<1>4. CASE Walks(p)
  <2>1. vanished' \in [Procs -> BOOLEAN]
    BY <1>4 DEF Walks, CallType, Complete
  <2>2. pc' \in [Procs -> Stage] /\ todo' \in [Procs -> SUBSET Files]
    BY <1>4, PresentType, ProceedType DEF Walks, Stage
  <2> QED
    BY <1>1, <1>4, <2>1, <2>2 DEF Walks, CallType
<1>5. CASE Archived(p) \/ Piped(p) \/ Unpacked(p) \/ Checked(p)
  <2>1. PICK stage \in Stage, visit \in SUBSET Files : Proceed(p, stage, visit)
    BY <1>5 DEF Archived, Piped, Unpacked, Checked, Stage, CallType
  <2>2. pc' \in [Procs -> Stage] /\ todo' \in [Procs -> SUBSET Files]
    BY <2>1, ProceedType
  <2> QED
    BY <1>1, <1>5, <2>2 DEF Archived, Piped, Unpacked, Checked, CallType
<1>6. ASSUME NEW f \in Files, Sums(p, f) \/ Reads(p, f) \/ Checks(p, f)
      PROVE  Types'
  <2>1. /\ pc' \in [Procs -> Stage]
        /\ todo' \in [Procs -> SUBSET Files]
    BY <1>6, ProceedType, VisitedType DEF Sums, Reads, Checks, Stage, CallType
  <2>2. /\ tree[From(p)][f] \in Content \cup {None}
        /\ Lies(p, f) \in Content \cup {None}
    BY SideType DEF TreeType, Tree, Listing, Lies
  <2>3. /\ stream' \in [Procs -> Listing]
        /\ source' \in [Procs -> Listing]
        /\ dest' \in [Procs -> Listing]
    <3>1. CASE Sums(p, f)
      BY <2>2, <3>1, PutType DEF Sums, CallType
    <3>2. CASE Reads(p, f)
      BY <2>2, <3>2, PutType DEF Reads, CallType
    <3>3. CASE Checks(p, f)
      BY <2>2, <3>3, PutType DEF Checks, CallType
    <3> QED
      BY <1>6, <3>1, <3>2, <3>3
  <2>4. vanished' \in [Procs -> BOOLEAN]
    <3>1. CASE Reads(p, f)
      BY <3>1 DEF Reads, CallType
    <3>2. CASE ~Reads(p, f)
      BY <1>6, <3>2 DEF Sums, Checks, CallType
    <3> QED
      BY <3>1, <3>2
  <2>5. ask' = ask /\ names' = names
    BY <1>6 DEF Sums, Reads, Checks
  <2> QED
    BY <1>1, <2>1, <2>3, <2>4, <2>5 DEF CallType
<1> QED
  BY <1>2, <1>3, <1>4, <1>5, <1>6

LEMMA WriteSteps ==
  ASSUME Types, NEW p \in Procs, NEW f \in Files, Unpacks(p, f)
  PROVE  Types'
<1> USE DEF Types, Unpacks
<1>1. [tree[Onto(p)] EXCEPT ![f] = stream[p][f]] \in Listing
  BY SideType DEF TreeType, CallType, Tree, Listing
<1>2. TreeType'
  <2>1. sent' \in [Procs -> SUBSET Files] /\ fresh' \in Content
    BY DEF TreeType
  <2> QED
    BY <1>1, <2>1, SideType, AlterType
<1>3. CallType'
  BY DEF CallType, Listing
<1> QED
  BY <1>2, <1>3 DEF CountType

LEMMA EndSteps ==
  ASSUME Types, NEW p \in Procs, Returns(p) \/ \E r \in Requests : Starts(p, r)
  PROVE  Types'
<1> USE DEF Types
<1>1. CASE Returns(p)
  <2>1. CallType'
    BY <1>1, BlankType, ProceedType DEF Returns, CallType, Stage
  <2>2. TreeType'
    BY <1>1 DEF Returns, TreeType
  <2> QED
    BY <1>1, <2>1, <2>2 DEF Returns, CountType
<1>2. ASSUME NEW r \in Requests, Starts(p, r) PROVE Types'
  <2>1. r \in Request /\ Present("local", r) \in SUBSET Files
    BY TransferAssumption DEF Request, Present
  <2>2. CallType'
    BY <1>2, <2>1 DEF Starts, CallType, Stage
  <2>3. tree["local"] \in Listing /\ tree["remote"] \in Listing
    BY DEF TreeType, Tree, Side
  <2>4. past' \in [Procs -> SUBSET Listing]
    BY <1>2, <2>3 DEF Starts, TreeType
  <2>5. sole' \in [Procs -> BOOLEAN] /\ calm' \in [Procs -> BOOLEAN]
    BY <1>2 DEF Starts, TreeType
  <2>6. calls' \in 0 .. MaxCalls
    BY <1>2, TransferAssumption DEF Starts, CountType
  <2> QED
    BY <1>2, <2>2, <2>4, <2>5, <2>6 DEF Starts, TreeType, CountType
<1> QED
  BY <1>1, <1>2

LEMMA EditSteps ==
  ASSUME Types, NEW side \in Side, NEW f \in Files, Edits(side, f)
  PROVE  Types'
<1> USE DEF Types, Edits
<1>1. fresh' \in Content
  BY TransferAssumption DEF TreeType, Content
<1>2. PICK c \in {None, fresh'} : Alter(None, side, [tree[side] EXCEPT ![f] = c])
  OBVIOUS
<1>3. [tree[side] EXCEPT ![f] = c] \in Listing
  BY <1>1 DEF TreeType, Tree, Listing
<1>4. TreeType'
  BY <1>1, <1>2, <1>3, AlterType DEF TreeType
<1> QED
  BY <1>4 DEF callVars, CallType, CountType

LEMMA BreakSteps ==
  ASSUME Types, NEW p \in Procs, Breaks(p)
  PROVE  Types'
<1> USE DEF Types
<1>1. CallType'
  BY ProceedType DEF Breaks, CallType, Stage
<1>2. CountType'
  BY TransferAssumption DEF Breaks, CountType
<1>3. CASE UNCHANGED treeVars
  BY <1>1, <1>2, <1>3 DEF treeVars, TreeType
<1>4. CASE ~UNCHANGED treeVars
  <2>1. fresh' \in Content
    BY <1>4, TransferAssumption DEF Breaks, TreeType, Content
  <2>2. PICK f \in Files : Alter(p, Onto(p), [tree[Onto(p)] EXCEPT ![f] = fresh'])
    BY <1>4 DEF Breaks
  <2>3. [tree[Onto(p)] EXCEPT ![f] = fresh'] \in Listing
    BY <2>1, SideType DEF TreeType, Tree, Listing
  <2>4. TreeType'
    BY <2>1, <2>2, <2>3, SideType, AlterType DEF Breaks, TreeType
  <2> QED
    BY <1>1, <1>2, <2>4
<1> QED
  BY <1>3, <1>4

LEMMA TypeStep == Types /\ [Next]_vars => Types'
<1> SUFFICES ASSUME Types, [Next]_vars PROVE Types'
  OBVIOUS
<1>1. CASE UNCHANGED vars
  BY <1>1 DEF vars, callVars, treeVars, Types, CallType, TreeType, CountType
<1> QED
  BY <1>1, CallSteps, WriteSteps, EndSteps, EditSteps, BreakSteps DEF Next, Step

(* Every variable keeps its type: in particular no hash and no streamed    *)
(* content is ever anything but a content some file has had.               *)
THEOREM TypeCorrect == Spec => []TypeOK
<1>1. QED
  BY TypeInit, TypeParts, TypeStep, PTL DEF Spec

-----------------------------------------------------------------------------
(* The invariant behind ReadyIsSnapshot.  Contents are never used twice:   *)
(* a content that has left the source does not come back.                  *)

Known == [Files -> (0 .. fresh) \cup {None}]

KnownInv ==
    /\ tree \in [Side -> Known]
    /\ stream \in [Procs -> Known]
    /\ source \in [Procs -> Known]

(* Which of its tables a call has begun to fill.                           *)
StageInv(p) ==
    /\ Active(p) => tree[From(p)] \in past[p]
    /\ pc[p] \in {"finding", "reading", "writing"} => ~ask[p].push
    /\ pc[p] = "piping" => ask[p].push
    /\ pc[p] \in {"idle", "finding"} => source[p] = Blank
    /\ pc[p] \in {"walking", "piping"} /\ ask[p].push => source[p] = Blank
    /\ pc[p] \notin {"checking"} \cup Over => dest[p] = Blank
    /\ pc[p] \in {"idle", "finding", "summing", "walking", "checking"}
          => stream[p] = Blank
    /\ pc[p] \in {"idle", "finding"} => sent[p] = {}
    /\ pc[p] = "walking" /\ ask[p].push => sent[p] = {}
    /\ pc[p] = "summing" /\ ~ask[p].push => sent[p] = {}

(* Pull: the first reading of the file is the one of moment t, or it is    *)
(* out of date and can no longer agree with what is delivered.             *)
HashedAt(p, t, f) ==
    \/ t[f] = source[p][f]
    \/ /\ tree[From(p)][f] # source[p][f]
       /\ stream[p][f] # source[p][f]
       /\ f \in sent[p] => /\ tree[Onto(p)][f] # source[p][f]
                           /\ dest[p][f] # source[p][f]

PullInv(p) ==
    ~ask[p].push =>
    /\ pc[p] = "summing" => \A f \in names[p] \ todo[p] : source[p][f] # None
    /\ sole[p] /\ pc[p] \in {"walking", "reading", "writing", "checking"} =>
          /\ \A f \in names[p] : source[p][f] # None
          /\ \E t \in past[p] : \A f \in names[p] : HashedAt(p, t, f)

(* Push: what was delivered is what lay there at moment t, or it is out of *)
(* date at the source and can no longer agree with its second reading.     *)
DeliveredAt(p, t, f) ==
    \/ t[f] = tree[Onto(p)][f]
    \/ /\ tree[From(p)][f] # tree[Onto(p)][f]
       /\ source[p][f] # tree[Onto(p)][f]

PushInv(p) ==
    ask[p].push /\ sole[p] =>
    /\ pc[p] \in {"piping", "summing", "checking"}
          => \A f \in sent[p] : tree[Onto(p)][f] # None
    /\ pc[p] \in {"summing", "checking"}
          => \E t \in past[p] : \A f \in names[p] \cap sent[p] : DeliveredAt(p, t, f)
    /\ pc[p] = "checking"
          => \A f \in names[p] \ todo[p] : dest[p][f] = tree[Onto(p)][f]

Snapshot(p) ==
    pc[p] = "ready" /\ sole[p] =>
        \E t \in past[p] : \A f \in names[p] \cap sent[p] : t[f] = dest[p][f]

CallInv(p) == StageInv(p) /\ PullInv(p) /\ PushInv(p) /\ Snapshot(p)

SnapshotInv == KnownInv /\ \A p \in Procs : CallInv(p)

-----------------------------------------------------------------------------
(* The calls that do not take the step.                                    *)

Unmoved(q) ==
    /\ pc'[q] = pc[q] /\ ask'[q] = ask[q]
    /\ names'[q] = names[q] /\ todo'[q] = todo[q]
    /\ stream'[q] = stream[q] /\ source'[q] = source[q] /\ dest'[q] = dest[q]
    /\ sent'[q] = sent[q]

LEMMA UnmovedKept ==
  ASSUME NEW q \in Procs, CallInv(q), Unmoved(q), UNCHANGED tree,
         past'[q] = past[q], sole'[q] => sole[q]
  PROVE  CallInv(q)'
<1>1. StageInv(q)'
  BY DEF CallInv, StageInv, Unmoved, Active, From
<1>2. PullInv(q)'
  BY DEF CallInv, PullInv, HashedAt, Unmoved, From, Onto
<1>3. PushInv(q)'
  BY DEF CallInv, PushInv, DeliveredAt, Unmoved, From, Onto
<1>4. Snapshot(q)'
  BY DEF CallInv, Snapshot, Unmoved
<1> QED
  BY <1>1, <1>2, <1>3, <1>4 DEF CallInv

(* A call that has been disturbed owes nothing but its bookkeeping.        *)
LEMMA DisturbedKept ==
  ASSUME NEW q \in Procs, CallInv(q), Unmoved(q), ~sole'[q],
         Active(q) => tree'[From(q)] \in past'[q]
  PROVE  CallInv(q)'
<1>1. StageInv(q)'
  BY DEF CallInv, StageInv, Unmoved, Active, From
<1>2. PullInv(q)'
  BY DEF CallInv, PullInv, Unmoved
<1> QED
  BY <1>1, <1>2 DEF CallInv, PushInv, Snapshot

(* Whoever alters a side of the tree adds the new tree to the histories.   *)
LEMMA AlterPast ==
  ASSUME Types, NEW q \in Procs, StageInv(q), NEW p, NEW side \in Side, NEW new,
         Alter(p, side, new)
  PROVE  Active(q) => tree'[From(q)] \in past'[q]
BY SideType DEF Types, TreeType, Tree, StageInv, Alter, Active

LEMMA AlterOther ==
  ASSUME Types, NEW q \in Procs, CallInv(q), Unmoved(q), NEW p, p # q, p # None,
         NEW side \in Side, NEW new, Alter(p, side, new)
  PROVE  CallInv(q)'
<1>1. ~sole'[q]
  BY DEF Alter
<1> QED
  BY <1>1, AlterPast, DisturbedKept DEF CallInv

-----------------------------------------------------------------------------
(* Contents.                                                               *)

LEMMA KnownGrows ==
  ASSUME Types, fresh' = fresh \/ fresh' = fresh + 1
  PROVE  Known \subseteq Known'
<1>1. fresh \in Nat /\ 0 .. fresh \subseteq 0 .. fresh'
  BY TransferAssumption DEF Types, TreeType, Content
<1> QED
  BY <1>1 DEF Known

LEMMA KnownFiles ==
  ASSUME Types, KnownInv, NEW side \in Side, NEW f \in Files
  PROVE  /\ tree[side][f] \in (0 .. fresh) \cup {None}
         /\ fresh + 1 # None /\ tree[side][f] # fresh + 1
BY TransferAssumption DEF Types, TreeType, Content, KnownInv, Known

LEMMA KnownPut ==
  ASSUME NEW h \in [Procs -> Known], NEW p \in Procs, NEW f \in Files,
         NEW c \in (0 .. fresh) \cup {None}
  PROVE  [h EXCEPT ![p][f] = c] \in [Procs -> Known]
<1>1. [h[p] EXCEPT ![f] = c] \in Known
  BY DEF Known
<1> QED
  BY <1>1

LEMMA KnownPutInv ==
  ASSUME Types, KnownInv, UNCHANGED <<tree, fresh>>,
         stream' \in [Procs -> Known], source' \in [Procs -> Known]
  PROVE  KnownInv'
BY DEF KnownInv, Known

(* An edit brings a content that nobody has seen, or none.                 *)
LEMMA EditKnown ==
  ASSUME Types, KnownInv, NEW side \in Side, NEW f \in Files, Edits(side, f)
  PROVE  KnownInv'
<1>1. PICK c \in {None, fresh'} : Alter(None, side, [tree[side] EXCEPT ![f] = c])
  BY DEF Edits
<1>2. fresh' = fresh + 1 /\ fresh' \in Nat
  BY TransferAssumption DEF Edits, Types, TreeType, Content
<1>3. Known \subseteq Known'
  BY <1>2, KnownGrows
<1>4. [tree[side] EXCEPT ![f] = c] \in Known'
  <2>1. tree[side] \in Known'
    BY <1>3 DEF KnownInv
  <2>2. c \in (0 .. fresh') \cup {None}
    BY <1>2
  <2> QED
    BY <2>1, <2>2 DEF Known
<1>5. tree' \in [Side -> Known']
  BY <1>1, <1>3, <1>4 DEF Alter, KnownInv
<1>6. stream' \in [Procs -> Known'] /\ source' \in [Procs -> Known']
  BY <1>3 DEF Edits, callVars, KnownInv
<1> QED
  BY <1>5, <1>6 DEF KnownInv

LEMMA EditCall ==
  ASSUME Types, KnownInv, NEW q \in Procs, CallInv(q),
         NEW side \in Side, NEW f \in Files, Edits(side, f)
  PROVE  CallInv(q)'
<1>1. PICK c \in {None, fresh'} : Alter(None, side, [tree[side] EXCEPT ![f] = c])
  BY DEF Edits
<1>2. Unmoved(q) /\ fresh' = fresh + 1
  BY DEF Edits, callVars, Unmoved
<1>3. Active(q) => tree'[From(q)] \in past'[q]
  BY <1>1, AlterPast DEF CallInv
<1>4. CASE side = Onto(q)
  <2>1. ~sole'[q]
    BY <1>1, <1>4, TransferAssumption DEF Alter
  <2> QED
    BY <1>2, <1>3, <2>1, DisturbedKept
<1>5. CASE side # Onto(q)
  <2>1. side = From(q)
    BY <1>5, SideType DEF Side
  <2>2. /\ tree'[Onto(q)] = tree[Onto(q)]
        /\ tree'[From(q)] = [tree[From(q)] EXCEPT ![f] = c]
    BY <1>1, <1>5, <2>1, SideType DEF Alter, Types, TreeType, Tree
  <2>3. past[q] \subseteq past'[q]
    BY <1>1 DEF Alter
  <2>4. sole'[q] => sole[q]
    BY <1>1 DEF Alter
  <2>5. \A g \in Files : \A d \in (0 .. fresh) :
           tree[From(q)][g] # d => tree'[From(q)][g] # d
    <3>1. c # None => c = fresh + 1
      BY <1>2
    <3>2. \A d \in 0 .. fresh : c # d
      BY <3>1, TransferAssumption DEF Types, TreeType, Content
    <3>3. tree[From(q)] \in [Files -> Content \cup {None}]
      BY SideType DEF Types, TreeType, Tree, Listing
    <3> QED
      BY <2>2, <3>2, <3>3
  <2>6. StageInv(q)'
    BY <1>2, <1>3 DEF CallInv, StageInv, Unmoved, Active, From
  <2>7. PullInv(q)'
    <3>1. From(q)' = From(q) /\ Onto(q)' = Onto(q)
      BY <1>2 DEF Unmoved, From, Onto
    <3>2. \A t, g : g \in names[q] /\ source[q][g] # None /\ HashedAt(q, t, g)
                       => HashedAt(q, t, g)'
      <4> SUFFICES ASSUME NEW t, NEW g \in names[q], source[q][g] # None,
                          HashedAt(q, t, g)
                   PROVE  HashedAt(q, t, g)'
        OBVIOUS
      <4>1. g \in Files /\ source[q][g] \in 0 .. fresh
        BY DEF KnownInv, Known, Types, CallType
      <4> QED
        BY <1>2, <2>2, <2>5, <3>1, <4>1 DEF HashedAt, Unmoved
    <3> QED
      BY <1>2, <2>3, <2>4, <3>2 DEF CallInv, PullInv, Unmoved
  <2>8. PushInv(q)'
    <3>1. From(q)' = From(q) /\ Onto(q)' = Onto(q)
      BY <1>2 DEF Unmoved, From, Onto
    <3>2. \A t, g : g \in names[q] /\ tree[Onto(q)][g] # None /\ DeliveredAt(q, t, g)
                       => DeliveredAt(q, t, g)'
      <4> SUFFICES ASSUME NEW t, NEW g \in names[q], tree[Onto(q)][g] # None,
                          DeliveredAt(q, t, g)
                   PROVE  DeliveredAt(q, t, g)'
        OBVIOUS
      <4>1. g \in Files /\ tree[Onto(q)][g] \in 0 .. fresh
        BY SideType DEF KnownInv, Known, Types, CallType
      <4> QED
        BY <1>2, <2>2, <2>5, <3>1, <4>1 DEF DeliveredAt, Unmoved
    <3> QED
      BY <1>2, <2>2, <2>3, <2>4, <3>1, <3>2 DEF CallInv, PushInv, Unmoved
  <2>9. Snapshot(q)'
    BY <1>2, <2>3, <2>4 DEF CallInv, Snapshot, Unmoved
  <2> QED
    BY <2>6, <2>7, <2>8, <2>9 DEF CallInv
<1> QED
  BY <1>4, <1>5

-----------------------------------------------------------------------------
(* The call that takes the step.                                           *)

LEMMA ProceedAt ==
  ASSUME Types, NEW p \in Procs, NEW stage, NEW visit, Proceed(p, stage, visit)
  PROVE  /\ pc'[p] = stage /\ todo'[p] = visit
         /\ \A q \in Procs : q # p => pc'[q] = pc[q] /\ todo'[q] = todo[q]
BY DEF Types, CallType, Proceed

LEMMA VisitedAt ==
  ASSUME Types, NEW p \in Procs, NEW f \in Files, Visited(p, f)
  PROVE  /\ todo'[p] = todo[p] \ {f}
         /\ \A q \in Procs : q # p => todo'[q] = todo[q]
BY DEF Types, CallType, Visited

LEMMA FindsCall ==
  ASSUME Types, NEW p \in Procs, CallInv(p), Finds(p)
  PROVE  CallInv(p)'
<1> DEFINE visit == Present("remote", ask[p])
<1>1. /\ pc[p] = "finding" /\ ~ask[p].push /\ source[p] = Blank /\ dest[p] = Blank
      /\ stream[p] = Blank /\ sent[p] = {} /\ tree[From(p)] \in past[p]
  BY DEF Finds, CallInv, StageInv, Active, Over
<1>2. /\ \/ pc'[p] = "summing" /\ todo'[p] = visit
         \/ pc'[p] = "error"
      /\ names'[p] = visit
  BY ProceedAt DEF Finds, Types, CallType
<1>3. UNCHANGED <<ask, stream, source, dest, tree, past, sole, sent>>
  BY DEF Finds, treeVars
<1> HIDE DEF visit
<1>4. StageInv(p)'
  BY <1>1, <1>2, <1>3 DEF StageInv, Active, From, Over
<1>5. PullInv(p)' /\ PushInv(p)' /\ Snapshot(p)'
  BY <1>1, <1>2, <1>3 DEF PullInv, PushInv, Snapshot
<1> QED
  BY <1>4, <1>5 DEF CallInv

LEMMA SumsCall ==
  ASSUME Types, NEW p \in Procs, NEW f \in Files, CallInv(p), Sums(p, f)
  PROVE  CallInv(p)'
<1> DEFINE c == tree[From(p)][f]
<1>1. /\ pc[p] = "summing" /\ dest[p] = Blank /\ stream[p] = Blank
      /\ tree[From(p)] \in past[p] /\ (~ask[p].push => sent[p] = {})
  BY DEF Sums, CallInv, StageInv, Active, Over
<1>2. /\ UNCHANGED <<ask, names, stream, dest, tree, past, sole, sent>>
      /\ source'[p] = [source[p] EXCEPT ![f] = c]
  BY DEF Sums, treeVars, Types, CallType
<1>3. \/ pc'[p] = "error"
      \/ pc'[p] = "summing" /\ c # None /\ todo'[p] = todo[p] \ {f}
  BY <1>1, ProceedAt, VisitedAt DEF Sums
<1>4. source[p] \in [Files -> Content \cup {None}] /\ names[p] \subseteq Files
  BY DEF Types, CallType, Listing
<1>5. StageInv(p)'
  BY <1>1, <1>2, <1>3 DEF StageInv, Active, From, Over
<1>6. PullInv(p)'
  BY <1>1, <1>2, <1>3, <1>4 DEF CallInv, PullInv
<1>7. PushInv(p)'
  <2> SUFFICES ASSUME ask[p].push, sole[p], pc'[p] = "summing"
               PROVE  PushInv(p)'
    BY <1>2, <1>3 DEF PushInv
  <2>1. PICK t \in past[p] : \A g \in names[p] \cap sent[p] : DeliveredAt(p, t, g)
    BY <1>1 DEF CallInv, PushInv
  <2>2. From(p)' = From(p) /\ Onto(p)' = Onto(p)
    BY <1>2 DEF From, Onto
  <2>3. \A g \in names[p] \cap sent[p] : DeliveredAt(p, t, g)'
    <3> SUFFICES ASSUME NEW g \in names[p] \cap sent[p] PROVE DeliveredAt(p, t, g)'
      OBVIOUS
    <3>1. DeliveredAt(p, t, g)
      BY <2>1
    <3> QED
      BY <1>2, <1>4, <2>2, <3>1 DEF DeliveredAt
  <2>4. \A g \in sent[p] : tree[Onto(p)][g] # None
    BY <1>1 DEF CallInv, PushInv
  <2> QED
    BY <1>2, <2>2, <2>3, <2>4 DEF PushInv
<1>8. Snapshot(p)'
  BY <1>3 DEF Snapshot
<1> QED
  BY <1>5, <1>6, <1>7, <1>8 DEF CallInv

(* Pull: the moment of the snapshot.  Push: the check begins.              *)
LEMMA SummedCall ==
  ASSUME Types, NEW p \in Procs, CallInv(p), Summed(p)
  PROVE  CallInv(p)'
<1>1. /\ pc[p] = "summing" /\ todo[p] = {} /\ dest[p] = Blank /\ stream[p] = Blank
      /\ tree[From(p)] \in past[p] /\ (~ask[p].push => sent[p] = {})
  BY DEF Summed, CallInv, StageInv, Active, Over
<1>2. UNCHANGED <<ask, stream, source, dest, tree, past, sole, sent>>
  BY DEF Summed, treeVars
<1>3. /\ ask[p].push => /\ pc'[p] = "checking" /\ todo'[p] = names[p]
                        /\ names'[p] = names[p]
      /\ ~ask[p].push => /\ pc'[p] = "walking"
                         /\ names'[p] \subseteq names[p]
  BY ProceedAt DEF Summed, Types, CallType, Kept
<1>4. StageInv(p)'
  BY <1>1, <1>2, <1>3 DEF StageInv, Active, From, Over
<1>5. PullInv(p)'
  <2> SUFFICES ASSUME ~ask[p].push PROVE PullInv(p)'
    BY <1>2 DEF PullInv
  <2>1. \A f \in names'[p] : source[p][f] # None
    BY <1>1, <1>3 DEF CallInv, PullInv
  <2>2. PICK t \in past[p] : t = tree[From(p)]
    BY <1>1
  <2>3. \A f \in names'[p] : HashedAt(p, t, f)'
    <3>1. \A f \in names'[p] : f \in Files
      BY <1>3 DEF Types, CallType
    <3>2. \A f \in names'[p] : stream[p][f] = None
      BY <1>1, <3>1 DEF Blank
    <3>3. From(p)' = From(p)
      BY <1>2 DEF From
    <3> QED
      BY <1>1, <1>2, <2>1, <2>2, <3>2, <3>3 DEF HashedAt
  <2> QED
    BY <1>2, <1>3, <2>1, <2>3 DEF PullInv
<1>6. PushInv(p)'
  <2> SUFFICES ASSUME ask[p].push, sole[p] PROVE PushInv(p)'
    BY <1>2 DEF PushInv
  <2>1. PICK t \in past[p] : \A f \in names[p] \cap sent[p] : DeliveredAt(p, t, f)
    BY <1>1 DEF CallInv, PushInv
  <2>2. From(p)' = From(p) /\ Onto(p)' = Onto(p)
    BY <1>2 DEF From, Onto
  <2>3. \A f \in names[p] \cap sent[p] : DeliveredAt(p, t, f)'
    BY <1>2, <2>1, <2>2 DEF DeliveredAt
  <2>4. \A f \in sent[p] : tree[Onto(p)][f] # None
    BY <1>1 DEF CallInv, PushInv
  <2> QED
    BY <1>2, <1>3, <2>2, <2>3, <2>4 DEF PushInv
<1>7. Snapshot(p)'
  BY <1>3 DEF Snapshot
<1> QED
  BY <1>4, <1>5, <1>6, <1>7 DEF CallInv

LEMMA WalksCall ==
  ASSUME Types, NEW p \in Procs, CallInv(p), Walks(p)
  PROVE  CallInv(p)'
<1>1. /\ pc[p] = "walking" /\ dest[p] = Blank /\ tree[From(p)] \in past[p]
      /\ ask[p].push => source[p] = Blank /\ sent[p] = {}
  BY DEF Walks, CallInv, StageInv, Active, Over
<1>2. UNCHANGED <<ask, names, stream, source, dest, tree, past, sole, sent>>
  BY DEF Walks, treeVars
<1>3. pc'[p] = IF ask[p].push THEN "piping" ELSE "reading"
  BY ProceedAt DEF Walks
<1>4. StageInv(p)'
  BY <1>1, <1>2, <1>3 DEF StageInv, Active, From, Over
<1>5. PullInv(p)'
  BY <1>1, <1>2, <1>3 DEF CallInv, PullInv, HashedAt, From, Onto
<1>6. PushInv(p)' /\ Snapshot(p)'
  BY <1>1, <1>2, <1>3 DEF PushInv, Snapshot
<1> QED
  BY <1>4, <1>5, <1>6 DEF CallInv

(* The second reading of a pull: an out-of-date hash cannot be read again. *)
LEMMA ReadsCall ==
  ASSUME Types, NEW p \in Procs, NEW f \in Files, CallInv(p), Reads(p, f)
  PROVE  CallInv(p)'
<1>1. /\ pc[p] \in {"reading", "piping"} /\ dest[p] = Blank
      /\ tree[From(p)] \in past[p] /\ (pc[p] = "piping" <=> ask[p].push)
      /\ ask[p].push => source[p] = Blank
  BY DEF Reads, CallInv, StageInv, Active, Over
<1>2. /\ UNCHANGED <<pc, ask, names, source, dest, tree, past, sole, sent>>
      /\ stream'[p] = [stream[p] EXCEPT ![f] = tree[From(p)][f]]
  BY DEF Reads, treeVars, Types, CallType
<1>3. StageInv(p)'
  BY <1>1, <1>2 DEF StageInv, Active, From, Over
<1>4. PullInv(p)'
  <2> SUFFICES ASSUME ~ask[p].push, sole[p], pc[p] = "reading" PROVE PullInv(p)'
    BY <1>1, <1>2 DEF PullInv
  <2>1. PICK t \in past[p] : \A g \in names[p] : HashedAt(p, t, g)
    BY DEF CallInv, PullInv
  <2>2. From(p)' = From(p) /\ Onto(p)' = Onto(p)
    BY <1>2 DEF From, Onto
  <2>3. \A g \in names[p] : HashedAt(p, t, g)'
    <3> SUFFICES ASSUME NEW g \in names[p] PROVE HashedAt(p, t, g)'
      OBVIOUS
    <3>1. HashedAt(p, t, g)
      BY <2>1
    <3>2. stream'[p][g] \in {stream[p][g], tree[From(p)][g]}
      BY <1>2 DEF Types, CallType, Listing
    <3> QED
      BY <1>2, <2>2, <3>1, <3>2 DEF HashedAt
  <2>4. \A g \in names[p] : source[p][g] # None
    BY DEF CallInv, PullInv
  <2> QED
    BY <1>2, <2>3, <2>4 DEF PullInv
<1>5. PushInv(p)' /\ Snapshot(p)'
  BY <1>1, <1>2 DEF CallInv, PushInv, Snapshot, Onto
<1> QED
  BY <1>3, <1>4, <1>5 DEF CallInv

LEMMA ArchivedCall ==
  ASSUME Types, NEW p \in Procs, CallInv(p), Archived(p)
  PROVE  CallInv(p)'
<1>1. /\ pc[p] = "reading" /\ dest[p] = Blank /\ ~ask[p].push
      /\ tree[From(p)] \in past[p]
  BY DEF Archived, CallInv, StageInv, Active, Over
<1>2. UNCHANGED <<ask, names, stream, source, dest, tree, past, sole, sent>>
  BY DEF Archived, treeVars
<1>3. pc'[p] \in {"error", "writing"}
  BY ProceedAt DEF Archived
<1>4. StageInv(p)'
  BY <1>1, <1>2, <1>3 DEF StageInv, Active, From, Over
<1>5. PullInv(p)'
  BY <1>1, <1>2, <1>3 DEF CallInv, PullInv, HashedAt, From, Onto
<1>6. PushInv(p)' /\ Snapshot(p)'
  BY <1>1, <1>2, <1>3 DEF PushInv, Snapshot
<1> QED
  BY <1>4, <1>5, <1>6 DEF CallInv

(* A delivery: an out-of-date hash is not that of the delivered content.   *)
LEMMA UnpacksCall ==
  ASSUME Types, NEW p \in Procs, NEW f \in Files, CallInv(p), Unpacks(p, f)
  PROVE  CallInv(p)'
<1> DEFINE c == stream[p][f]
           new == [tree[Onto(p)] EXCEPT ![f] = c]
<1>1. /\ pc[p] \in {"writing", "piping"} /\ dest[p] = Blank /\ c # None
      /\ pc[p] = "piping" <=> ask[p].push
      /\ ask[p].push => source[p] = Blank
  BY DEF Unpacks, CallInv, StageInv, Over
<1>2. /\ UNCHANGED <<pc, ask, names, source, dest>>
      /\ stream'[p] = [stream[p] EXCEPT ![f] = None]
      /\ sent'[p] = sent[p] \cup {f}
      /\ Alter(p, Onto(p), new)
  BY DEF Unpacks, Types, CallType, TreeType
<1>3. Active(p) => tree'[From(p)] \in past'[p]
  BY <1>2, SideType, AlterPast DEF CallInv
<1>4. From(p)' = From(p) /\ Onto(p)' = Onto(p)
  BY <1>2 DEF From, Onto
<1>5. /\ tree'[From(p)] = tree[From(p)]
      /\ \A g \in Files : tree'[Onto(p)][g] = IF g = f THEN c ELSE tree[Onto(p)][g]
      /\ past[p] \subseteq past'[p] /\ (sole'[p] => sole[p])
  BY <1>2, SideType DEF Alter, Types, TreeType, Tree, Listing
<1>6. StageInv(p)'
  BY <1>1, <1>2, <1>3, <1>4 DEF CallInv, StageInv, Active, Over
<1>7. PullInv(p)'
  <2> SUFFICES ASSUME ~ask[p].push, sole'[p], pc[p] = "writing" PROVE PullInv(p)'
    BY <1>1, <1>2 DEF PullInv
  <2>1. PICK t \in past[p] : \A g \in names[p] : HashedAt(p, t, g)
    BY <1>5 DEF CallInv, PullInv
  <2>2. \A g \in names[p] : source[p][g] # None
    BY <1>5 DEF CallInv, PullInv
  <2>3. \A g \in names[p] : HashedAt(p, t, g)'
    <3> SUFFICES ASSUME NEW g \in names[p] PROVE HashedAt(p, t, g)'
      OBVIOUS
    <3>1. HashedAt(p, t, g) /\ source[p][g] # None /\ g \in Files
      BY <2>1, <2>2 DEF Types, CallType
    <3>2. dest[p][g] = None
      BY <1>1, <3>1 DEF Blank
    <3>3. stream'[p][g] = IF g = f THEN None ELSE stream[p][g]
      BY <1>2, <3>1 DEF Types, CallType, Listing
    <3>4. g \in sent'[p] <=> g = f \/ g \in sent[p]
      BY <1>2
    <3>5. tree'[Onto(p)][g] = IF g = f THEN c ELSE tree[Onto(p)][g]
      BY <1>5, <3>1
    <3> QED
      BY <1>2, <1>4, <1>5, <3>1, <3>2, <3>3, <3>4, <3>5 DEF HashedAt
  <2> QED
    BY <1>2, <1>5, <2>1, <2>2, <2>3 DEF PullInv
<1>8. PushInv(p)'
  <2> SUFFICES ASSUME ask[p].push, sole'[p], pc[p] = "piping" PROVE PushInv(p)'
    BY <1>1, <1>2 DEF PushInv
  <2>1. \A g \in sent'[p] : tree'[Onto(p)][g] # None
    BY <1>1, <1>2, <1>5 DEF CallInv, PushInv, Types, TreeType
  <2> QED
    BY <1>2, <1>4, <2>1 DEF PushInv
<1>9. Snapshot(p)'
  BY <1>1, <1>2 DEF Snapshot
<1> QED
  BY <1>6, <1>7, <1>8, <1>9 DEF CallInv

(* Push: the moment of the snapshot.                                       *)
LEMMA PipedCall ==
  ASSUME Types, NEW p \in Procs, CallInv(p), Piped(p)
  PROVE  CallInv(p)'
<1>1. /\ pc[p] = "piping" /\ ask[p].push /\ dest[p] = Blank /\ stream[p] = Blank
      /\ tree[From(p)] \in past[p] /\ source[p] = Blank
  BY DEF Piped, CallInv, StageInv, Active, Over
<1>2. UNCHANGED <<ask, names, stream, source, dest, tree, past, sole, sent>>
  BY DEF Piped, treeVars
<1>3. \/ pc'[p] = "error"
      \/ pc'[p] = "ready" /\ names[p] = {}
      \/ pc'[p] = "summing"
  BY ProceedAt DEF Piped
<1>4. StageInv(p)'
  BY <1>1, <1>2, <1>3 DEF StageInv, Active, From, Over
<1>5. PushInv(p)'
  <2> SUFFICES ASSUME sole[p], pc'[p] = "summing" PROVE PushInv(p)'
    BY <1>2, <1>3 DEF PushInv
  <2>1. \A f \in sent[p] : f \in Files /\ tree[Onto(p)][f] # None
    BY <1>1 DEF CallInv, PushInv, Types, TreeType
  <2>2. From(p)' = From(p) /\ Onto(p)' = Onto(p)
    BY <1>2 DEF From, Onto
  <2>3. PICK t \in past[p] : t = tree[From(p)]
    BY <1>1
  <2>4. \A f \in names[p] \cap sent[p] : DeliveredAt(p, t, f)'
    BY <1>1, <1>2, <2>1, <2>2, <2>3 DEF DeliveredAt, Blank
  <2> QED
    BY <1>2, <2>1, <2>2, <2>4 DEF PushInv
<1>6. PullInv(p)'
  BY <1>1, <1>2 DEF PullInv
<1>7. Snapshot(p)'
  BY <1>1, <1>2, <1>3 DEF Snapshot
<1> QED
  BY <1>4, <1>5, <1>6, <1>7 DEF CallInv

LEMMA UnpackedCall ==
  ASSUME Types, NEW p \in Procs, CallInv(p), Unpacked(p)
  PROVE  CallInv(p)'
<1>1. /\ pc[p] = "writing" /\ ~ask[p].push /\ tree[From(p)] \in past[p]
      /\ stream[p] = Blank
  BY DEF Unpacked, CallInv, StageInv, Active
<1>2. UNCHANGED <<ask, names, stream, source, dest, tree, past, sole, sent>>
  BY DEF Unpacked, treeVars
<1>3. pc'[p] = "checking"
  BY ProceedAt DEF Unpacked
<1>4. StageInv(p)'
  BY <1>1, <1>2, <1>3 DEF StageInv, Active, From, Over
<1>5. PullInv(p)'
  BY <1>1, <1>2, <1>3 DEF CallInv, PullInv, HashedAt, From, Onto
<1>6. PushInv(p)' /\ Snapshot(p)'
  BY <1>1, <1>2, <1>3 DEF PushInv, Snapshot
<1> QED
  BY <1>4, <1>5, <1>6 DEF CallInv

LEMMA ChecksCall ==
  ASSUME Types, NEW p \in Procs, NEW f \in Files, CallInv(p), Checks(p, f)
  PROVE  CallInv(p)'
<1> DEFINE c == Lies(p, f)
<1>1. /\ pc[p] = "checking" /\ tree[From(p)] \in past[p] /\ stream[p] = Blank
  BY DEF Checks, CallInv, StageInv, Active
<1>2. /\ UNCHANGED <<ask, names, stream, source, tree, past, sole, sent>>
      /\ dest'[p] = [dest[p] EXCEPT ![f] = c]
  BY DEF Checks, treeVars, Types, CallType
<1>3. \/ pc'[p] \in {"failed", "error"}
      \/ /\ pc'[p] = "checking" /\ todo'[p] = todo[p] \ {f}
         /\ c = tree[Onto(p)][f]
  BY <1>1, ProceedAt, VisitedAt DEF Checks, Lies
<1>4. \A g \in Files : dest'[p][g] = IF g = f THEN c ELSE dest[p][g]
  BY <1>2 DEF Types, CallType, Listing
<1>5. From(p)' = From(p) /\ Onto(p)' = Onto(p)
  BY <1>2 DEF From, Onto
<1>6. names[p] \subseteq Files
  BY DEF Types, CallType
<1>7. StageInv(p)'
  BY <1>1, <1>2, <1>3 DEF StageInv, Active, From, Over
<1>8. PullInv(p)'
  <2> SUFFICES ASSUME ~ask[p].push, sole[p], pc'[p] = "checking"
               PROVE  PullInv(p)'
    BY <1>2, <1>3 DEF PullInv
  <2>1. PICK t \in past[p] : \A g \in names[p] : HashedAt(p, t, g)
    BY <1>1 DEF CallInv, PullInv
  <2>2. \A g \in names[p] : HashedAt(p, t, g)'
    <3> SUFFICES ASSUME NEW g \in names[p] PROVE HashedAt(p, t, g)'
      OBVIOUS
    <3>1. HashedAt(p, t, g) /\ dest'[p][g] = IF g = f THEN c ELSE dest[p][g]
      BY <1>4, <1>6, <2>1
    <3> QED
      BY <1>2, <1>3, <1>5, <3>1 DEF HashedAt
  <2>3. \A g \in names[p] : source[p][g] # None
    BY <1>1 DEF CallInv, PullInv
  <2> QED
    BY <1>2, <1>3, <2>2, <2>3 DEF PullInv
<1>9. PushInv(p)'
  BY <1>1, <1>2, <1>3, <1>4, <1>5, <1>6 DEF CallInv, PushInv, DeliveredAt
<1>10. Snapshot(p)'
  BY <1>3 DEF Snapshot
<1> QED
  BY <1>7, <1>8, <1>9, <1>10 DEF CallInv

(* Both readings agree: what was out of date at the first has been caught. *)
LEMMA CheckedCall ==
  ASSUME Types, NEW p \in Procs, CallInv(p), Checked(p)
  PROVE  CallInv(p)'
<1>1. /\ pc[p] = "checking" /\ todo[p] = {} /\ tree[From(p)] \in past[p]
      /\ stream[p] = Blank
  BY DEF Checked, CallInv, StageInv, Active
<1>2. UNCHANGED <<ask, names, stream, source, dest, tree, past, sole, sent>>
  BY DEF Checked, treeVars
<1>3. /\ pc'[p] \in {"ready", "failed", "error"}
      /\ pc'[p] = "ready" => Agree(p)
  BY ProceedAt DEF Checked
<1>4. StageInv(p)'
  BY <1>1, <1>2, <1>3 DEF StageInv, Active, From, Over
<1>5. PullInv(p)' /\ PushInv(p)'
  BY <1>3 DEF PullInv, PushInv
<1>6. Snapshot(p)'
  <2> SUFFICES ASSUME pc'[p] = "ready", sole[p] PROVE Snapshot(p)'
    BY <1>2 DEF Snapshot
  <2>1. \A f \in names[p] : dest[p][f] = source[p][f]
    BY <1>3 DEF Agree
  <2>2. CASE ~ask[p].push
    <3>1. PICK t \in past[p] : \A f \in names[p] : HashedAt(p, t, f)
      BY <1>1, <2>2 DEF CallInv, PullInv
    <3>2. \A f \in names[p] \cap sent[p] : t[f] = dest[p][f]
      BY <2>1, <3>1 DEF HashedAt
    <3> QED
      BY <1>2, <3>2 DEF Snapshot
  <2>3. CASE ask[p].push
    <3>1. PICK t \in past[p] : \A f \in names[p] \cap sent[p] : DeliveredAt(p, t, f)
      BY <1>1, <2>3 DEF CallInv, PushInv
    <3>2. \A f \in names[p] : dest[p][f] = tree[Onto(p)][f]
      BY <1>1, <2>3 DEF CallInv, PushInv
    <3>3. \A f \in names[p] \cap sent[p] : t[f] = dest[p][f]
      BY <2>1, <3>1, <3>2 DEF DeliveredAt
    <3> QED
      BY <1>2, <3>3 DEF Snapshot
  <2> QED
    BY <2>2, <2>3
<1> QED
  BY <1>4, <1>5, <1>6 DEF CallInv

LEMMA StartsCall ==
  ASSUME Types, NEW p \in Procs, NEW r \in Requests, CallInv(p), Starts(p, r)
  PROVE  CallInv(p)'
<1>1. /\ pc[p] = "idle" /\ source[p] = Blank /\ dest[p] = Blank
      /\ stream[p] = Blank /\ sent[p] = {}
  BY DEF Starts, CallInv, StageInv, Over
<1>2. UNCHANGED <<tree, stream, source, dest, sent>>
  BY DEF Starts
<1>3. /\ ask'[p] = r
      /\ pc'[p] \in {"finding", "walking", "error"}
      /\ pc'[p] = "finding" <=> ~r.push
      /\ past'[p] = {tree[From(p)']}
  BY DEF Starts, Types, CallType, TreeType, From
<1>4. StageInv(p)'
  BY <1>1, <1>2, <1>3 DEF StageInv, Active, From, Over
<1>5. PullInv(p)' /\ PushInv(p)' /\ Snapshot(p)'
  BY <1>1, <1>2, <1>3 DEF PullInv, PushInv, Snapshot
<1> QED
  BY <1>4, <1>5 DEF CallInv

LEMMA ReturnsCall ==
  ASSUME Types, NEW p \in Procs, CallInv(p), Returns(p)
  PROVE  CallInv(p)'
<1>1. /\ pc'[p] = "idle" /\ source'[p] = Blank /\ dest'[p] = Blank
      /\ stream'[p] = Blank /\ sent'[p] = {}
  BY ProceedAt DEF Returns, Types, CallType, TreeType
<1>2. StageInv(p)'
  BY <1>1 DEF StageInv, Active, Over
<1>3. PullInv(p)' /\ PushInv(p)' /\ Snapshot(p)'
  BY <1>1 DEF PullInv, PushInv, Snapshot
<1> QED
  BY <1>2, <1>3 DEF CallInv

LEMMA BreaksCall ==
  ASSUME Types, NEW p \in Procs, CallInv(p), Breaks(p)
  PROVE  CallInv(p)'
<1>1. /\ pc'[p] = "broken" /\ Active(p)
      /\ UNCHANGED <<ask, names, stream, source, dest, sent>>
  BY ProceedAt DEF Breaks
<1>2. From(p)' = From(p)
  BY <1>1 DEF From
<1>3. tree'[From(p)] \in past'[p]
  <2>1. CASE UNCHANGED treeVars
    BY <1>1, <2>1 DEF treeVars, CallInv, StageInv
  <2>2. CASE ~UNCHANGED treeVars
    <3>1. PICK f \in Files : Alter(p, Onto(p), [tree[Onto(p)] EXCEPT ![f] = fresh'])
      BY <2>2 DEF Breaks
    <3> QED
      BY <1>1, <3>1, SideType, AlterPast DEF CallInv
  <2> QED
    BY <2>1, <2>2
<1>4. StageInv(p)'
  BY <1>1, <1>2, <1>3 DEF StageInv, Active, Over
<1>5. PullInv(p)' /\ PushInv(p)' /\ Snapshot(p)'
  BY <1>1 DEF PullInv, PushInv, Snapshot
<1> QED
  BY <1>4, <1>5 DEF CallInv

LEMMA OwnCall ==
  ASSUME Types, NEW p \in Procs, CallInv(p), Step(p) \/ Breaks(p)
  PROVE  CallInv(p)'
BY FindsCall, SumsCall, SummedCall, WalksCall, ReadsCall, ArchivedCall,
   UnpacksCall, PipedCall, UnpackedCall, ChecksCall, CheckedCall, StartsCall,
   ReturnsCall, BreaksCall DEF Step

-----------------------------------------------------------------------------
(* A step of p as the others see it.                                       *)

Writes(p) == \E new : Alter(p, Onto(p), new)

LEMMA StepUnmoves ==
  ASSUME Types, NEW p \in Procs, NEW q \in Procs, q # p, Step(p) \/ Breaks(p)
  PROVE  Unmoved(q)
<1> USE DEF Types, CallType, TreeType, treeVars, Unmoved
<1>1. CASE Finds(p) \/ Summed(p) \/ Walks(p)
  BY <1>1, ProceedAt DEF Finds, Summed, Walks
<1>2. CASE Archived(p) \/ Piped(p) \/ Unpacked(p) \/ Checked(p)
  BY <1>2, ProceedAt DEF Archived, Piped, Unpacked, Checked
<1>3. CASE Returns(p)
  BY <1>3, ProceedAt DEF Returns
<1>4. CASE Breaks(p)
  BY <1>4, ProceedAt DEF Breaks
<1>5. ASSUME NEW r \in Requests, Starts(p, r) PROVE Unmoved(q)
  BY <1>5 DEF Starts
<1>6. ASSUME NEW f \in Files, Sums(p, f) PROVE Unmoved(q)
  BY <1>6, ProceedAt, VisitedAt DEF Sums
<1>7. ASSUME NEW f \in Files, Reads(p, f) PROVE Unmoved(q)
  BY <1>7, VisitedAt DEF Reads
<1>8. ASSUME NEW f \in Files, Unpacks(p, f) PROVE Unmoved(q)
  BY <1>8 DEF Unpacks
<1>9. ASSUME NEW f \in Files, Checks(p, f) PROVE Unmoved(q)
  BY <1>9, ProceedAt, VisitedAt DEF Checks
<1> QED
  BY <1>1, <1>2, <1>3, <1>4, <1>5, <1>6, <1>7, <1>8, <1>9 DEF Step

LEMMA StepWrites ==
  ASSUME Types, NEW p \in Procs, Step(p) \/ Breaks(p)
  PROVE  \/ Writes(p)
         \/ /\ UNCHANGED tree
            /\ \A q \in Procs : q # p => past'[q] = past[q] /\ sole'[q] = sole[q]
<1> USE DEF Types, TreeType, treeVars, Writes
<1>1. CASE Finds(p) \/ Summed(p) \/ Walks(p) \/ Archived(p) \/ Piped(p)
           \/ Unpacked(p) \/ Checked(p) \/ Returns(p)
  BY <1>1 DEF Finds, Summed, Walks, Archived, Piped, Unpacked, Checked, Returns
<1>2. CASE Breaks(p)
  BY <1>2 DEF Breaks
<1>3. CASE \E r \in Requests : Starts(p, r)
  BY <1>3 DEF Starts
<1>4. CASE \E f \in Files : Sums(p, f) \/ Reads(p, f) \/ Checks(p, f)
  BY <1>4 DEF Sums, Reads, Checks
<1>5. CASE \E f \in Files : Unpacks(p, f)
  BY <1>5 DEF Unpacks
<1> QED
  BY <1>1, <1>2, <1>3, <1>4, <1>5 DEF Step

LEMMA OtherCall ==
  ASSUME Types, NEW p \in Procs, NEW q \in Procs, q # p, CallInv(q),
         Step(p) \/ Breaks(p)
  PROVE  CallInv(q)'
<1>1. Unmoved(q)
  BY StepUnmoves
<1>2. CASE Writes(p)
  <2>1. p # None
    BY TransferAssumption
  <2> QED
    BY <1>1, <1>2, <2>1, SideType, AlterOther DEF Writes
<1>3. CASE ~Writes(p)
  BY <1>1, <1>3, StepWrites, UnmovedKept
<1> QED
  BY <1>2, <1>3

-----------------------------------------------------------------------------
(* Every content that is about is one that was in use before.              *)

LEMMA BlankKnown == Blank \in Known
BY DEF Blank, Known

LEMMA OwnKnown ==
  ASSUME Types, KnownInv, NEW p \in Procs, Step(p)
  PROVE  KnownInv'
<1>1. CASE Finds(p) \/ Summed(p) \/ Walks(p) \/ Archived(p) \/ Piped(p)
           \/ Unpacked(p) \/ Checked(p) \/ (\E r \in Requests : Starts(p, r))
           \/ \E f \in Files : Checks(p, f)
  BY <1>1 DEF Finds, Summed, Walks, Archived, Piped, Unpacked, Checked, Starts,
              Checks, treeVars, KnownInv, Known
<1>2. CASE Returns(p)
  <2>1. stream' \in [Procs -> Known] /\ source' \in [Procs -> Known]
    BY <1>2, BlankKnown DEF Returns, KnownInv
  <2> QED
    BY <1>2, <2>1, KnownPutInv DEF Returns
<1>3. ASSUME NEW f \in Files, Sums(p, f) PROVE KnownInv'
  <2>1. tree[From(p)][f] \in (0 .. fresh) \cup {None}
    BY SideType, KnownFiles
  <2>2. source' \in [Procs -> Known]
    BY <1>3, <2>1, KnownPut DEF Sums, KnownInv
  <2> QED
    BY <1>3, <2>2, KnownPutInv DEF Sums, treeVars, KnownInv
<1>4. ASSUME NEW f \in Files, Reads(p, f) PROVE KnownInv'
  <2>1. tree[From(p)][f] \in (0 .. fresh) \cup {None}
    BY SideType, KnownFiles
  <2>2. stream' \in [Procs -> Known]
    BY <1>4, <2>1, KnownPut DEF Reads, KnownInv
  <2> QED
    BY <1>4, <2>2, KnownPutInv DEF Reads, treeVars, KnownInv
<1>5. ASSUME NEW f \in Files, Unpacks(p, f) PROVE KnownInv'
  <2>1. stream' \in [Procs -> Known]
    BY <1>5, KnownPut DEF Unpacks, KnownInv
  <2>2. [tree[Onto(p)] EXCEPT ![f] = stream[p][f]] \in Known
    BY SideType DEF KnownInv, Known
  <2>3. tree' \in [Side -> Known]
    BY <1>5, <2>2 DEF Unpacks, Alter, KnownInv
  <2> QED
    BY <1>5, <2>1, <2>3 DEF Unpacks, KnownInv, Known
<1> QED
  BY <1>1, <1>2, <1>3, <1>4, <1>5 DEF Step

(* A torn write is a content of its own.                                   *)
LEMMA BreakKnown ==
  ASSUME Types, KnownInv, NEW p \in Procs, Breaks(p)
  PROVE  KnownInv'
<1>1. CASE UNCHANGED treeVars
  BY <1>1 DEF Breaks, treeVars, KnownInv, Known
<1>2. CASE ~UNCHANGED treeVars
  <2>1. PICK f \in Files : Alter(p, Onto(p), [tree[Onto(p)] EXCEPT ![f] = fresh'])
    BY <1>2 DEF Breaks
  <2>2. fresh' = fresh + 1 /\ fresh' \in Nat
    BY <1>2, TransferAssumption DEF Breaks, Types, TreeType, Content
  <2>3. Known \subseteq Known'
    BY <2>2, KnownGrows
  <2>4. [tree[Onto(p)] EXCEPT ![f] = fresh'] \in Known'
    <3>1. tree[Onto(p)] \in Known'
      BY <2>3, SideType DEF KnownInv
    <3>2. fresh' \in 0 .. fresh'
      BY <2>2
    <3> QED
      BY <3>1, <3>2 DEF Known
  <2>5. tree' \in [Side -> Known']
    BY <2>1, <2>3, <2>4 DEF Alter, KnownInv
  <2>6. stream' \in [Procs -> Known'] /\ source' \in [Procs -> Known']
    BY <2>3 DEF Breaks, KnownInv
  <2> QED
    BY <2>5, <2>6 DEF KnownInv
<1> QED
  BY <1>1, <1>2

-----------------------------------------------------------------------------
LEMMA SnapshotInit == Init => SnapshotInv
<1> SUFFICES ASSUME Init PROVE SnapshotInv
  OBVIOUS
<1>1. KnownInv
  <2>1. [Files -> {None, 0}] \subseteq Known
    BY DEF Known, Init
  <2>2. tree \in [Side -> [Files -> {None, 0}]]
    BY TransferAssumption DEF Init
  <2> QED
    BY <2>1, <2>2, BlankKnown DEF Init, KnownInv
<1>2. ASSUME NEW p \in Procs PROVE CallInv(p)
  BY DEF Init, CallInv, StageInv, PullInv, PushInv, Snapshot, Active, Over
<1> QED
  BY <1>1, <1>2 DEF SnapshotInv

LEMMA SnapshotStep == Types /\ SnapshotInv /\ [Next]_vars => SnapshotInv'
<1> SUFFICES ASSUME Types, SnapshotInv, [Next]_vars PROVE SnapshotInv'
  OBVIOUS
<1> USE DEF SnapshotInv
<1>1. CASE UNCHANGED vars
  <2>1. KnownInv'
    BY <1>1 DEF vars, callVars, treeVars, KnownInv, Known
  <2>2. ASSUME NEW q \in Procs PROVE CallInv(q)'
    <3>1. Unmoved(q)
      BY <1>1 DEF vars, callVars, treeVars, Unmoved
    <3>2. CallInv(q) /\ UNCHANGED <<tree, past, sole>>
      BY <1>1 DEF vars, treeVars
    <3> QED
      BY <3>1, <3>2, UnmovedKept
  <2> QED
    BY <2>1, <2>2
<1>2. ASSUME NEW p \in Procs, Step(p) \/ Breaks(p) PROVE SnapshotInv'
  <2>1. KnownInv'
    BY <1>2, OwnKnown, BreakKnown
  <2>2. ASSUME NEW q \in Procs PROVE CallInv(q)'
    BY <1>2, OwnCall, OtherCall
  <2> QED
    BY <2>1, <2>2
<1>3. ASSUME NEW side \in Side, NEW f \in Files, Edits(side, f) PROVE SnapshotInv'
  BY <1>3, EditKnown, EditCall
<1> QED
  BY <1>1, <1>2, <1>3 DEF Next

(* The files that a ready transfer has delivered and verified lay at the   *)
(* source together at one moment of the call, whatever was edited while    *)
(* tar and sha256sum read them one by one, as long as no other transfer    *)
(* wrote and nobody else wrote the destination.                            *)
THEOREM SnapshotDelivered == Spec => []ReadyIsSnapshot
<1>1. SnapshotInv => ReadyIsSnapshot
  BY DEF SnapshotInv, CallInv, Snapshot, ReadyIsSnapshot
<1> QED
  BY <1>1, TypeInit, TypeStep, SnapshotInit, SnapshotStep, PTL DEF Spec

-----------------------------------------------------------------------------
(* The invariant behind UndisturbedCopies: what a call has found, hashed,  *)
(* read and delivered is what lies at its source, while nobody else writes.*)

Here(p) == Present(From(p), ask[p])
Whole(p) == Complete(From(p), ask[p])

Copied(p, f) == tree[Onto(p)][f] = tree[From(p)][f]
Hashed(p, f) == source[p][f] = tree[From(p)][f]

(* What a pull reads of its manifest it reads right.                       *)
Sound(p) == Kept(Here(p)) \subseteq Legible(Here(p))

ArgumentsInv(p) ==
    /\ pc[p] \notin {"finding", "error", "broken"} => Whole(p)
    /\ pc[p] = "error" => ~Whole(p) \/ (~ask[p].push /\ ~Sound(p))

NamesInv(p) ==
    /\ ask[p].push => names[p] = Here(p)
    /\ ~ask[p].push /\ pc[p] = "summing" => names[p] = Here(p)
    /\ ~ask[p].push /\ pc[p] \in {"walking", "reading", "writing", "checking"}
          => names[p] = Kept(Here(p))

HashedInv(p) ==
    /\ pc[p] = "summing" => /\ todo[p] \subseteq names[p]
                            /\ \A f \in names[p] \ todo[p] : Hashed(p, f)
    /\ pc[p] \in {"reading", "writing", "checking"} \/ (pc[p] = "walking" /\ ~ask[p].push)
          => \A f \in names[p] : Hashed(p, f)

StreamInv(p) ==
    /\ pc[p] \in {"piping", "reading", "writing"} =>
          /\ ~vanished[p] /\ todo[p] \subseteq Here(p)
          /\ \A f \in Files : stream[p][f] # None
                => f \in Here(p) /\ stream[p][f] = tree[From(p)][f]
          /\ \A f \in Here(p) : f \in todo[p] \/ stream[p][f] # None \/ Copied(p, f)
    /\ pc[p] = "writing" => todo[p] = {}

CopyInv(p) ==
    /\ pc[p] \in {"checking", "ready"} \/ (pc[p] = "summing" /\ ask[p].push)
          => \A f \in Here(p) : Copied(p, f)
    /\ pc[p] = "checking" =>
          /\ todo[p] \subseteq names[p]
          /\ \A f \in names[p] \ todo[p] :
                /\ dest[p][f] = tree[Onto(p)][f]
                /\ ask[p].push \/ f \notin Misread

VerdictInv(p) ==
    /\ pc[p] = "failed" => ask[p].push /\ Legible(names[p]) # names[p]
    /\ pc[p] = "ready" /\ ask[p].push => Legible(names[p]) = names[p]
    /\ pc[p] = "ready" /\ ~ask[p].push => Sound(p)

CopyingInv(p) ==
    /\ ArgumentsInv(p) /\ NamesInv(p) /\ HashedInv(p)
    /\ StreamInv(p) /\ CopyInv(p) /\ VerdictInv(p)

CalmInv(p) == calm[p] /\ Active(p) => CopyingInv(p)

CalmsInv == \A p \in Procs : CalmInv(p)

(* A call's own steps leave its source and so what it is to copy alone.    *)
LEMMA SourceKept ==
  ASSUME NEW p \in Procs, ask'[p] = ask[p], tree'[From(p)] = tree[From(p)]
  PROVE  /\ From(p)' = From(p) /\ Onto(p)' = Onto(p)
         /\ Here(p)' = Here(p) /\ (Whole(p)' <=> Whole(p)) /\ (Sound(p)' <=> Sound(p))
BY DEF From, Onto, Here, Whole, Present, Complete, Sound, Kept, Legible

LEMMA HereFiles ==
  ASSUME Types, NEW p \in Procs
  PROVE  /\ Here(p) \subseteq Files /\ names[p] \subseteq Files
         /\ \A f \in Here(p) : tree[From(p)][f] # None
BY DEF Here, Present, Types, CallType, Request

(* Steps that touch no tree, whatever else they do.                        *)
Reading(p) ==
    \/ Finds(p) \/ Summed(p) \/ Walks(p) \/ Archived(p) \/ Piped(p) \/ Unpacked(p)
    \/ Checked(p) \/ \E f \in Files : Sums(p, f) \/ Reads(p, f) \/ Checks(p, f)

LEMMA ReadingKept ==
  ASSUME NEW p \in Procs, Reading(p)
  PROVE  /\ UNCHANGED <<ask, tree, calm>>
         /\ From(p)' = From(p) /\ Onto(p)' = Onto(p)
         /\ Here(p)' = Here(p) /\ (Whole(p)' <=> Whole(p)) /\ (Sound(p)' <=> Sound(p))
<1>1. UNCHANGED <<ask, tree, calm>>
  BY DEF Reading, Finds, Summed, Walks, Archived, Piped, Unpacked, Checked, Sums,
         Reads, Checks, treeVars
<1> QED
  BY <1>1, SourceKept

LEMMA FindsCopies ==
  ASSUME Types, NEW p \in Procs, StageInv(p), CopyingInv(p), Finds(p)
  PROVE  CopyingInv(p)'
<1>1. /\ ~ask[p].push /\ names'[p] = Here(p)
      /\ \/ pc'[p] = "summing" /\ Whole(p) /\ todo'[p] = Here(p)
         \/ pc'[p] = "error" /\ ~Whole(p)
  BY ProceedAt DEF Finds, StageInv, Here, Whole, From, Types, CallType
<1>2. UNCHANGED ask /\ Here(p)' = Here(p) /\ (Whole(p)' <=> Whole(p)) /\ (Sound(p)' <=> Sound(p))
  BY ReadingKept DEF Reading
<1> QED
  BY <1>1, <1>2 DEF CopyingInv, ArgumentsInv, NamesInv, HashedInv, StreamInv,
                    CopyInv, VerdictInv

(* Nothing that the call listed is gone when it is hashed.                 *)
LEMMA SumsCopies ==
  ASSUME Types, NEW p \in Procs, NEW f \in Files, StageInv(p), CopyingInv(p),
         Sums(p, f)
  PROVE  CopyingInv(p)'
<1>1. /\ pc[p] = "summing" /\ f \in todo[p] /\ Whole(p) /\ names[p] = Here(p)
      /\ tree[From(p)][f] # None
  BY HereFiles DEF Sums, CopyingInv, ArgumentsInv, NamesInv, HashedInv
<1>2. /\ pc'[p] = "summing" /\ todo'[p] = todo[p] \ {f}
      /\ names' = names
      /\ \A g \in Files : source'[p][g] = IF g = f THEN tree[From(p)][f] ELSE source[p][g]
  BY <1>1, VisitedAt DEF Sums, Types, CallType, Listing
<1>3. /\ UNCHANGED <<ask, tree>> /\ From(p)' = From(p) /\ Onto(p)' = Onto(p)
      /\ Here(p)' = Here(p) /\ (Whole(p)' <=> Whole(p)) /\ (Sound(p)' <=> Sound(p))
  BY ReadingKept DEF Reading
<1>4. HashedInv(p)'
  BY <1>1, <1>2, <1>3, HereFiles DEF CopyingInv, HashedInv, Hashed
<1>5. CopyInv(p)'
  BY <1>1, <1>2, <1>3 DEF CopyingInv, CopyInv, Copied
<1> QED
  BY <1>1, <1>2, <1>3, <1>4, <1>5
     DEF CopyingInv, ArgumentsInv, NamesInv, StreamInv, VerdictInv

LEMMA SummedCopies ==
  ASSUME Types, NEW p \in Procs, StageInv(p), CopyingInv(p), Summed(p)
  PROVE  CopyingInv(p)'
<1>1. /\ pc[p] = "summing" /\ Whole(p) /\ names[p] = Here(p)
      /\ \A f \in Here(p) : Hashed(p, f)
  BY DEF Summed, CopyingInv, ArgumentsInv, NamesInv, HashedInv
<1>2. /\ ask[p].push => /\ pc'[p] = "checking" /\ todo'[p] = names[p]
                        /\ names'[p] = names[p]
      /\ ~ask[p].push => /\ pc'[p] = "walking" /\ todo'[p] = {}
                         /\ names'[p] = Kept(Here(p))
      /\ source' = source
  BY <1>1, ProceedAt DEF Summed, Types, CallType
<1>3. /\ UNCHANGED <<ask, tree>> /\ From(p)' = From(p) /\ Onto(p)' = Onto(p)
      /\ Here(p)' = Here(p) /\ (Whole(p)' <=> Whole(p)) /\ (Sound(p)' <=> Sound(p))
  BY ReadingKept DEF Reading
<1>4. HashedInv(p)'
  BY <1>1, <1>2, <1>3 DEF HashedInv, Hashed, Kept
<1>5. CopyInv(p)'
  BY <1>1, <1>2, <1>3 DEF CopyingInv, CopyInv, Copied
<1>6. NamesInv(p)'
  BY <1>1, <1>2, <1>3 DEF NamesInv, Kept
<1> QED
  BY <1>1, <1>2, <1>3, <1>4, <1>5, <1>6
     DEF CopyingInv, ArgumentsInv, StreamInv, VerdictInv

LEMMA WalksCopies ==
  ASSUME Types, NEW p \in Procs, StageInv(p), CopyingInv(p), Walks(p)
  PROVE  CopyingInv(p)'
<1>1. /\ pc[p] = "walking" /\ Whole(p) /\ stream[p] = Blank
  BY DEF Walks, CopyingInv, ArgumentsInv, StageInv
<1>2. /\ pc'[p] = IF ask[p].push THEN "piping" ELSE "reading"
      /\ todo'[p] = Here(p) /\ ~vanished'[p]
      /\ UNCHANGED <<names, stream, source>>
  BY <1>1, ProceedAt DEF Walks, Here, Whole, Types, CallType
<1>3. /\ UNCHANGED <<ask, tree>> /\ From(p)' = From(p) /\ Onto(p)' = Onto(p)
      /\ Here(p)' = Here(p) /\ (Whole(p)' <=> Whole(p)) /\ (Sound(p)' <=> Sound(p))
  BY ReadingKept DEF Reading
<1>4. HashedInv(p)'
  BY <1>1, <1>2, <1>3 DEF CopyingInv, HashedInv, Hashed
<1>5. StreamInv(p)'
  BY <1>1, <1>2, <1>3 DEF StreamInv, Blank
<1>6. NamesInv(p)'
  BY <1>1, <1>2, <1>3 DEF CopyingInv, NamesInv
<1> QED
  BY <1>1, <1>2, <1>3, <1>4, <1>5, <1>6
     DEF CopyingInv, ArgumentsInv, CopyInv, VerdictInv

LEMMA ReadsCopies ==
  ASSUME Types, NEW p \in Procs, NEW f \in Files, StageInv(p), CopyingInv(p),
         Reads(p, f)
  PROVE  CopyingInv(p)'
<1>1. /\ pc[p] \in {"reading", "piping"} /\ Whole(p) /\ f \in Here(p)
      /\ tree[From(p)][f] # None /\ ~vanished[p] /\ todo[p] \subseteq Here(p)
  BY HereFiles DEF Reads, CopyingInv, ArgumentsInv, StreamInv
<1>2. /\ UNCHANGED <<pc, names, source, dest>> /\ ~vanished'[p]
      /\ todo'[p] = todo[p] \ {f}
      /\ \A g \in Files : stream'[p][g] = IF g = f THEN tree[From(p)][f] ELSE stream[p][g]
  BY <1>1, VisitedAt DEF Reads, Types, CallType, Listing
<1>3. /\ UNCHANGED <<ask, tree>> /\ From(p)' = From(p) /\ Onto(p)' = Onto(p)
      /\ Here(p)' = Here(p) /\ (Whole(p)' <=> Whole(p)) /\ (Sound(p)' <=> Sound(p))
  BY ReadingKept DEF Reading
<1>4. HashedInv(p)'
  BY <1>1, <1>2, <1>3 DEF CopyingInv, HashedInv, Hashed
<1>5. StreamInv(p)'
  BY <1>1, <1>2, <1>3, HereFiles DEF CopyingInv, StreamInv, Copied
<1>6. NamesInv(p)'
  BY <1>1, <1>2, <1>3 DEF CopyingInv, NamesInv
<1> QED
  BY <1>1, <1>2, <1>3, <1>4, <1>5, <1>6
     DEF CopyingInv, ArgumentsInv, CopyInv, VerdictInv

LEMMA ArchivedCopies ==
  ASSUME Types, NEW p \in Procs, StageInv(p), CopyingInv(p), Archived(p)
  PROVE  CopyingInv(p)'
<1>1. pc[p] = "reading" /\ Whole(p) /\ ~ask[p].push /\ ~vanished[p] /\ todo[p] = {}
  BY DEF Archived, CopyingInv, ArgumentsInv, StreamInv, StageInv
<1>2. /\ pc'[p] = "writing" /\ todo'[p] = {}
      /\ UNCHANGED <<names, stream, source, vanished>>
  BY <1>1, ProceedAt DEF Archived
<1>3. /\ UNCHANGED <<ask, tree>> /\ From(p)' = From(p) /\ Onto(p)' = Onto(p)
      /\ Here(p)' = Here(p) /\ (Whole(p)' <=> Whole(p)) /\ (Sound(p)' <=> Sound(p))
  BY ReadingKept DEF Reading
<1>4. HashedInv(p)' /\ NamesInv(p)'
  BY <1>1, <1>2, <1>3 DEF CopyingInv, HashedInv, Hashed, NamesInv
<1>5. StreamInv(p)'
  BY <1>1, <1>2, <1>3 DEF CopyingInv, StreamInv, Copied
<1> QED
  BY <1>1, <1>2, <1>3, <1>4, <1>5
     DEF CopyingInv, ArgumentsInv, CopyInv, VerdictInv

(* What has been read and unpacked has arrived.                            *)
LEMMA DrainedCopies ==
  ASSUME NEW p \in Procs, CopyingInv(p), Types, stream[p] = Blank,
         pc[p] \in {"piping", "writing"}, todo[p] = {}
  PROVE  \A f \in Here(p) : Copied(p, f)
BY HereFiles DEF CopyingInv, StreamInv, Blank

LEMMA PipedCopies ==
  ASSUME Types, NEW p \in Procs, StageInv(p), CopyingInv(p), Piped(p)
  PROVE  CopyingInv(p)'
<1>1. /\ pc[p] = "piping" /\ Whole(p) /\ ask[p].push /\ ~vanished[p]
      /\ todo[p] = {} /\ names[p] = Here(p)
  BY DEF Piped, CopyingInv, ArgumentsInv, NamesInv, StreamInv, StageInv
<1>2. /\ \/ pc'[p] = "ready" /\ names[p] = {}
         \/ pc'[p] = "summing" /\ todo'[p] = names[p]
      /\ UNCHANGED <<names, source>>
  BY <1>1, ProceedAt DEF Piped
<1>3. /\ UNCHANGED <<ask, tree>> /\ From(p)' = From(p) /\ Onto(p)' = Onto(p)
      /\ Here(p)' = Here(p) /\ (Whole(p)' <=> Whole(p)) /\ (Sound(p)' <=> Sound(p))
  BY ReadingKept DEF Reading
<1>4. \A f \in Here(p) : Copied(p, f)
  BY <1>1, DrainedCopies DEF Piped
<1>5. CopyInv(p)'
  BY <1>2, <1>3, <1>4 DEF CopyInv, Copied
<1>6. HashedInv(p)' /\ NamesInv(p)' /\ VerdictInv(p)'
  BY <1>1, <1>2, <1>3 DEF HashedInv, NamesInv, VerdictInv, Kept, Legible
<1> QED
  BY <1>1, <1>2, <1>3, <1>5, <1>6 DEF CopyingInv, ArgumentsInv, StreamInv

LEMMA UnpackedCopies ==
  ASSUME Types, NEW p \in Procs, StageInv(p), CopyingInv(p), Unpacked(p)
  PROVE  CopyingInv(p)'
<1>1. /\ pc[p] = "writing" /\ Whole(p) /\ ~ask[p].push /\ todo[p] = {}
      /\ names[p] = Kept(Here(p)) /\ \A f \in names[p] : Hashed(p, f)
  BY DEF Unpacked, CopyingInv, ArgumentsInv, NamesInv, HashedInv, StreamInv, StageInv
<1>2. /\ pc'[p] = "checking" /\ todo'[p] = names[p]
      /\ UNCHANGED <<names, source>>
  BY <1>1, ProceedAt DEF Unpacked
<1>3. /\ UNCHANGED <<ask, tree>> /\ From(p)' = From(p) /\ Onto(p)' = Onto(p)
      /\ Here(p)' = Here(p) /\ (Whole(p)' <=> Whole(p)) /\ (Sound(p)' <=> Sound(p))
  BY ReadingKept DEF Reading
<1>4. \A f \in Here(p) : Copied(p, f)
  BY <1>1, DrainedCopies DEF Unpacked
<1>5. CopyInv(p)'
  BY <1>2, <1>3, <1>4 DEF CopyInv, Copied
<1>6. HashedInv(p)' /\ NamesInv(p)'
  BY <1>1, <1>2, <1>3 DEF HashedInv, Hashed, NamesInv
<1> QED
  BY <1>1, <1>2, <1>3, <1>5, <1>6
     DEF CopyingInv, ArgumentsInv, StreamInv, VerdictInv

LEMMA ChecksCopies ==
  ASSUME Types, NEW p \in Procs, NEW f \in Files, StageInv(p), CopyingInv(p),
         Checks(p, f)
  PROVE  CopyingInv(p)'
<1>1. /\ pc[p] = "checking" /\ Whole(p) /\ names[p] \subseteq Here(p)
      /\ ~ask[p].push => names[p] = Kept(Here(p))
      /\ f \in todo[p] /\ todo[p] \subseteq names[p]
  BY DEF Checks, CopyingInv, ArgumentsInv, NamesInv, CopyInv, Kept
<1>2. tree[Onto(p)][f] # None
  BY <1>1, HereFiles DEF CopyingInv, CopyInv, Copied
<1>3. /\ UNCHANGED <<ask, tree>> /\ From(p)' = From(p) /\ Onto(p)' = Onto(p)
      /\ Here(p)' = Here(p) /\ (Whole(p)' <=> Whole(p)) /\ (Sound(p)' <=> Sound(p))
  BY ReadingKept DEF Reading
<1>4. CASE ask[p].push \/ f \notin Misread
  <2>1. /\ UNCHANGED <<pc, names, source>> /\ todo'[p] = todo[p] \ {f}
        /\ \A g \in Files : dest'[p][g] = IF g = f THEN tree[Onto(p)][f] ELSE dest[p][g]
    BY <1>2, <1>4, VisitedAt DEF Checks, Lies, Types, CallType, Listing
  <2>2. CopyInv(p)'
    BY <1>1, <1>3, <1>4, <2>1, HereFiles DEF CopyingInv, CopyInv, Copied
  <2>3. HashedInv(p)' /\ NamesInv(p)'
    BY <1>1, <1>3, <2>1 DEF CopyingInv, HashedInv, Hashed, NamesInv, Kept
  <2> QED
    BY <1>1, <1>3, <2>1, <2>2, <2>3
       DEF CopyingInv, ArgumentsInv, StreamInv, VerdictInv
<1>5. CASE ~ask[p].push /\ f \in Misread
  <2>1. ~Sound(p)
    BY <1>1, <1>5 DEF Sound, Legible
  <2>2. pc'[p] = "error"
    BY <1>5, ProceedAt DEF Checks, Lies
  <2> QED
    BY <1>3, <1>5, <2>1, <2>2 DEF CopyingInv, ArgumentsInv, NamesInv, HashedInv,
                                  StreamInv, CopyInv, VerdictInv
<1> QED
  BY <1>4, <1>5

(* Both hashes of an undisturbed file agree, so that only a push with a    *)
(* name it cannot read back fails.                                         *)
LEMMA CheckedCopies ==
  ASSUME Types, NEW p \in Procs, StageInv(p), CopyingInv(p), Checked(p)
  PROVE  CopyingInv(p)'
<1>1. /\ pc[p] = "checking" /\ todo[p] = {} /\ Whole(p) /\ names[p] \subseteq Here(p)
      /\ \A f \in names[p] : Hashed(p, f)
      /\ \A f \in Here(p) : Copied(p, f)
      /\ \A f \in names[p] : /\ dest[p][f] = tree[Onto(p)][f]
                             /\ ask[p].push \/ f \notin Misread
      /\ ~ask[p].push => names[p] = Kept(Here(p))
  BY DEF Checked, CopyingInv, ArgumentsInv, NamesInv, HashedInv, CopyInv, Kept
<1>2. \A f \in names[p] : dest[p][f] = source[p][f]
  BY <1>1 DEF Hashed, Copied
<1>3. Agree(p) <=> (ask[p].push => Legible(names[p]) = names[p])
  BY <1>2 DEF Agree
<1>4. /\ \/ pc'[p] = "ready" /\ (ask[p].push => Legible(names[p]) = names[p])
         \/ pc'[p] = "failed" /\ ask[p].push /\ Legible(names[p]) # names[p]
      /\ names' = names
  BY <1>3, ProceedAt DEF Checked
<1>5. /\ UNCHANGED <<ask, tree>> /\ From(p)' = From(p) /\ Onto(p)' = Onto(p)
      /\ Here(p)' = Here(p) /\ (Whole(p)' <=> Whole(p)) /\ (Sound(p)' <=> Sound(p))
  BY ReadingKept DEF Reading
<1>6. CopyInv(p)'
  BY <1>1, <1>4, <1>5 DEF CopyInv, Copied
<1>8. ~ask[p].push => Sound(p)
  BY <1>1 DEF Sound, Kept, Legible
<1>9. VerdictInv(p)'
  BY <1>4, <1>5, <1>8 DEF VerdictInv, Legible, Kept
<1>7. NamesInv(p)'
  BY <1>1, <1>4, <1>5 DEF CopyingInv, NamesInv, Kept
<1> QED
  BY <1>1, <1>4, <1>5, <1>6, <1>7, <1>9 DEF CopyingInv, ArgumentsInv, HashedInv, StreamInv

LEMMA UnpacksCopies ==
  ASSUME Types, NEW p \in Procs, NEW f \in Files, StageInv(p), CopyingInv(p),
         Unpacks(p, f)
  PROVE  CopyingInv(p)'
<1>1. /\ pc[p] \in {"piping", "writing"} /\ f \in Here(p)
      /\ stream[p][f] = tree[From(p)][f]
  BY DEF Unpacks, CopyingInv, StreamInv
<1>2. /\ UNCHANGED <<pc, ask, names, todo, source, vanished>>
      /\ \A g \in Files : stream'[p][g] = IF g = f THEN None ELSE stream[p][g]
  BY DEF Unpacks, Types, CallType, Listing
<1>3. /\ tree'[From(p)] = tree[From(p)]
      /\ \A g \in Files : tree'[Onto(p)][g] = IF g = f THEN stream[p][f]
                                              ELSE tree[Onto(p)][g]
  BY SideType DEF Unpacks, Alter, Types, TreeType, Tree, Listing
<1>4. /\ From(p)' = From(p) /\ Onto(p)' = Onto(p)
      /\ Here(p)' = Here(p) /\ (Whole(p)' <=> Whole(p)) /\ (Sound(p)' <=> Sound(p))
  BY <1>2, <1>3, SourceKept
<1>5. HashedInv(p)' /\ NamesInv(p)'
  BY <1>1, <1>2, <1>3, <1>4 DEF CopyingInv, HashedInv, Hashed, NamesInv
<1>6. StreamInv(p)'
  BY <1>1, <1>2, <1>3, <1>4, HereFiles DEF CopyingInv, StreamInv, Copied
<1> QED
  BY <1>1, <1>2, <1>4, <1>5, <1>6
     DEF CopyingInv, ArgumentsInv, CopyInv, VerdictInv

LEMMA StartsCopies ==
  ASSUME Types, NEW p \in Procs, NEW r \in Requests, Starts(p, r)
  PROVE  CopyingInv(p)'
<1>1. /\ ask'[p] = r /\ tree' = tree
      /\ r.push => From(p)' = "local" /\ names'[p] = Present("local", r)
      /\ pc'[p] = IF ~r.push THEN "finding"
                  ELSE IF Complete("local", r) THEN "walking" ELSE "error"
  BY DEF Starts, Types, CallType, From
<1>2. r.push => /\ names'[p] = Here(p)'
                /\ Whole(p)' <=> Complete("local", r)
  BY <1>1 DEF Here, Whole, Present, Complete
<1> QED
  BY <1>1, <1>2 DEF CopyingInv, ArgumentsInv, NamesInv, HashedInv, StreamInv,
                    CopyInv, VerdictInv

(* A broken call owes nothing, except that its push listed its files.      *)
LEMMA BreaksCopies ==
  ASSUME Types, NEW p \in Procs, CopyingInv(p), Breaks(p)
  PROVE  CopyingInv(p)'
<1>1. pc'[p] = "broken" /\ UNCHANGED <<ask, names>>
  BY ProceedAt DEF Breaks
<1>2. tree'[From(p)] = tree[From(p)]
  <2>1. CASE UNCHANGED treeVars
    BY <2>1 DEF treeVars
  <2>2. CASE ~UNCHANGED treeVars
    BY <2>2, SideType DEF Breaks, Alter, Types, TreeType, Tree
  <2> QED
    BY <2>1, <2>2
<1>3. Here(p)' = Here(p)
  BY <1>1, <1>2, SourceKept
<1> QED
  BY <1>1, <1>3 DEF CopyingInv, ArgumentsInv, NamesInv, HashedInv, StreamInv,
                    CopyInv, VerdictInv

LEMMA OwnCopies ==
  ASSUME Types, NEW p \in Procs, StageInv(p), CalmInv(p), Step(p) \/ Breaks(p)
  PROVE  CalmInv(p)'
<1>1. CASE \E r \in Requests : Starts(p, r)
  BY <1>1, StartsCopies DEF CalmInv
<1>2. CASE Returns(p)
  BY <1>2, ProceedAt DEF Returns, CalmInv, Active
<1>3. CASE Reading(p)
  <2>1. pc[p] # "idle" /\ calm' = calm
    BY <1>3, ReadingKept DEF Reading, Finds, Summed, Walks, Archived, Piped,
       Unpacked, Checked, Sums, Reads, Checks
  <2>2. CASE ~calm[p]
    BY <2>1, <2>2 DEF CalmInv
  <2>3. CASE calm[p]
    BY <1>3, <2>1, <2>3, FindsCopies, SumsCopies, SummedCopies, WalksCopies,
       ReadsCopies, ArchivedCopies, PipedCopies, UnpackedCopies, ChecksCopies,
       CheckedCopies DEF Reading, CalmInv, Active
  <2> QED
    BY <2>2, <2>3
<1>4. ASSUME NEW f \in Files, Unpacks(p, f) PROVE CalmInv(p)'
  <2>1. pc[p] # "idle" /\ (calm'[p] => calm[p])
    BY <1>4 DEF Unpacks, Alter
  <2> QED
    BY <1>4, <2>1, UnpacksCopies DEF CalmInv, Active
<1>5. CASE Breaks(p)
  <2>1. pc[p] # "idle" /\ (calm'[p] => calm[p])
    BY <1>5 DEF Breaks, Active, Alter, treeVars
  <2> QED
    BY <1>5, <2>1, BreaksCopies DEF CalmInv, Active
<1> QED
  BY <1>1, <1>2, <1>3, <1>4, <1>5 DEF Step, Reading

(* Whoever writes disturbs all the others.                                 *)
LEMMA StepDisturbs ==
  ASSUME Types, NEW p \in Procs, NEW q \in Procs, q # p, Step(p) \/ Breaks(p)
  PROVE  /\ vanished'[q] = vanished[q]
         /\ calm'[q] => calm[q] /\ tree' = tree
<1> USE DEF Types, CallType, treeVars
<1>1. CASE Reading(p)
  BY <1>1, ReadingKept DEF Reading, Finds, Summed, Walks, Archived, Piped,
     Unpacked, Checked, Sums, Reads, Checks
<1>2. CASE \E r \in Requests : Starts(p, r)
  BY <1>2 DEF Starts, TreeType
<1>3. CASE Returns(p)
  BY <1>3 DEF Returns
<1>4. CASE Breaks(p)
  BY <1>4 DEF Breaks, Alter
<1>5. CASE \E f \in Files : Unpacks(p, f)
  BY <1>5 DEF Unpacks, Alter
<1> QED
  BY <1>1, <1>2, <1>3, <1>4, <1>5 DEF Step, Reading

LEMMA StillCopies ==
  ASSUME NEW q \in Procs, CalmInv(q), Unmoved(q), vanished'[q] = vanished[q],
         calm'[q] => calm[q] /\ tree' = tree
  PROVE  CalmInv(q)'
<1> SUFFICES ASSUME calm'[q], Active(q)' PROVE CopyingInv(q)'
  BY DEF CalmInv
<1>1. CopyingInv(q) /\ tree' = tree
  BY DEF CalmInv, Unmoved, Active
<1>2. /\ From(q)' = From(q) /\ Onto(q)' = Onto(q)
      /\ Here(q)' = Here(q) /\ (Whole(q)' <=> Whole(q)) /\ (Sound(q)' <=> Sound(q))
  BY <1>1, SourceKept DEF Unmoved
<1>3. ArgumentsInv(q)' /\ NamesInv(q)' /\ VerdictInv(q)'
  BY <1>1, <1>2
     DEF CopyingInv, ArgumentsInv, NamesInv, VerdictInv, Unmoved, Kept, Legible
<1>4. HashedInv(q)'
  BY <1>1, <1>2 DEF CopyingInv, HashedInv, Hashed, Unmoved
<1>5. StreamInv(q)' /\ CopyInv(q)'
  BY <1>1, <1>2 DEF CopyingInv, StreamInv, CopyInv, Copied, Unmoved
<1> QED
  BY <1>3, <1>4, <1>5 DEF CopyingInv

LEMMA CalmInit == Init => CalmsInv
BY DEF Init, CalmsInv, CalmInv, Active

LEMMA CalmStep == Types /\ SnapshotInv /\ CalmsInv /\ [Next]_vars => CalmsInv'
<1> SUFFICES ASSUME Types, SnapshotInv, CalmsInv, [Next]_vars, NEW q \in Procs
             PROVE  CalmInv(q)'
  BY DEF CalmsInv
<1> USE DEF CalmsInv
<1>1. CASE UNCHANGED vars
  BY <1>1, StillCopies DEF vars, callVars, treeVars, Unmoved
<1>2. ASSUME NEW p \in Procs, Step(p) \/ Breaks(p) PROVE CalmInv(q)'
  <2>1. CASE q = p
    BY <1>2, <2>1, OwnCopies DEF SnapshotInv, CallInv
  <2>2. CASE q # p
    BY <1>2, <2>2, StepUnmoves, StepDisturbs, StillCopies
  <2> QED
    BY <2>1, <2>2
<1>3. ASSUME NEW side \in Side, NEW f \in Files, Edits(side, f) PROVE CalmInv(q)'
  <2>1. None \notin Procs
    BY TransferAssumption
  <2>2. ~calm'[q]
    BY <1>3, <2>1 DEF Edits, Alter
  <2> QED
    BY <2>2 DEF CalmInv
<1> QED
  BY <1>1, <1>2, <1>3 DEF Next

(* A transfer that nobody disturbs is ready exactly when what it was asked *)
(* for exists and its paths come back from sha256sum as they must: a push  *)
(* wants each one, a pull those it has kept of its manifest.  It has then  *)
(* made the destination equal to the source: neither the order of its      *)
(* steps nor anything earlier transfers left behind can make it fail.      *)
THEOREM Undisturbed == Spec => []UndisturbedCopies
<1>1. CalmsInv => UndisturbedCopies
  <2> SUFFICES ASSUME CalmsInv, NEW p \in Procs, pc[p] \in Over \ {"broken"}, calm[p]
               PROVE  /\ pc[p] = "ready" <=>
                            /\ Whole(p)
                            /\ (IF ask[p].push THEN Here(p) ELSE Kept(Here(p)))
                                  \subseteq Legible(Here(p))
                      /\ pc[p] = "ready" => \A f \in Here(p) : Copied(p, f)
    BY DEF UndisturbedCopies, Here, Whole, Copied
  <2>1. CopyingInv(p) /\ pc[p] \in {"ready", "failed", "error"}
    BY DEF CalmsInv, CalmInv, Active, Over
  <2>2. Legible(Here(p)) \subseteq Here(p)
    BY DEF Legible, Kept
  <2>3. CASE ask[p].push
    BY <2>1, <2>2, <2>3 DEF CopyingInv, ArgumentsInv, NamesInv, CopyInv, VerdictInv
  <2>4. CASE ~ask[p].push
    BY <2>1, <2>4 DEF CopyingInv, ArgumentsInv, CopyInv, VerdictInv, Sound
  <2> QED
    BY <2>3, <2>4
<1> QED
  BY <1>1, TypeInit, TypeStep, SnapshotInit, SnapshotStep, CalmInit, CalmStep, PTL
     DEF Spec
=============================================================================
