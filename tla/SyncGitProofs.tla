--------------------------- MODULE SyncGitProofs ---------------------------
(***************************************************************************)
(* What a sync promises, for every tree of repositories, any number of     *)
(* overlapping syncs, edits and faults.  Of the commits and mirrors: every *)
(* commit is one of the repository it is kept for, a mirror is closed      *)
(* under history, and a commit of a parent names only commits its          *)
(* children's mirrors hold.  Of the call itself: its success is true, and  *)
(* it succeeds when nothing disturbs it.                                   *)
(***************************************************************************)
EXTENDS SyncGit, WellFoundedInduction, TLAPS

-----------------------------------------------------------------------------
(* Commits are sequences, of what need not be said.                        *)

IsSeq(c) == c \in Seq({c[i] : i \in 1 .. Len(c)})

LEMMA SomeSeq ==
  ASSUME NEW S, NEW c \in Seq(S)
  PROVE  IsSeq(c)
BY DEF IsSeq

LEMMA OneSeq ==
  ASSUME NEW t
  PROVE  IsSeq(<<t>>) /\ Len(<<t>>) = 1 /\ Last(<<t>>) = t /\ <<t>>[1] = t
<1>1. <<t>> \in Seq({t}) /\ Len(<<t>>) = 1
  OBVIOUS
<1> QED
  BY <1>1, SomeSeq DEF Last

LEMMA MoreSeq ==
  ASSUME NEW c, IsSeq(c), NEW t
  PROVE  /\ IsSeq(Append(c, t))
         /\ Len(Append(c, t)) = Len(c) + 1
         /\ Last(Append(c, t)) = t
         /\ \A i \in 1 .. Len(c) : Append(c, t)[i] = c[i]
         /\ Append(c, t)[Len(c) + 1] = t
         /\ \A i \in 1 .. Len(c) : SubSeq(Append(c, t), 1, i) = SubSeq(c, 1, i)
         /\ SubSeq(Append(c, t), 1, Len(c) + 1) = Append(c, t)
<1> DEFINE S == {c[i] : i \in 1 .. Len(c)}
<1>1. c \in Seq(S \cup {t}) /\ Append(c, t) \in Seq(S \cup {t})
  BY DEF IsSeq
<1>2. /\ Len(c) \in Nat
      /\ Len(Append(c, t)) = Len(c) + 1
      /\ \A i \in 1 .. Len(c) : Append(c, t)[i] = c[i]
      /\ Append(c, t)[Len(c) + 1] = t
  BY <1>1
<1>3. Last(Append(c, t)) = t
  BY <1>2 DEF Last
<1>4. \A i \in 1 .. Len(c) : SubSeq(Append(c, t), 1, i) = SubSeq(c, 1, i)
  BY <1>1, <1>2
<1>5. SubSeq(Append(c, t), 1, Len(c) + 1) = Append(c, t)
  BY <1>1, <1>2
<1> QED
  BY <1>1, <1>2, <1>3, <1>4, <1>5, SomeSeq

LEMMA PrefixSeq ==
  ASSUME NEW c, IsSeq(c), NEW i \in 1 .. Len(c)
  PROVE  /\ IsSeq(SubSeq(c, 1, i)) /\ Len(SubSeq(c, 1, i)) = i
         /\ \A k \in 1 .. i : SubSeq(SubSeq(c, 1, i), 1, k) = SubSeq(c, 1, k)
<1> DEFINE S == {c[k] : k \in 1 .. Len(c)}
<1>1. c \in Seq(S) /\ Len(c) \in Nat /\ i \in Nat /\ i <= Len(c)
  BY DEF IsSeq
<1> HIDE DEF S
<1>2. SubSeq(c, 1, i) \in Seq(S) /\ Len(SubSeq(c, 1, i)) = i
  BY <1>1
<1>3. \A k \in 1 .. i : SubSeq(SubSeq(c, 1, i), 1, k) = SubSeq(c, 1, k)
  BY <1>1, <1>2
<1> QED
  BY <1>2, <1>3, SomeSeq

(* A commit of r is a first-parent line: a sequence that is not empty.     *)
Line(r, c) == IsSeq(c) /\ IsCommit(r, c)

-----------------------------------------------------------------------------
(* The invariant.                                                          *)

Fields == {"pc", "result", "fast", "good", "queue", "old", "snap", "base",
           "probe", "seen", "quiet", "agreed", "moved"}

Snapped == {"heads", "status", "probe", "ask", "push", "pipe", "unref",
            "materialize", "save"}
Pcs == Busy \cup {"idle", "ended"}
Pushing == {"ask", "push", "pipe", "unref"}

(* The queue of a call is what is left of Order; Pos is where it stands.   *)
Pos(s) == Len(Order) - Len(s.queue) + 1
IsRest(s) ==
    /\ Pos(s) \in 1 .. Len(Order) + 1
    /\ s.queue = SubSeq(Order, Pos(s), Len(Order))

(* What a finished snapshot of r is: it records the snapshots of what is   *)
(* mounted in r and lies one commit above its base.                        *)
Built(s, r) ==
    /\ Line(r, s.snap[r])
    /\ \A k \in Kids[r] : Last(s.snap[r]).links[k] = s.snap[k]
    /\ s.base[r] # None =>
          Line(r, s.base[r]) /\ \E t : s.snap[r] = Append(s.base[r], t)

(* What a call knows, in whatever state the mirrors are.                   *)
CallInv(s) ==
    /\ DOMAIN s = Fields
    /\ DOMAIN s.snap = Repos /\ DOMAIN s.base = Repos
    /\ s.pc \in Pcs /\ s.result \in Result /\ s.queue \in Seq(Repos)
    /\ \A r \in Repos : MaybeCommit(r, s.snap[r])
    /\ s.pc \in {"start", "snapshot"} =>
          \A r \in Repos : s.old[r] # None => Line(r, s.old[r])
    /\ s.pc = "snapshot" =>
          /\ IsRest(s)
          /\ \A i \in 1 .. Len(Order) : i < Pos(s) => Built(s, Order[i])
    /\ s.pc \in Snapped => \A r \in Repos : Built(s, r)
    /\ s.pc \in Pushing => IsRest(s)
    /\ s.pc \in {"pipe", "unref"} => s.queue # <<>>
    /\ s.pc = "ask" => DOMAIN s.probe = Repos

(* What a call knows of the mirrors: those it has visited, and the probed  *)
(* ones, hold what it believes.                                            *)
PushInv(s, o) ==
    s.pc \in Pushing =>
        /\ \A r \in Repos : s.probe[r] # None => s.probe[r] \in o[MirrorOf[r]]
        /\ s.pc # "ask" => \A i \in 1 .. Len(Order) :
              i < Pos(s) => s.snap[Order[i]] \in o[MirrorOf[Order[i]]]
        /\ s.pc = "unref" /\ s.good =>
              s.snap[Order[Pos(s)]] \in o[MirrorOf[Order[Pos(s)]]]

CallsInv == \A p \in Procs : CallInv(sync[p])
LastInv  == last # None => \A r \in Repos : Line(r, last[r])
ParityHeld == \A m \in Mirrors : parity[m] # None => parity[m] \in objs[m]
MirrorInv ==
    /\ DOMAIN objs = Mirrors /\ DOMAIN parity = Mirrors
    /\ ParityHeld /\ MirrorsClosed
VarType ==
    /\ work \in [Repos -> Content]
    /\ DOMAIN odb = Repos /\ DOMAIN tmp = Repos
    /\ \A r \in Repos : /\ \A c \in odb[r] : IsCommit(r, c)
                        /\ MaybeCommit(r, tmp[r])
    /\ up \in BOOLEAN /\ touched \in [Repos -> BOOLEAN]
    /\ script \in [Procs -> Seq(Repos)]
    /\ edits \in 0 .. MaxEdits /\ faults \in 0 .. MaxFaults
ClosedInv == CallsInv /\ LastInv /\ MirrorInv /\ VarType

PushesInv ==
    faults = 0 => \A p \in Procs : PushInv(sync[p], objs)
CompleteInv == ClosedInv /\ PushesInv /\ MirrorsComplete

-----------------------------------------------------------------------------
(* The queue.                                                              *)

LEMMA RestStarts ==
  ASSUME NEW s, s.queue = Order
  PROVE  IsRest(s) /\ Pos(s) = 1
<1>1. Order \in Seq(Repos) /\ Len(Order) \in Nat /\ Len(Order) > 0
  BY SyncAssumption
<1>2. SubSeq(Order, 1, Len(Order)) = Order
  BY <1>1
<1> QED
  BY <1>1, <1>2 DEF IsRest, Pos

LEMMA RestGoesOn ==
  ASSUME NEW s, NEW t, IsRest(s), s.queue # <<>>, t.queue = Tail(s.queue)
  PROVE  /\ Pos(s) \in 1 .. Len(Order)
         /\ Head(s.queue) = Order[Pos(s)] /\ Head(s.queue) \in Repos
         /\ IsRest(t) /\ Pos(t) = Pos(s) + 1
<1> DEFINE n == Pos(s)
<1>1. Order \in Seq(Repos) /\ Len(Order) \in Nat
  BY SyncAssumption
<1>2. n \in 1 .. Len(Order) + 1 /\ s.queue = SubSeq(Order, n, Len(Order))
  BY DEF IsRest
<1>3. n # Len(Order) + 1
  <2> SUFFICES ASSUME n = Len(Order) + 1 PROVE FALSE
    OBVIOUS
  <2>1. SubSeq(Order, Len(Order) + 1, Len(Order)) = <<>>
    BY <1>1
  <2> QED
    BY <1>2, <2>1
<1> HIDE DEF n
<1>4. n \in 1 .. Len(Order)
  BY <1>1, <1>2, <1>3
<1>5. /\ Head(SubSeq(Order, n, Len(Order))) = Order[n]
      /\ Tail(SubSeq(Order, n, Len(Order))) = SubSeq(Order, n + 1, Len(Order))
      /\ Len(SubSeq(Order, n + 1, Len(Order))) = Len(Order) - n
      /\ Order[n] \in Repos
  BY <1>1, <1>4
<1>6. Pos(t) = n + 1
  BY <1>1, <1>2, <1>4, <1>5 DEF Pos
<1>7. IsRest(t)
  BY <1>1, <1>2, <1>4, <1>5, <1>6 DEF IsRest
<1>8. Head(s.queue) = Order[n] /\ Head(s.queue) \in Repos
  BY <1>2, <1>5
<1> QED
  BY <1>4, <1>6, <1>7, <1>8 DEF n

LEMMA RestEnds ==
  ASSUME NEW s, IsRest(s), s.queue = <<>>
  PROVE  Pos(s) = Len(Order) + 1
<1>1. Len(Order) \in Nat
  BY SyncAssumption
<1> QED
  BY <1>1 DEF Pos

(* A commit on top of a commit of r.                                       *)
LEMMA GrownLine ==
  ASSUME NEW r, NEW b, NEW t, IsSeq(b), IsCommit(r, b),
         t.content \in Content, DOMAIN t.links = Kids[r]
  PROVE  Line(r, Append(b, t))
<1> DEFINE c == Append(b, t)
<1>1. /\ IsSeq(c) /\ Len(c) = Len(b) + 1
      /\ \A i \in 1 .. Len(b) : c[i] = b[i]
      /\ c[Len(b) + 1] = t
  BY MoreSeq
<1>2. Len(b) \in Nat /\ Len(b) > 0
  BY DEF IsSeq, IsCommit
<1> HIDE DEF c
<1>3. ASSUME NEW i \in 1 .. Len(c)
      PROVE  c[i].content \in Content /\ DOMAIN c[i].links = Kids[r]
  <2>1. CASE i \in 1 .. Len(b)
    BY <1>1, <2>1 DEF IsCommit
  <2>2. CASE i = Len(b) + 1
    BY <1>1, <2>2
  <2> QED
    BY <1>1, <1>2, <2>1, <2>2
<1>4. Line(r, c)
  BY <1>1, <1>2, <1>3 DEF Line, IsCommit
<1> QED
  BY <1>4 DEF c

LEMMA RestType ==
  ASSUME NEW s, IsRest(s)
  PROVE  s.queue \in Seq(Repos)
<1>1. Order \in Seq(Repos) /\ Len(Order) \in Nat
  BY SyncAssumption
<1> QED
  BY <1>1 DEF IsRest

-----------------------------------------------------------------------------
(* How the local state of a call changes.                                  *)

(* The fields that the invariant speaks of stay as they are.               *)
Same(s, t) ==
    /\ DOMAIN t = Fields
    /\ t.pc = s.pc /\ t.result = s.result /\ t.good = s.good
    /\ t.queue = s.queue
    /\ t.old = s.old /\ t.snap = s.snap /\ t.base = s.base
    /\ t.probe = s.probe

LEMMA SameCall ==
  ASSUME NEW s, NEW t, CallInv(s), Same(s, t)
  PROVE  CallInv(t)
<1>1. IsRest(t) <=> IsRest(s)
  BY DEF Same, IsRest, Pos
<1>2. Pos(t) = Pos(s)
  BY DEF Same, Pos
<1>3. \A r : Built(t, r) <=> Built(s, r)
  BY DEF Same, Built
<1> QED
  BY <1>1, <1>2, <1>3 DEF Same, CallInv

Grows(o, n) == \A r \in Repos : o[MirrorOf[r]] \subseteq n[MirrorOf[r]]

LEMMA OrderType ==
  /\ Len(Order) \in Nat
  /\ \A i \in 1 .. Len(Order) : Order[i] \in Repos
<1>1. Order \in Seq(Repos)
  BY SyncAssumption
<1> QED
  BY <1>1

(* What is mounted in a repository comes before it.                        *)
LEMMA MountedFirst ==
  ASSUME NEW i \in 1 .. Len(Order), NEW n \in 1 .. Len(Order), i <= n
  PROVE  Order[n] \notin Kids[Order[i]] /\ Kids[Order[i]] \subseteq Repos
<1>1. /\ \A j, k \in 1 .. Len(Order) : Order[k] \in Kids[Order[j]] => k < j
      /\ Kids \in [Repos -> SUBSET Repos]
  BY SyncAssumption
<1>2. ~(n < i)
  BY OrderType
<1> QED
  BY <1>1, <1>2, OrderType

LEMMA NotMountedInItself ==
  ASSUME NEW i \in 1 .. Len(Order), NEW r, r = Order[i]
  PROVE  r \notin Kids[r] /\ Kids[r] \subseteq Repos
<1>1. i <= i
  BY OrderType
<1> QED
  BY <1>1, MountedFirst

LEMMA RestHead ==
  ASSUME NEW s, IsRest(s), s.queue # <<>>
  PROVE  /\ Pos(s) \in 1 .. Len(Order)
         /\ Head(s.queue) = Order[Pos(s)] /\ Head(s.queue) \in Repos
<1> DEFINE t == [queue |-> Tail(s.queue)]
<1>1. t.queue = Tail(s.queue)
  OBVIOUS
<1> HIDE DEF t
<1> QED
  BY <1>1, RestGoesOn

LEMMA SamePush ==
  ASSUME NEW s, NEW t, NEW o, NEW n, CallInv(s), Same(s, t),
         PushInv(s, o), Grows(o, n)
  PROVE  PushInv(t, n)
<1> SUFFICES ASSUME t.pc \in Pushing PROVE PushInv(t, n)
  BY DEF PushInv
<1>1. s.pc \in Pushing /\ Pos(t) = Pos(s)
  BY DEF Same, Pos
<1>2. \A r \in Repos : t.probe[r] # None => t.probe[r] \in n[MirrorOf[r]]
  BY <1>1 DEF PushInv, Same, Grows
<1>3. ASSUME t.pc # "ask", NEW i \in 1 .. Len(Order), i < Pos(t)
      PROVE  t.snap[Order[i]] \in n[MirrorOf[Order[i]]]
  BY <1>1, <1>3, OrderType DEF PushInv, Same, Grows
<1>4. ASSUME t.pc = "unref", t.good
      PROVE  t.snap[Order[Pos(t)]] \in n[MirrorOf[Order[Pos(t)]]]
  <2>1. s.queue # <<>> /\ IsRest(s)
    BY <1>1, <1>4 DEF CallInv, Same
  <2>2. Pos(s) \in 1 .. Len(Order)
    BY <2>1, RestHead
  <2> QED
    BY <1>1, <1>4, <2>2, OrderType DEF PushInv, Same, Grows
<1> QED
  BY <1>2, <1>3, <1>4 DEF PushInv

LEMMA QuietSame ==
  ASSUME NEW s, DOMAIN s = Fields
  PROVE  Same(s, [s EXCEPT !.quiet = FALSE])
BY DEF Same, Fields

(* p goes on to c, and the other calls stay as they are.                   *)
GoesTo(p, c) ==
    /\ sync'[p] = c
    /\ \A q \in Procs \ {p} : Same(sync[q], sync'[q])

LEMMA MovesOthers ==
  ASSUME CallsInv, NEW p \in Procs, NEW c, Moves(p, c)
  PROVE  GoesTo(p, c)
<1>1. sync'[p] = c
  BY DEF Moves
<1>2. ASSUME NEW q \in Procs \ {p} PROVE Same(sync[q], sync'[q])
  <2>1. sync'[q] = [sync[q] EXCEPT !.quiet = FALSE]
    BY <1>2 DEF Moves
  <2> QED
    BY <2>1, QuietSame DEF CallsInv, CallInv
<1> QED
  BY <1>1, <1>2 DEF GoesTo

LEMMA CallsFollow ==
  ASSUME CallsInv, NEW p \in Procs, NEW c, GoesTo(p, c), CallInv(c)
  PROVE  CallsInv'
<1> SUFFICES ASSUME NEW q \in Procs PROVE CallInv(sync'[q])
  BY DEF CallsInv
<1>1. CASE q = p
  BY <1>1 DEF GoesTo
<1>2. CASE q # p
  <2>1. Same(sync[q], sync'[q]) /\ CallInv(sync[q])
    BY <1>2 DEF GoesTo, CallsInv
  <2> QED
    BY <2>1, SameCall
<1> QED
  BY <1>1, <1>2

LEMMA PushesFollow ==
  ASSUME CallsInv, NEW p \in Procs, NEW c, GoesTo(p, c),
         \A q \in Procs : PushInv(sync[q], objs),
         Grows(objs, objs'), PushInv(c, objs')
  PROVE  \A q \in Procs : PushInv(sync'[q], objs')
<1> SUFFICES ASSUME NEW q \in Procs PROVE PushInv(sync'[q], objs')
  OBVIOUS
<1>1. CASE q = p
  BY <1>1 DEF GoesTo
<1>2. CASE q # p
  <2>1. Same(sync[q], sync'[q]) /\ CallInv(sync[q])
    BY <1>2 DEF GoesTo, CallsInv
  <2> QED
    BY <2>1, SamePush
<1> QED
  BY <1>1, <1>2

LEMMA IdleShape ==
  /\ DOMAIN IdleSync = Fields
  /\ DOMAIN IdleSync.snap = Repos /\ DOMAIN IdleSync.base = Repos
  /\ IdleSync.pc = "idle" /\ IdleSync.result = "none"
  /\ IdleSync.queue = <<>> /\ IdleSync.queue \in Seq(Repos)
  /\ \A r \in Repos : IdleSync.old[r] = None /\ IdleSync.snap[r] = None
BY DEF IdleSync, Fields

LEMMA CallIdles ==
  ASSUME NEW t, DOMAIN t = Fields, DOMAIN t.snap = Repos,
         DOMAIN t.base = Repos, t.pc \in {"idle", "ended"},
         t.result \in Result, t.queue \in Seq(Repos),
         \A r \in Repos : MaybeCommit(r, t.snap[r])
  PROVE  CallInv(t) /\ t.pc \notin Pushing
BY DEF CallInv, Snapped, Pushing, Pcs

LEMMA CallEnds ==
  ASSUME NEW p \in Procs, CallInv(sync[p]), NEW result \in Result
  PROVE  CallInv(Ended(p, result)) /\ Ended(p, result).pc = "ended"
<1> DEFINE t == Ended(p, result)
<1>1. /\ DOMAIN t = Fields /\ t.pc = "ended" /\ t.snap = sync[p].snap
      /\ t.base = IdleSync.base /\ t.queue = <<>> /\ t.result = result
  BY IdleShape DEF Ended, Fields
<1> HIDE DEF t
<1>2. /\ DOMAIN t.snap = Repos /\ DOMAIN t.base = Repos
      /\ t.queue \in Seq(Repos)
      /\ \A r \in Repos : MaybeCommit(r, t.snap[r])
  BY <1>1, IdleShape DEF CallInv
<1>3. CallInv(t)
  BY <1>1, <1>2, CallIdles
<1> QED
  BY <1>1, <1>3 DEF t

(* With its snapshots a call may do anything but push.                     *)
LEMMA CallKeeps ==
  ASSUME NEW s, NEW t, CallInv(s), s.pc \in Snapped,
         DOMAIN t = Fields, t.snap = s.snap, t.base = s.base,
         t.pc \in Snapped \ Pushing, t.result = s.result,
         t.queue \in Seq(Repos)
  PROVE  CallInv(t)
<1>1. \A r \in Repos : Built(t, r)
  BY DEF CallInv, Built
<1> QED
  BY <1>1 DEF CallInv, Snapped, Pushing, Pcs, Busy

-----------------------------------------------------------------------------
(* The steps of a call that do not push.                                   *)

CalmStep(p) == \E c : GoesTo(p, c) /\ CallInv(c) /\ c.pc \notin Pushing

LEMMA CalmMove ==
  ASSUME CallsInv, NEW p \in Procs, NEW c, Moves(p, c), CallInv(c),
         c.pc \notin Pushing
  PROVE  CalmStep(p)
BY MovesOthers DEF CalmStep

LEMMA EndStep ==
  ASSUME CallsInv, NEW p \in Procs, NEW result \in Result,
         Moves(p, Ended(p, result))
  PROVE  CalmStep(p)
<1>1. CallInv(Ended(p, result)) /\ Ended(p, result).pc = "ended"
  BY CallEnds DEF CallsInv
<1>2. Ended(p, result).pc \notin Pushing
  BY <1>1 DEF Pushing
<1> QED
  BY <1>1, <1>2, CalmMove

LEMMA KeepStep ==
  ASSUME CallsInv, NEW p \in Procs, NEW t, Moves(p, t),
         sync[p].pc \in Snapped, DOMAIN t = Fields, t.snap = sync[p].snap,
         t.base = sync[p].base, t.pc \in Snapped \ Pushing,
         t.result = sync[p].result, t.queue \in Seq(Repos)
  PROVE  CalmStep(p)
<1>1. CallInv(t)
  BY CallKeeps DEF CallsInv
<1> QED
  BY <1>1, CalmMove

LEMMA StartStep ==
  ASSUME CallsInv, NEW p \in Procs, Start(p)
  PROVE  CalmStep(p)
<1> DEFINE c == [IdleSync EXCEPT !.pc = "start", !.quiet = TRUE]
<1>1. /\ DOMAIN c = Fields /\ DOMAIN c.snap = Repos /\ DOMAIN c.base = Repos
      /\ c.pc = "start" /\ c.result = "none" /\ c.queue \in Seq(Repos)
      /\ \A r \in Repos : c.old[r] = None /\ c.snap[r] = None
  BY IdleShape DEF Fields
<1>2. Moves(p, c)
  BY DEF Start
<1> HIDE DEF c
<1>3. CallInv(c) /\ c.pc \notin Pushing
  BY <1>1 DEF CallInv, Snapped, Pushing, Pcs, Busy, Result, MaybeCommit
<1> QED
  BY <1>2, <1>3, CalmMove

LEMMA EnsureUpStep ==
  ASSUME CallsInv, LastInv, NEW p \in Procs, EnsureUp(p)
  PROVE  CalmStep(p)
<1>1. CASE up
  <2> DEFINE s == sync[p]
             c == [s EXCEPT !.pc = "snapshot", !.queue = Order,
                            !.old = IF last = None THEN @ ELSE last]
  <2>1. Moves(p, c) /\ s.pc = "start" /\ CallInv(s)
    BY <1>1 DEF EnsureUp, At, CallsInv
  <2>2. /\ DOMAIN c = Fields /\ c.snap = s.snap /\ c.base = s.base
        /\ c.pc = "snapshot" /\ c.queue = Order /\ c.result = s.result
        /\ c.old = IF last = None THEN s.old ELSE last
    BY <2>1 DEF CallInv, Fields
  <2> HIDE DEF c
  <2>3. \A r \in Repos : c.old[r] # None => Line(r, c.old[r])
    BY <2>1, <2>2 DEF CallInv, LastInv
  <2>4. IsRest(c) /\ Pos(c) = 1
    BY <2>2, RestStarts
  <2>5. \A i \in 1 .. Len(Order) : ~(i < Pos(c))
    BY <2>4, OrderType
  <2>6. CallInv(c) /\ c.pc \notin Pushing
    BY <2>1, <2>2, <2>3, <2>4, <2>5, RestType
    DEF CallInv, Snapped, Pushing, Pcs, Busy
  <2> QED
    BY <2>1, <2>6, CalmMove
<1>2. CASE ~up
  BY <1>2, EndStep DEF EnsureUp, Result
<1> QED
  BY <1>1, <1>2

(* The snapshot of a repository leaves those of earlier ones alone, whose  *)
(* mounted repositories are earlier still.                                 *)
LEMMA BuildSnapshotStep ==
  ASSUME CallsInv, VarType,
         NEW p \in Procs, BuildSnapshot(p)
  PROVE  /\ CalmStep(p)
         /\ \E r \in Repos : \E c : /\ IsCommit(r, c)
                                   /\ odb' = [odb EXCEPT ![r] = @ \cup {c}]
<1> DEFINE s == sync[p]
           r == Head(s.queue)
           old == s.old[r]
           tree == TreeOf(p, r)
           usable == old # None /\ old \in odb[r]
           reuse == usable /\ Last(old) = tree
           commit == IF reuse THEN old
                     ELSE IF usable THEN Append(old, tree) ELSE <<tree>>
           base == IF usable /\ ~reuse THEN old ELSE None
           c == [s EXCEPT !.queue = Tail(@), !.snap[r] = commit,
                          !.base[r] = base]
<1>1. /\ Moves(p, c) /\ s.pc = "snapshot" /\ s.queue # <<>>
      /\ CallInv(s)
      /\ odb' = [odb EXCEPT ![r] = @ \cup {commit}]
  BY DEF BuildSnapshot, At, CallsInv
<1>2. IsRest(s)
  BY <1>1 DEF CallInv
<1>3. /\ DOMAIN c = Fields /\ c.pc = "snapshot" /\ c.queue = Tail(s.queue)
      /\ c.old = s.old /\ c.result = s.result
      /\ c.snap = [s.snap EXCEPT ![r] = commit]
      /\ c.base = [s.base EXCEPT ![r] = base]
  BY <1>1 DEF CallInv, Fields
<1>4. /\ Pos(s) \in 1 .. Len(Order)
      /\ r = Order[Pos(s)] /\ r \in Repos
      /\ IsRest(c) /\ Pos(c) = Pos(s) + 1
  BY <1>1, <1>2, <1>3, RestGoesOn
<1>5. /\ DOMAIN c.snap = Repos /\ DOMAIN c.base = Repos
      /\ c.snap[r] = commit /\ c.base[r] = base
      /\ \A q \in Repos \ {r} : c.snap[q] = s.snap[q] /\ c.base[q] = s.base[q]
  BY <1>1, <1>3, <1>4 DEF CallInv
<1>6. r \notin Kids[r] /\ Kids[r] \subseteq Repos
  <2>1. Pos(s) \in 1 .. Len(Order) /\ r = Order[Pos(s)]
    BY <1>4
  <2> HIDE DEF r, s, old, tree, usable, reuse, commit, base, c
  <2> QED
    BY <2>1, NotMountedInItself
<1>7. \A k \in Kids[r] : tree.links[k] = c.snap[k]
  BY <1>5, <1>6 DEF TreeOf
<1>8. old # None => Line(r, old)
  BY <1>1, <1>4 DEF CallInv
<1>9. tree.content \in Content /\ DOMAIN tree.links = Kids[r]
  BY <1>4 DEF TreeOf, VarType
<1> HIDE DEF tree, c
<1>10. /\ Line(r, commit) /\ Last(commit) = tree
       /\ base # None => Line(r, base) /\ commit = Append(base, tree)
  <2>1. CASE reuse
    BY <2>1, <1>8
  <2>2. CASE usable /\ ~reuse
    <3>1. IsSeq(old) /\ IsCommit(r, old)
      BY <2>2, <1>8 DEF Line
    <3>2. Last(Append(old, tree)) = tree
      BY <3>1, MoreSeq
    <3>3. Line(r, Append(old, tree))
      BY <3>1, <1>9, GrownLine
    <3> QED
      BY <2>2, <1>8, <3>2, <3>3
  <2>3. CASE ~usable
    <3>1. Line(r, <<tree>>) /\ Last(<<tree>>) = tree
      BY <1>9, OneSeq DEF Line, IsCommit
    <3> QED
      BY <2>3, <3>1
  <2> QED
    BY <2>1, <2>2, <2>3
<1> HIDE DEF commit, base, reuse, usable
<1>11. Built(c, r)
  BY <1>5, <1>7, <1>10 DEF Built
<1>12. ASSUME NEW i \in 1 .. Len(Order), i < Pos(c)
       PROVE  Built(c, Order[i])
  <2>1. CASE Order[i] = r
    BY <2>1, <1>11
  <2>2. CASE Order[i] # r
    <3>1. i < Pos(s)
      BY <1>4, <1>12, <2>2, OrderType
    <3>2. Built(s, Order[i]) /\ Order[i] \in Repos
      BY <1>1, <3>1, OrderType DEF CallInv
    <3>3. r \notin Kids[Order[i]] /\ Kids[Order[i]] \subseteq Repos
      BY <1>4, <3>1, OrderType, MountedFirst
    <3>4. /\ c.snap[Order[i]] = s.snap[Order[i]]
          /\ c.base[Order[i]] = s.base[Order[i]]
          /\ \A k \in Kids[Order[i]] : c.snap[k] = s.snap[k]
      BY <1>5, <2>2, <3>2, <3>3
    <3> QED
      BY <3>2, <3>4 DEF Built
  <2> QED
    BY <2>1, <2>2
<1>13. \A q \in Repos : MaybeCommit(q, c.snap[q])
  BY <1>1, <1>5, <1>10 DEF CallInv, MaybeCommit, Line
<1>14. CallInv(c) /\ c.pc \notin Pushing
  BY <1>1, <1>3, <1>4, <1>5, <1>12, <1>13, RestType
  DEF CallInv, Snapped, Pushing
<1> QED
  BY <1>1, <1>4, <1>10, <1>14, CalmMove DEF Line

LEMMA CompareStep ==
  ASSUME CallsInv, NEW p \in Procs, Compare(p)
  PROVE  CalmStep(p)
<1> DEFINE s == sync[p]
<1>1. s.pc = "snapshot" /\ s.queue = <<>> /\ CallInv(s)
  BY DEF Compare, At, CallsInv
<1>2. PICK c : /\ Moves(p, c)
               /\ \/ c = [s EXCEPT !.pc = "heads", !.fast = TRUE,
                                   !.queue = Order]
                  \/ c = [s EXCEPT !.pc = "probe"]
  BY DEF Compare
<1>3. /\ DOMAIN c = Fields /\ c.snap = s.snap /\ c.base = s.base
      /\ c.pc \in {"heads", "probe"} /\ c.result = s.result
      /\ c.queue \in {s.queue, Order}
  BY <1>1, <1>2 DEF CallInv, Fields
<1>4. Pos(s) = Len(Order) + 1
  BY <1>1, RestEnds DEF CallInv
<1>5. ASSUME NEW r \in Repos PROVE Built(c, r)
  <2>1. PICK i \in 1 .. Len(Order) : Order[i] = r
    BY SyncAssumption
  <2>2. Built(s, r)
    BY <1>1, <1>4, <2>1, OrderType DEF CallInv
  <2> QED
    BY <1>3, <2>2 DEF Built
<1>6. CallInv(c) /\ c.pc \notin Pushing
  BY <1>1, <1>3, <1>5, SyncAssumption
  DEF CallInv, Snapped, Pushing, Pcs, Busy
<1> QED
  BY <1>2, <1>6, CalmMove

LEMMA SendScriptStep ==
  ASSUME CallsInv, NEW p \in Procs, SendScript(p)
  PROVE  CalmStep(p)
<1> DEFINE s == sync[p]
           c == [s EXCEPT !.pc = "materialize"]
<1>1. Moves(p, c) /\ s.pc = "push" /\ CallInv(s)
  BY DEF SendScript, At, CallsInv
<1>2. /\ DOMAIN c = Fields /\ c.snap = s.snap /\ c.base = s.base
      /\ c.pc = "materialize" /\ c.result = s.result /\ c.queue = s.queue
      /\ s.queue \in Seq(Repos)
  BY <1>1 DEF CallInv, Fields
<1> HIDE DEF c
<1> QED
  BY <1>1, <1>2, KeepStep DEF Snapped, Pushing

LEMMA ScriptReturnsStep ==
  ASSUME CallsInv, NEW p \in Procs, ScriptReturns(p)
  PROVE  CalmStep(p)
<1> DEFINE s == sync[p]
           c == [s EXCEPT !.pc = "heads", !.fast = FALSE, !.good = TRUE,
                          !.queue = Order, !.seen = [r \in Repos |-> None]]
<1>1. Moves(p, c) /\ s.pc = "materialize" /\ CallInv(s)
  BY DEF ScriptReturns, At, CallsInv
<1>2. /\ DOMAIN c = Fields /\ c.snap = s.snap /\ c.base = s.base
      /\ c.pc = "heads" /\ c.result = s.result /\ c.queue = Order
  BY <1>1 DEF CallInv, Fields
<1> HIDE DEF c
<1> QED
  BY <1>1, <1>2, KeepStep, SyncAssumption DEF Snapped, Pushing

LEMMA ReadHeadStep ==
  ASSUME CallsInv, NEW p \in Procs, ReadHead(p)
  PROVE  CalmStep(p)
<1> DEFINE s == sync[p]
           r == Head(s.queue)
           c == [s EXCEPT !.pc = "status", !.seen[r] = head[r],
                          !.agreed = @ \/ Agree(p)]
<1>1. Moves(p, c) /\ s.pc = "heads" /\ CallInv(s)
  BY DEF ReadHead, At, CallsInv
<1>2. /\ DOMAIN c = Fields /\ c.snap = s.snap /\ c.base = s.base
      /\ c.pc = "status" /\ c.result = s.result /\ c.queue = s.queue
      /\ s.queue \in Seq(Repos)
  BY <1>1 DEF CallInv, Fields
<1> HIDE DEF c
<1> QED
  BY <1>1, <1>2, KeepStep DEF Snapped, Pushing

LEMMA ReadStatusStep ==
  ASSUME CallsInv, NEW p \in Procs, ReadStatus(p)
  PROVE  CalmStep(p)
<1> DEFINE s == sync[p]
           r == Head(s.queue)
           c == [s EXCEPT
                    !.pc = IF Len(s.queue) > 1 THEN "heads" ELSE "status",
                    !.queue = Tail(@), !.good = @ /\ ~Dirty(r),
                    !.agreed = @ \/ Agree(p)]
<1>1. Moves(p, c) /\ s.pc = "status" /\ CallInv(s) /\ s.queue # <<>>
  BY DEF ReadStatus, At, CallsInv
<1>2. /\ DOMAIN c = Fields /\ c.snap = s.snap /\ c.base = s.base
      /\ c.pc \in {"heads", "status"} /\ c.result = s.result
      /\ c.queue = Tail(s.queue) /\ c.queue \in Seq(Repos)
  BY <1>1 DEF CallInv, Fields
<1> HIDE DEF c
<1> QED
  BY <1>1, <1>2, KeepStep DEF Snapped, Pushing

LEMMA AcceptStep ==
  ASSUME CallsInv, NEW p \in Procs, Accept(p)
  PROVE  CalmStep(p)
<1> DEFINE s == sync[p]
           c == [s EXCEPT !.pc = "save"]
<1>1. s.pc = "status" /\ CallInv(s)
  BY DEF Accept, At, CallsInv
<1>2. CASE s.fast
  BY <1>2, EndStep DEF Accept, Result
<1>3. CASE ~s.fast
  <2>1. Moves(p, c)
    BY <1>3 DEF Accept
  <2>2. /\ DOMAIN c = Fields /\ c.snap = s.snap /\ c.base = s.base
        /\ c.pc = "save" /\ c.result = s.result /\ c.queue = s.queue
        /\ s.queue \in Seq(Repos)
    BY <1>1 DEF CallInv, Fields
  <2> HIDE DEF c
  <2> QED
    BY <1>1, <2>1, <2>2, KeepStep DEF Snapped, Pushing
<1> QED
  BY <1>2, <1>3

(* A rejected verification, on the fast path, goes on to the probe.        *)
LEMMA RejectShape ==
  ASSUME NEW p \in Procs, CallInv(sync[p]), sync[p].pc \in {"heads", "status"}
  PROVE  CallInv(Reject(p)) /\ Reject(p).pc \notin Pushing
<1> DEFINE s == sync[p]
           c == [s EXCEPT !.pc = "probe", !.agreed = FALSE, !.moved = FALSE]
<1>1. CASE s.fast
  <2>1. Reject(p) = c
    BY <1>1 DEF Reject
  <2>2. /\ DOMAIN c = Fields /\ c.snap = s.snap /\ c.base = s.base
        /\ c.pc = "probe" /\ c.result = s.result /\ c.queue = s.queue
        /\ s.queue \in Seq(Repos)
    BY DEF CallInv, Fields
  <2> HIDE DEF c
  <2>3. CallInv(c) /\ c.pc \notin Pushing
    BY <2>2, CallKeeps DEF Snapped, Pushing
  <2> QED
    BY <2>1, <2>3
<1>2. CASE ~s.fast
  <2>1. Reject(p) = Ended(p, "failed")
    BY <1>2 DEF Reject
  <2> QED
    BY <2>1, CallEnds DEF Pushing, Result
<1> QED
  BY <1>1, <1>2

LEMMA RefuseStep ==
  ASSUME CallsInv, NEW p \in Procs, Refuse(p)
  PROVE  CalmStep(p)
<1>1. Moves(p, Reject(p)) /\ sync[p].pc \in {"heads", "status"}
  BY DEF Refuse, At
<1>2. CallInv(sync[p])
  BY DEF CallsInv
<1> QED
  BY <1>1, <1>2, RejectShape, CalmMove

LEMMA SaveStateStep ==
  ASSUME CallsInv, NEW p \in Procs, SaveState(p)
  PROVE  CalmStep(p) /\ LastInv'
<1>1. CalmStep(p)
  BY EndStep DEF SaveState, Result
<1>2. \A r \in Repos : Line(r, sync[p].snap[r])
  BY DEF SaveState, At, CallsInv, CallInv, Snapped, Built
<1>3. last' = sync[p].snap
  BY DEF SaveState
<1> QED
  BY <1>1, <1>2, <1>3 DEF LastInv

LEMMA IdleStep ==
  ASSUME CallsInv, NEW p \in Procs, Moves(p, IdleSync)
  PROVE  CalmStep(p)
<1>1. CallInv(IdleSync) /\ IdleSync.pc \notin Pushing
  BY IdleShape, CallIdles DEF Result, MaybeCommit
<1> QED
  BY <1>1, CalmMove

(* Any call that fails outside a pipe.                                     *)
LEMMA QuietlessStep ==
  ASSUME CallsInv, NEW p \in Procs, NEW t, CallInv(t), t.pc \notin Pushing,
         Moves(p, [t EXCEPT !.quiet = FALSE])
  PROVE  CalmStep(p)
<1> DEFINE c == [t EXCEPT !.quiet = FALSE]
<1>1. Same(t, c)
  BY QuietSame DEF CallInv
<1>2. CallInv(c)
  BY <1>1, SameCall
<1>3. c.pc \notin Pushing
  BY <1>1 DEF Same
<1> HIDE DEF c
<1>4. Moves(p, c)
  BY DEF c
<1> QED
  BY <1>2, <1>3, <1>4, CalmMove

LEMMA SshFailsStep ==
  ASSUME CallsInv, NEW p \in Procs, SshFails(p), ~At(p, "pipe")
  PROVE  CalmStep(p)
<1>1. CallInv(sync[p])
  BY DEF CallsInv
<1>2. \/ Moves(p, [Ended(p, "error") EXCEPT !.quiet = FALSE])
      \/ Verifying(p) /\ Moves(p, [Reject(p) EXCEPT !.quiet = FALSE])
  BY DEF SshFails
<1>3. CASE Moves(p, [Ended(p, "error") EXCEPT !.quiet = FALSE])
  <2>1. /\ CallInv(Ended(p, "error"))
        /\ Ended(p, "error").pc \notin Pushing
    BY <1>1, CallEnds DEF Pushing, Result
  <2> QED
    BY <1>3, <2>1, QuietlessStep
<1>4. CASE Verifying(p) /\ Moves(p, [Reject(p) EXCEPT !.quiet = FALSE])
  <2>1. CallInv(Reject(p)) /\ Reject(p).pc \notin Pushing
    BY <1>1, <1>4, RejectShape DEF Verifying
  <2> QED
    BY <1>4, <2>1, QuietlessStep
<1> QED
  BY <1>2, <1>3, <1>4

(* The script of p goes on, whether p still waits for it or not.           *)
LEMMA MaterializeRepoStep ==
  ASSUME CallsInv, NEW p \in Procs, MaterializeRepo(p)
  PROVE  CalmStep(p) \/ \A q \in Procs : Same(sync[q], sync'[q])
<1> DEFINE r == Head(script[p])
<1>1. CASE parity[MirrorOf[r]] # None
  <2>1. ASSUME NEW q \in Procs PROVE Same(sync[q], sync'[q])
    <3>1. DOMAIN sync[q] = Fields
      BY DEF CallsInv, CallInv
    <3>2. CASE q = p
      <4>1. sync'[q] = sync[q]
        BY <1>1, <3>2 DEF MaterializeRepo
      <4> QED
        BY <3>1, <4>1 DEF Same
    <3>3. CASE q # p
      <4>1. sync'[q] = [sync[q] EXCEPT
                           !.quiet = FALSE,
                           !.moved = @ \/ MovesRoot(q, r,
                                               parity[MirrorOf[r]])]
        BY <1>1, <3>3 DEF MaterializeRepo
      <4> QED
        BY <3>1, <4>1 DEF Same, Fields
    <3> QED
      BY <3>2, <3>3
  <2> QED
    BY <2>1
<1>2. CASE parity[MirrorOf[r]] = None
  <2>1. CASE At(p, "materialize")
    BY <1>2, <2>1, EndStep DEF MaterializeRepo, Result
  <2>2. CASE ~At(p, "materialize")
    <3>1. Moves(p, sync[p])
      BY <1>2, <2>2 DEF MaterializeRepo
    <3>2. GoesTo(p, sync[p])
      BY <3>1, MovesOthers
    <3>3. ASSUME NEW q \in Procs PROVE Same(sync[q], sync'[q])
      <4>1. DOMAIN sync[q] = Fields
        BY DEF CallsInv, CallInv
      <4> QED
        BY <3>2, <4>1 DEF GoesTo, Same
    <3> QED
      BY <3>3
  <2> QED
    BY <2>1, <2>2
<1> QED
  BY <1>1, <1>2

-----------------------------------------------------------------------------
(* The steps of a push.                                                    *)

(* What a push may rely on while nothing has failed.                       *)
Known(p) == PushInv(sync[p], objs) /\ ParityHeld /\ ~IsSeq(None)

PushStep(p) ==
    \E c : GoesTo(p, c) /\ CallInv(c) /\ (Known(p) => PushInv(c, objs'))

LEMMA PushMove ==
  ASSUME CallsInv, NEW p \in Procs, NEW c, Moves(p, c), CallInv(c),
         Known(p) => PushInv(c, objs')
  PROVE  PushStep(p)
BY MovesOthers DEF PushStep

LEMMA CalmIsPush ==
  ASSUME NEW p \in Procs, CalmStep(p)
  PROVE  PushStep(p)
BY DEF CalmStep, PushStep, PushInv

(* From one push step to the next the snapshots and the probe stay.        *)
LEMMA PushKeeps ==
  ASSUME NEW s, NEW t, CallInv(s), s.pc \in Snapped,
         DOMAIN t = Fields, t.snap = s.snap, t.base = s.base,
         t.pc \in Pushing, IsRest(t),
         t.pc \in {"pipe", "unref"} => t.queue # <<>>, t.result = s.result,
         t.pc = "ask" => DOMAIN t.probe = Repos
  PROVE  CallInv(t)
<1>1. \A r \in Repos : Built(t, r)
  BY DEF CallInv, Built
<1> QED
  BY <1>1, RestType DEF CallInv, Snapped, Pushing, Pcs, Busy

LEMMA QueryParityStep ==
  ASSUME CallsInv, NEW p \in Procs, QueryParity(p)
  PROVE  PushStep(p)
<1> DEFINE s == sync[p]
           c == [s EXCEPT !.pc = "ask", !.queue = Order,
                          !.probe = [r \in Repos |-> None]]
<1>1. Moves(p, c) /\ s.pc = "probe" /\ CallInv(s)
  BY DEF QueryParity, At, CallsInv
<1>2. /\ DOMAIN c = Fields /\ c.snap = s.snap /\ c.base = s.base
      /\ c.pc = "ask" /\ c.queue = Order
      /\ c.result = s.result /\ c.probe = [r \in Repos |-> None]
  BY <1>1 DEF CallInv, Fields
<1> HIDE DEF c
<1>3. IsRest(c)
  BY <1>2, RestStarts
<1>4. CallInv(c)
  BY <1>1, <1>2, <1>3, PushKeeps DEF Snapped, Pushing
<1>5. PushInv(c, objs')
  BY <1>2 DEF PushInv
<1> QED
  BY <1>1, <1>4, <1>5, PushMove

LEMMA ReadParityStep ==
  ASSUME CallsInv, NEW p \in Procs, ReadParity(p)
  PROVE  PushStep(p)
<1> DEFINE s == sync[p]
           q == Head(s.queue)
           c == [s EXCEPT !.queue = Tail(@), !.probe[q] = parity[MirrorOf[q]]]
<1>1. /\ Moves(p, c) /\ s.pc = "ask" /\ s.queue # <<>> /\ CallInv(s)
      /\ objs' = objs
  BY DEF ReadParity, At, CallsInv, remoteVars
<1>2. /\ DOMAIN c = Fields /\ c.snap = s.snap /\ c.base = s.base
      /\ c.pc = "ask" /\ c.queue = Tail(s.queue)
      /\ c.result = s.result
      /\ c.probe = [s.probe EXCEPT ![q] = parity[MirrorOf[q]]]
      /\ DOMAIN s.probe = Repos
  BY <1>1 DEF CallInv, Fields
<1> HIDE DEF c
<1>3. IsRest(s)
  BY <1>1 DEF CallInv, Pushing
<1>4. IsRest(c)
  BY <1>1, <1>2, <1>3, RestGoesOn
<1>5. CallInv(c)
  BY <1>1, <1>2, <1>4, PushKeeps DEF Snapped, Pushing
<1>6. Known(p) => PushInv(c, objs')
  BY <1>1, <1>2 DEF Known, PushInv, Pushing, ParityHeld, Mirrors
<1> QED
  BY <1>1, <1>5, <1>6, PushMove

LEMMA PlanBundlesStep ==
  ASSUME CallsInv, NEW p \in Procs, PlanBundles(p)
  PROVE  PushStep(p)
<1> DEFINE s == sync[p]
           c == [s EXCEPT !.pc = "push", !.queue = Order]
<1>1. Moves(p, c) /\ s.pc = "ask" /\ CallInv(s) /\ objs' = objs
  BY DEF PlanBundles, At, CallsInv, remoteVars
<1>2. /\ DOMAIN c = Fields /\ c.snap = s.snap /\ c.base = s.base
      /\ c.pc = "push" /\ c.queue = Order
      /\ c.result = s.result /\ c.probe = s.probe
  BY <1>1 DEF CallInv, Fields
<1> HIDE DEF c
<1>3. IsRest(c) /\ Pos(c) = 1
  BY <1>2, RestStarts
<1>4. CallInv(c)
  BY <1>1, <1>2, <1>3, PushKeeps DEF Snapped, Pushing
<1>5. Known(p) => PushInv(c, objs')
  <2>1. \A i \in 1 .. Len(Order) : ~(i < Pos(c))
    BY <1>3, OrderType
  <2> QED
    BY <1>1, <1>2, <2>1 DEF Known, PushInv, Pushing
<1> QED
  BY <1>1, <1>4, <1>5, PushMove

LEMMA SkipRepoStep ==
  ASSUME CallsInv, NEW p \in Procs, SkipRepo(p)
  PROVE  PushStep(p)
<1> DEFINE s == sync[p]
           c == [s EXCEPT !.queue = Tail(@)]
<1>1. /\ Moves(p, c) /\ s.pc = "push" /\ s.queue # <<>>
      /\ CallInv(s) /\ objs' = objs
      /\ PlanOf(p, Head(s.queue)) = "skip"
  BY DEF SkipRepo, At, CallsInv, remoteVars
<1>2. /\ DOMAIN c = Fields /\ c.snap = s.snap /\ c.base = s.base
      /\ c.pc = "push" /\ c.queue = Tail(s.queue) /\ c.probe = s.probe
      /\ c.result = s.result
  BY <1>1 DEF CallInv, Fields
<1> HIDE DEF c
<1>3. IsRest(s)
  BY <1>1 DEF CallInv, Pushing
<1>4. /\ Pos(s) \in 1 .. Len(Order)
      /\ Head(s.queue) = Order[Pos(s)] /\ Head(s.queue) \in Repos
      /\ IsRest(c) /\ Pos(c) = Pos(s) + 1
  BY <1>1, <1>2, <1>3, RestGoesOn
<1>5. CallInv(c)
  BY <1>1, <1>2, <1>4, PushKeeps DEF Snapped, Pushing
<1>6. ASSUME Known(p) PROVE PushInv(c, objs')
  <2>1. s.probe[Head(s.queue)] = s.snap[Head(s.queue)]
    BY <1>1 DEF PlanOf, BundlePlan
  <2>2. s.snap[Head(s.queue)] # None
    BY <1>1, <1>4, <1>6 DEF Known, CallInv, Snapped, Built, Line
  <2>3. s.snap[Order[Pos(s)]] \in objs[MirrorOf[Order[Pos(s)]]]
    BY <1>1, <1>4, <1>6, <2>1, <2>2 DEF Known, PushInv, Pushing
  <2>4. \A i \in 1 .. Len(Order) : i < Pos(c) => i < Pos(s) \/ i = Pos(s)
    BY <1>4, OrderType
  <2> QED
    BY <1>1, <1>2, <1>6, <2>3, <2>4 DEF Known, PushInv, Pushing
<1> QED
  BY <1>1, <1>5, <1>6, PushMove

LEMMA SetTemporaryRefStep ==
  ASSUME CallsInv, NEW p \in Procs, SetTemporaryRef(p)
  PROVE  PushStep(p)
<1> DEFINE s == sync[p]
           c == [s EXCEPT !.pc = "pipe"]
<1>1. /\ Moves(p, c) /\ s.pc = "push" /\ s.queue # <<>>
      /\ CallInv(s) /\ objs' = objs
  BY DEF SetTemporaryRef, At, CallsInv, remoteVars
<1>2. /\ DOMAIN c = Fields /\ c.snap = s.snap /\ c.base = s.base
      /\ c.pc = "pipe" /\ c.queue = s.queue /\ c.probe = s.probe
      /\ c.result = s.result
  BY <1>1 DEF CallInv, Fields
<1> HIDE DEF c
<1>3. IsRest(c) /\ Pos(c) = Pos(s)
  BY <1>1, <1>2 DEF CallInv, Pushing, IsRest, Pos
<1>4. CallInv(c)
  BY <1>1, <1>2, <1>3, PushKeeps DEF Snapped, Pushing
<1>5. Known(p) => PushInv(c, objs')
  BY <1>1, <1>2, <1>3 DEF Known, PushInv, Pushing
<1> QED
  BY <1>1, <1>4, <1>5, PushMove

LEMMA DeleteTemporaryRefStep ==
  ASSUME CallsInv, NEW p \in Procs, DeleteTemporaryRef(p)
  PROVE  PushStep(p)
<1> DEFINE s == sync[p]
           c == [s EXCEPT !.pc = "push", !.queue = Tail(@)]
<1>1. s.pc = "unref" /\ CallInv(s) /\ objs' = objs
  BY DEF DeleteTemporaryRef, At, CallsInv, remoteVars
<1>2. CASE ~s.good
  <2>1. CalmStep(p)
    BY <1>2, EndStep DEF DeleteTemporaryRef, Result
  <2> QED
    BY <2>1, CalmIsPush
<1>3. CASE s.good
  <2>1. Moves(p, c)
    BY <1>3 DEF DeleteTemporaryRef
  <2>2. /\ DOMAIN c = Fields /\ c.snap = s.snap /\ c.base = s.base
        /\ c.pc = "push" /\ c.queue = Tail(s.queue) /\ c.probe = s.probe
        /\ c.result = s.result
    BY <1>1 DEF CallInv, Fields
  <2> HIDE DEF c
  <2>3. IsRest(s) /\ s.queue # <<>>
    BY <1>1 DEF CallInv, Pushing
  <2>4. /\ Pos(s) \in 1 .. Len(Order)
        /\ IsRest(c) /\ Pos(c) = Pos(s) + 1
    BY <2>2, <2>3, RestGoesOn
  <2>5. CallInv(c)
    BY <1>1, <2>2, <2>4, PushKeeps DEF Snapped, Pushing
  <2>6. ASSUME Known(p) PROVE PushInv(c, objs')
    <3>1. \A i \in 1 .. Len(Order) : i < Pos(c) => i < Pos(s) \/ i = Pos(s)
      BY <2>4, OrderType
    <3> QED
      BY <1>1, <1>3, <2>2, <2>6, <3>1 DEF Known, PushInv, Pushing
  <2> QED
    BY <2>1, <2>5, <2>6, PushMove
<1> QED
  BY <1>2, <1>3

(* A pipe that breaks, at either end.                                      *)
LEMMA BrokenPipeStep ==
  ASSUME CallsInv, NEW p \in Procs, SshFails(p), At(p, "pipe")
  PROVE  PushStep(p)
<1> DEFINE s == sync[p]
           t == [s EXCEPT !.pc = "unref", !.good = FALSE]
           c == [t EXCEPT !.quiet = FALSE]
<1>1. /\ Moves(p, c) /\ s.pc = "pipe" /\ CallInv(s) /\ objs' = objs
  BY DEF SshFails, At, CallsInv, remoteVars, Verifying
<1>2. /\ DOMAIN c = Fields /\ c.snap = s.snap /\ c.base = s.base
      /\ c.pc = "unref" /\ c.queue = s.queue /\ c.probe = s.probe
      /\ c.result = s.result
      /\ c.good = FALSE
  BY <1>1 DEF CallInv, Fields
<1> HIDE DEF c
<1>3. IsRest(c) /\ Pos(c) = Pos(s) /\ c.queue # <<>>
  BY <1>1, <1>2 DEF CallInv, Pushing, IsRest, Pos
<1>4. CallInv(c)
  BY <1>1, <1>2, <1>3, PushKeeps DEF Snapped, Pushing
<1>5. Known(p) => PushInv(c, objs')
  BY <1>1, <1>2, <1>3 DEF Known, PushInv, Pushing
<1> QED
  BY <1>1, <1>4, <1>5, PushMove

-----------------------------------------------------------------------------
(* The pipe: what a mirror accepts.                                        *)

(* A full bundle brings every ancestor along.                              *)
LEMMA HistoryClosed ==
  ASSUME NEW r, NEW c, Line(r, c)
  PROVE  /\ c \in History(c)
         /\ \A d \in History(c) :
               \A i \in 1 .. Len(d) : SubSeq(d, 1, i) \in History(c)
<1>1. IsSeq(c) /\ Len(c) \in Nat /\ Len(c) > 0
  BY DEF Line, IsSeq, IsCommit
<1>2. SubSeq(c, 1, Len(c)) = c
  BY <1>1 DEF IsSeq
<1>3. ASSUME NEW d \in History(c), NEW i \in 1 .. Len(d)
      PROVE  SubSeq(d, 1, i) \in History(c)
  <2>1. PICK n \in 1 .. Len(c) : d = SubSeq(c, 1, n)
    BY DEF History
  <2>2. Len(d) = n /\ \A k \in 1 .. n : SubSeq(d, 1, k) = SubSeq(c, 1, k)
    BY <1>1, <2>1, PrefixSeq
  <2>3. i \in 1 .. Len(c) /\ SubSeq(d, 1, i) = SubSeq(c, 1, i)
    BY <1>1, <2>1, <2>2
  <2> QED
    BY <2>3 DEF History
<1>4. c \in History(c)
  <2>1. Len(c) \in 1 .. Len(c)
    BY <1>1
  <2> QED
    BY <1>2, <2>1 DEF History
<1> QED
  BY <1>3, <1>4

(* A delta finds all ancestors but the commit itself under its base.       *)
LEMMA DeltaClosed ==
  ASSUME NEW r, NEW b, NEW t, Line(r, b), NEW o,
         \A i \in 1 .. Len(b) : SubSeq(b, 1, i) \in o
  PROVE  \A i \in 1 .. Len(Append(b, t)) :
            SubSeq(Append(b, t), 1, i) \in o \cup {Append(b, t)}
<1> DEFINE c == Append(b, t)
<1>1. IsSeq(b) /\ Len(b) \in Nat
  BY DEF Line, IsSeq
<1>2. /\ Len(c) = Len(b) + 1
      /\ \A i \in 1 .. Len(b) : SubSeq(c, 1, i) = SubSeq(b, 1, i)
      /\ SubSeq(c, 1, Len(b) + 1) = c
  BY <1>1, MoreSeq
<1> HIDE DEF c
<1>3. ASSUME NEW i \in 1 .. Len(c)
      PROVE  SubSeq(c, 1, i) \in o \cup {c}
  <2>1. i \in 1 .. Len(b) \/ i = Len(b) + 1
    BY <1>1, <1>2
  <2>2. CASE i \in 1 .. Len(b)
    <3>1. SubSeq(c, 1, i) = SubSeq(b, 1, i) /\ SubSeq(b, 1, i) \in o
      BY <1>2, <2>2
    <3> QED
      BY <3>1
  <2>3. CASE i = Len(b) + 1
    <3>1. SubSeq(c, 1, i) = c
      BY <1>2, <2>3
    <3> QED
      BY <3>1
  <2> QED
    BY <2>1, <2>2, <2>3
<1> QED
  BY <1>3 DEF c

(* What an accepted bundle of process p does to the mirror of r.           *)
Feeds(p, r) ==
    LET m == MirrorOf[r] IN
    /\ DOMAIN objs' = Mirrors /\ DOMAIN parity' = Mirrors
    /\ parity'[m] = sync[p].snap[r]
    /\ sync[p].snap[r] \in objs'[m]
    /\ objs[m] \subseteq objs'[m]
    /\ \A n \in Mirrors \ {m} : objs'[n] = objs[n] /\ parity'[n] = parity[n]

LEMMA BundleFeeds ==
  ASSUME MirrorInv, NEW p \in Procs, CallInv(sync[p]), PipeBundle(p),
         NEW r \in Repos, r = Head(sync[p].queue), Accepted(p, r)
  PROVE  Feeds(p, r) /\ MirrorsClosed'
<1> DEFINE s == sync[p]
           m == MirrorOf[r]
           c == s.snap[r]
           new == IF PlanOf(p, r) = "delta" THEN {c} ELSE History(c)
<1>1. /\ s.pc = "pipe"
      /\ objs' = [objs EXCEPT ![m] = @ \cup new]
      /\ parity' = [parity EXCEPT ![m] = c]
  BY DEF PipeBundle, At
<1>2. Built(s, r)
  BY <1>1 DEF CallInv, Snapped
<1>3. m \in Mirrors
  BY DEF Mirrors
<1>4. /\ DOMAIN objs' = Mirrors /\ DOMAIN parity' = Mirrors
      /\ objs'[m] = objs[m] \cup new /\ parity'[m] = c
      /\ \A n \in Mirrors \ {m} : objs'[n] = objs[n] /\ parity'[n] = parity[n]
  BY <1>1, <1>3 DEF MirrorInv
<1>5. Line(r, c)
  BY <1>2 DEF Built
<1>6. /\ c \in new
      /\ \A d \in new : \A i \in 1 .. Len(d) :
            SubSeq(d, 1, i) \in objs[m] \cup new
  <2>1. CASE PlanOf(p, r) = "delta"
    <3> DEFINE b == s.base[r]
    <3>1. b # None /\ b \in objs[m]
      BY <2>1 DEF PlanOf, BundlePlan, Accepted
    <3>2. PICK t : c = Append(b, t)
      BY <1>2, <3>1 DEF Built
    <3>3. Line(r, b)
      BY <1>2, <3>1 DEF Built
    <3>4. \A i \in 1 .. Len(b) : SubSeq(b, 1, i) \in objs[m]
      BY <1>3, <3>1 DEF MirrorInv, MirrorsClosed
    <3> HIDE DEF b, c
    <3>5. \A i \in 1 .. Len(c) : SubSeq(c, 1, i) \in objs[m] \cup {c}
      BY <3>2, <3>3, <3>4, DeltaClosed
    <3> QED
      BY <2>1, <3>5
  <2>2. CASE PlanOf(p, r) # "delta"
    BY <1>5, <2>2, HistoryClosed
  <2> QED
    BY <2>1, <2>2
<1>7. Feeds(p, r)
  BY <1>4, <1>6 DEF Feeds
<1> HIDE DEF new, c
<1>8. MirrorsClosed'
  <2> SUFFICES ASSUME NEW n \in Mirrors, NEW d \in objs'[n],
                      NEW i \in 1 .. Len(d)
               PROVE  SubSeq(d, 1, i) \in objs'[n]
    BY DEF MirrorsClosed
  <2>1. CASE n = m /\ d \in new
    BY <1>4, <1>6, <2>1
  <2>2. CASE n = m /\ d \in objs[m]
    BY <1>3, <1>4, <2>2 DEF MirrorInv, MirrorsClosed
  <2>3. CASE n # m
    BY <1>4, <2>3 DEF MirrorInv, MirrorsClosed
  <2> QED
    BY <1>4, <2>1, <2>2, <2>3
<1> QED
  BY <1>7, <1>8

LEMMA PipeBundleStep ==
  ASSUME CallsInv, MirrorInv, NEW p \in Procs, PipeBundle(p)
  PROVE  /\ PushStep(p) /\ MirrorInv' /\ Grows(objs, objs')
         /\ \/ UNCHANGED <<objs, parity>>
            \/ \E r \in Repos : /\ r = Head(sync[p].queue)
                                /\ Feeds(p, r)
<1> DEFINE s == sync[p]
           r == Head(s.queue)
           c == [s EXCEPT !.pc = "unref", !.good = Accepted(p, r)]
<1>1. /\ Moves(p, c) /\ s.pc = "pipe" /\ CallInv(s)
  BY DEF PipeBundle, At, CallsInv
<1>2. /\ DOMAIN c = Fields /\ c.snap = s.snap /\ c.base = s.base
      /\ c.pc = "unref" /\ c.queue = s.queue /\ c.probe = s.probe
      /\ c.result = s.result
  BY <1>1 DEF CallInv, Fields
<1>3. c.good => Accepted(p, r)
  BY <1>1 DEF CallInv, Fields
<1> HIDE DEF c
<1>4. IsRest(s) /\ s.queue # <<>>
  BY <1>1 DEF CallInv, Pushing
<1>5. /\ Pos(s) \in 1 .. Len(Order)
      /\ r = Order[Pos(s)] /\ r \in Repos
  BY <1>4, RestHead
<1>6. IsRest(c) /\ Pos(c) = Pos(s)
  BY <1>2, <1>4 DEF IsRest, Pos
<1>7. CallInv(c)
  BY <1>1, <1>2, <1>4, <1>6, PushKeeps DEF Snapped, Pushing
<1>8. /\ MirrorInv' /\ Grows(objs, objs')
      /\ Accepted(p, r) => Feeds(p, r)
      /\ ~Accepted(p, r) => UNCHANGED <<objs, parity>>
  <2>1. CASE Accepted(p, r)
    <3>1. Feeds(p, r) /\ MirrorsClosed'
      BY <1>1, <1>5, <2>1, BundleFeeds
    <3>2. MirrorInv'
      BY <3>1 DEF MirrorInv, ParityHeld, Feeds
    <3>3. Grows(objs, objs')
      BY <3>1 DEF Grows, Feeds, Mirrors
    <3> QED
      BY <2>1, <3>1, <3>2, <3>3
  <2>2. CASE ~Accepted(p, r)
    <3>1. UNCHANGED <<objs, parity>>
      BY <2>2 DEF PipeBundle
    <3> QED
      BY <2>2, <3>1 DEF MirrorInv, ParityHeld, MirrorsClosed, Grows, Mirrors
  <2> QED
    BY <2>1, <2>2
<1>9. ASSUME Known(p) PROVE PushInv(c, objs')
  <2>1. \A q \in Repos : c.probe[q] # None => c.probe[q] \in objs'[MirrorOf[q]]
    BY <1>1, <1>2, <1>8, <1>9 DEF Known, PushInv, Pushing, Grows
  <2>2. \A i \in 1 .. Len(Order) :
           i < Pos(c) => c.snap[Order[i]] \in objs'[MirrorOf[Order[i]]]
    BY <1>1, <1>2, <1>6, <1>8, <1>9, OrderType
    DEF Known, PushInv, Pushing, Grows
  <2>3. c.good => c.snap[Order[Pos(c)]] \in objs'[MirrorOf[Order[Pos(c)]]]
    BY <1>2, <1>3, <1>5, <1>6, <1>8 DEF Feeds
  <2> QED
    BY <2>1, <2>2, <2>3 DEF PushInv
<1>10. PushStep(p)
  BY <1>1, <1>7, <1>9, PushMove
<1> QED
  BY <1>5, <1>8, <1>10

-----------------------------------------------------------------------------
(* Every step of the system.                                               *)

AllSame == \A q \in Procs : Same(sync[q], sync'[q])
MirrorsStay == UNCHANGED <<objs, parity>>
MayFail == faults' = faults \/ faults' = faults + 1

LEMMA DisturbSame ==
  ASSUME CallsInv, Disturb
  PROVE  AllSame
<1> SUFFICES ASSUME NEW q \in Procs PROVE Same(sync[q], sync'[q])
  BY DEF AllSame
<1>1. sync'[q] = [sync[q] EXCEPT !.quiet = FALSE]
  BY DEF Disturb
<1> QED
  BY <1>1, QuietSame DEF CallsInv, CallInv

LEMMA StutterSame ==
  ASSUME CallsInv, sync' = sync
  PROVE  AllSame
BY DEF CallsInv, CallInv, AllSame, Same

LEMMA AllSameCalls ==
  ASSUME CallsInv, AllSame
  PROVE  CallsInv'
<1> SUFFICES ASSUME NEW q \in Procs PROVE CallInv(sync'[q])
  BY DEF CallsInv
<1> QED
  BY SameCall DEF CallsInv, AllSame

(* Whatever a call does but a pipe.                                        *)
LEMMA OtherSteps ==
  ASSUME ClosedInv, NEW p \in Procs, ~PipeBundle(p),
         Step(p) \/ SshFails(p) \/ Killed(p)
  PROVE  /\ PushStep(p) \/ AllSame
         /\ LastInv' /\ MirrorsStay /\ MayFail
<1>1. CallsInv /\ LastInv /\ VarType
  BY DEF ClosedInv
<1>2. MirrorsStay
  BY DEF MirrorsStay, remoteVars, Step, SshFails, Killed, Start, EnsureUp,
         BuildSnapshot, Compare, QueryParity, ReadParity, PlanBundles,
         SkipRepo, SetTemporaryRef, DeleteTemporaryRef, SendScript,
         MaterializeRepo, ScriptReturns, ReadHead, ReadStatus, Accept, Refuse,
         SaveState, Finish
<1>3. MayFail
  BY DEF MayFail, NoFault, Fault, FaultUnlessBound, Step, SshFails, Killed,
         Start, EnsureUp, BuildSnapshot, Compare, QueryParity, ReadParity,
         PlanBundles, SkipRepo, SetTemporaryRef, DeleteTemporaryRef,
         SendScript, MaterializeRepo, ScriptReturns, ReadHead, ReadStatus,
         Accept, Refuse, SaveState, Finish
<1>4. LastInv'
  <2>1. CASE SaveState(p)
    BY <1>1, <2>1, SaveStateStep
  <2>2. CASE ~SaveState(p)
    <3>1. last' = last
      BY <2>2 DEF localVars, Step, SshFails, Killed, Start, EnsureUp,
         BuildSnapshot, Compare, QueryParity, ReadParity, PlanBundles,
         SkipRepo, SetTemporaryRef, DeleteTemporaryRef, SendScript,
         MaterializeRepo, ScriptReturns, ReadHead, ReadStatus, Accept, Refuse,
         Finish
    <3> QED
      BY <1>1, <3>1 DEF LastInv
  <2> QED
    BY <2>1, <2>2
<1>5. PushStep(p) \/ AllSame
  <2>1. CASE \/ QueryParity(p) \/ ReadParity(p) \/ PlanBundles(p)
             \/ SkipRepo(p) \/ SetTemporaryRef(p) \/ DeleteTemporaryRef(p)
    BY <1>1, <2>1, QueryParityStep, ReadParityStep, PlanBundlesStep,
       SkipRepoStep, SetTemporaryRefStep, DeleteTemporaryRefStep
  <2>2. CASE SshFails(p)
    BY <1>1, <2>2, SshFailsStep, BrokenPipeStep, CalmIsPush
  <2>3. CASE MaterializeRepo(p)
    BY <1>1, <2>3, MaterializeRepoStep, CalmIsPush DEF AllSame
  <2>4. CASE Finish(p) \/ Killed(p)
    <3>1. Moves(p, IdleSync)
      BY <2>4 DEF Finish, Killed
    <3> QED
      BY <1>1, <3>1, IdleStep, CalmIsPush
  <2>5. CASE \/ Start(p) \/ EnsureUp(p) \/ BuildSnapshot(p) \/ Compare(p)
             \/ SendScript(p) \/ ScriptReturns(p) \/ ReadHead(p)
             \/ ReadStatus(p) \/ Accept(p) \/ Refuse(p) \/ SaveState(p)
    BY <1>1, <2>5, CalmIsPush, StartStep, EnsureUpStep, BuildSnapshotStep,
       CompareStep, SendScriptStep, ScriptReturnsStep, ReadHeadStep,
       ReadStatusStep, AcceptStep, RefuseStep, SaveStateStep
  <2> QED
    BY <2>1, <2>2, <2>3, <2>4, <2>5 DEF Step
<1> QED
  BY <1>2, <1>3, <1>4, <1>5

(* What users and commands on the machine do beside the calls.             *)
LEMMA OutsideSteps ==
  ASSUME ClosedInv,
         BringUp \/ \E r \in Repos : EditFiles(r) \/ PruneObjects(r)
                                     \/ TouchRemote(r)
  PROVE  AllSame /\ LastInv' /\ MirrorsStay /\ MayFail
<1>1. /\ Disturb /\ MirrorsStay /\ last' = last /\ MayFail
  BY DEF BringUp, EditFiles, PruneObjects, TouchRemote, MirrorsStay,
         MayFail, NoFault, Fault, remoteVars, localVars
<1>2. CallsInv /\ LastInv
  BY DEF ClosedInv
<1> QED
  BY <1>1, <1>2, DisturbSame DEF LastInv

(* A `remote down' leaves empty mirrors.                                   *)
LEMMA TakeDownStep ==
  ASSUME ClosedInv, TakeDown
  PROVE  /\ CallsInv' /\ LastInv' /\ MirrorInv' /\ faults' = faults + 1
<1>1. /\ objs' = [m \in Mirrors |-> {}] /\ parity' = [m \in Mirrors |-> None]
      /\ last' = last /\ faults' = faults + 1
  BY DEF TakeDown, localVars, Fault
<1>2. MirrorInv'
  BY <1>1 DEF MirrorInv, MirrorsClosed, ParityHeld
<1>3. ASSUME NEW q \in Procs PROVE CallInv(sync'[q])
  <2>1. CallInv(sync[q])
    BY DEF ClosedInv, CallsInv
  <2>2. PICK t : CallInv(t) /\ sync'[q] = [t EXCEPT !.quiet = FALSE]
    <3>1. CASE At(q, "materialize") /\ script[q] # <<>>
      <4>1. sync'[q] = [Ended(q, "error") EXCEPT !.quiet = FALSE]
        BY <3>1 DEF TakeDown
      <4> QED
        BY <2>1, <4>1, CallEnds DEF Result
    <3>2. CASE ~(At(q, "materialize") /\ script[q] # <<>>)
      <4>1. sync'[q] = [sync[q] EXCEPT !.quiet = FALSE]
        BY <3>2 DEF TakeDown
      <4> QED
        BY <2>1, <4>1
    <3> QED
      BY <3>1, <3>2
  <2>3. Same(t, sync'[q])
    BY <2>2, QuietSame DEF CallInv
  <2> QED
    BY <2>2, <2>3, SameCall
<1> QED
  BY <1>1, <1>2, <1>3 DEF ClosedInv, CallsInv, LastInv

-----------------------------------------------------------------------------
(* The invariant holds.                                                    *)

LEMMA StartsEmpty == Init => CompleteInv
<1> SUFFICES ASSUME Init PROVE CompleteInv
  OBVIOUS
<1>1. CallsInv
  <2>1. \A p \in Procs : sync[p] = IdleSync
    BY DEF Init
  <2>2. CallInv(IdleSync)
    BY IdleShape, CallIdles DEF Result, MaybeCommit
  <2> QED
    BY <2>1, <2>2 DEF CallsInv
<1>2. LastInv /\ MirrorInv /\ MirrorsComplete
  BY DEF Init, LastInv, MirrorInv, MirrorsClosed, ParityHeld, MirrorsComplete,
         Mirrors
<1>3. VarType
  BY SyncAssumption DEF Init, VarType, MaybeCommit
<1>4. \A p \in Procs : PushInv(sync[p], objs)
  BY IdleShape DEF Init, PushInv, Pushing
<1> QED
  BY <1>1, <1>2, <1>3, <1>4 DEF CompleteInv, ClosedInv, PushesInv

(* All steps but `remote down', which starts afresh.                       *)
LEMMA Steps ==
  ASSUME ClosedInv, [Next]_vars, ~TakeDown
  PROVE  /\ AllSame \/ \E p \in Procs : PushStep(p)
         /\ LastInv' /\ MayFail
         /\ \/ MirrorsStay
            \/ \E p \in Procs : PipeBundle(p)
<1>1. CASE UNCHANGED vars
  BY <1>1, StutterSame
  DEF ClosedInv, LastInv, MayFail, MirrorsStay, vars, localVars, remoteVars
<1>2. ASSUME NEW p \in Procs, PipeBundle(p)
      PROVE  PushStep(p) /\ LastInv' /\ MayFail
  BY <1>2, PipeBundleStep
  DEF ClosedInv, PipeBundle, LastInv, localVars, NoFault, MayFail
<1>3. ASSUME NEW p \in Procs, ~PipeBundle(p),
             Step(p) \/ SshFails(p) \/ Killed(p)
      PROVE  /\ PushStep(p) \/ AllSame
             /\ LastInv' /\ MirrorsStay /\ MayFail
  BY <1>3, OtherSteps
<1>4. CASE BringUp \/ \E r \in Repos : EditFiles(r) \/ PruneObjects(r)
                                       \/ TouchRemote(r)
  BY <1>4, OutsideSteps
<1> QED
  BY <1>1, <1>2, <1>3, <1>4 DEF Next

(* The variables that no call keeps to itself.                             *)
LEMMA VarStep ==
  ASSUME ClosedInv, [Next]_vars
  PROVE  VarType'
<1>1. CallsInv /\ VarType
  BY DEF ClosedInv
<1>2. edits' \in 0 .. MaxEdits /\ faults' \in 0 .. MaxFaults
  <2>1. ASSUME NEW p \in Procs, Step(p) \/ SshFails(p) \/ Killed(p)
        PROVE  NoFault \/ Fault
    BY <2>1
    DEF Step, SshFails, Killed, Start, EnsureUp, BuildSnapshot, Compare,
        QueryParity, ReadParity, PlanBundles, SkipRepo, SetTemporaryRef,
        PipeBundle, DeleteTemporaryRef, SendScript, MaterializeRepo,
        ScriptReturns, ReadHead, ReadStatus, Accept, Refuse, SaveState, Finish,
        FaultUnlessBound
  <2>2. ASSUME NEW r \in Repos, EditFiles(r)
        PROVE  faults' = faults /\ edits < MaxEdits /\ edits' = edits + 1
    BY <2>2 DEF EditFiles
  <2>3. ASSUME NEW r \in Repos, PruneObjects(r) \/ TouchRemote(r)
        PROVE  Fault
    BY <2>3 DEF PruneObjects, TouchRemote
  <2>4. CASE NoFault \/ Fault
    BY <1>1, <2>4, SyncAssumption DEF VarType, NoFault, Fault
  <2>5. CASE faults' = faults /\ edits < MaxEdits /\ edits' = edits + 1
    BY <1>1, <2>5, SyncAssumption DEF VarType
  <2>6. CASE TakeDown \/ BringUp \/ UNCHANGED vars
    BY <2>4, <2>6 DEF TakeDown, BringUp, vars, NoFault
  <2> QED
    BY <2>1, <2>2, <2>3, <2>4, <2>5, <2>6 DEF Next
<1> DEFINE calm == UNCHANGED <<work, odb, tmp, up, touched, script>>
<1>3. CASE calm
  BY <1>1, <1>2, <1>3 DEF VarType
<1>4. ASSUME NEW p \in Procs, BuildSnapshot(p) PROVE VarType'
  <2>1. PICK r \in Repos : \E c : /\ IsCommit(r, c)
                                 /\ odb' = [odb EXCEPT ![r] = @ \cup {c}]
    BY <1>1, <1>4, BuildSnapshotStep
  <2>2. UNCHANGED <<work, tmp, up, touched, script>>
    BY <1>4 DEF BuildSnapshot, remoteVars
  <2> QED
    BY <1>1, <1>2, <2>1, <2>2 DEF VarType
<1>5. ASSUME NEW p \in Procs, SetTemporaryRef(p) PROVE VarType'
  <2> DEFINE r == Head(sync[p].queue)
  <2>1. \A q \in Repos : MaybeCommit(q, sync[p].snap[q])
    BY <1>1 DEF CallsInv, CallInv
  <2>2. /\ tmp' = [tmp EXCEPT ![r] = sync[p].snap[r]]
        /\ UNCHANGED <<work, odb, up, touched, script>>
    BY <1>5 DEF SetTemporaryRef, remoteVars
  <2> QED
    BY <1>1, <1>2, <2>1, <2>2 DEF VarType
<1>6. ASSUME NEW p \in Procs, DeleteTemporaryRef(p) PROVE VarType'
  <2>1. /\ tmp' = [tmp EXCEPT ![Head(sync[p].queue)] = None]
        /\ UNCHANGED <<work, odb, up, touched, script>>
    BY <1>6 DEF DeleteTemporaryRef, remoteVars
  <2> QED
    BY <1>1, <1>2, <2>1 DEF VarType, MaybeCommit
<1>7. ASSUME NEW p \in Procs, SendScript(p) PROVE VarType'
  <2>1. Reverse(Order) \in Seq(Repos)
    BY SyncAssumption DEF Reverse
  <2>2. /\ script' = [script EXCEPT ![p] = Reverse(Order)]
        /\ UNCHANGED <<work, odb, tmp, up, touched>>
    BY <1>7 DEF SendScript, localVars
  <2> QED
    BY <1>1, <1>2, <2>1, <2>2 DEF VarType
<1>8. ASSUME NEW p \in Procs, MaterializeRepo(p) PROVE VarType'
  <2>1. script[p] # <<>> /\ script[p] \in Seq(Repos)
    BY <1>1, <1>8 DEF MaterializeRepo, VarType
  <2>2. Tail(script[p]) \in Seq(Repos) /\ <<>> \in Seq(Repos)
    BY <2>1
  <2>3. /\ \/ script' = [script EXCEPT ![p] = Tail(script[p])]
           \/ script' = [script EXCEPT ![p] = <<>>]
        /\ \/ touched' = [touched EXCEPT ![Head(script[p])] = FALSE]
           \/ touched' = touched
        /\ UNCHANGED <<work, odb, tmp, up>>
    BY <1>8 DEF MaterializeRepo, localVars
  <2> QED
    BY <1>1, <1>2, <2>2, <2>3 DEF VarType
<1>9. ASSUME NEW r \in Repos, EditFiles(r) \/ PruneObjects(r) \/ TouchRemote(r)
      PROVE  VarType'
  <2>1. CASE EditFiles(r)
    BY <1>1, <1>2, <2>1 DEF EditFiles, VarType, remoteVars
  <2>2. CASE PruneObjects(r)
    BY <1>1, <1>2, <2>2 DEF PruneObjects, VarType, remoteVars
  <2>3. CASE TouchRemote(r)
    BY <1>1, <1>2, <2>3 DEF TouchRemote, VarType, localVars
  <2> QED
    BY <1>9, <2>1, <2>2, <2>3
<1>10. CASE TakeDown \/ BringUp
  <2>1. <<>> \in Seq(Repos)
    OBVIOUS
  <2>2. /\ up' \in BOOLEAN
        /\ touched' \in {touched, [r \in Repos |-> FALSE]}
        /\ script' \in {script, [p \in Procs |-> <<>>]}
    BY <1>10 DEF TakeDown, BringUp
  <2>3. UNCHANGED <<work, odb, tmp>>
    BY <1>10 DEF TakeDown, BringUp, localVars
  <2> QED
    BY <1>1, <1>2, <2>1, <2>2, <2>3 DEF VarType
<1>11. ASSUME NEW p \in Procs,
              \/ Start(p) \/ EnsureUp(p) \/ Compare(p) \/ QueryParity(p)
              \/ ReadParity(p) \/ PlanBundles(p) \/ SkipRepo(p)
              \/ PipeBundle(p) \/ ScriptReturns(p)
              \/ ReadHead(p) \/ ReadStatus(p) \/ Accept(p) \/ Refuse(p)
              \/ SaveState(p) \/ Finish(p) \/ SshFails(p) \/ Killed(p)
       PROVE  calm
  BY <1>11
  DEF Start, EnsureUp, Compare, QueryParity, ReadParity, PlanBundles, SkipRepo,
      PipeBundle, ScriptReturns, ReadHead, ReadStatus, Accept, Refuse,
      SaveState, Finish, SshFails, Killed, localVars, remoteVars
<1>12. CASE UNCHANGED vars
  BY <1>3, <1>12 DEF vars, localVars, remoteVars
<1> QED
  BY <1>3, <1>4, <1>5, <1>6, <1>7, <1>8, <1>9, <1>10, <1>11, <1>12
  DEF Next, Step

LEMMA ClosedStep ==
  ASSUME ClosedInv, [Next]_vars
  PROVE  ClosedInv'
<1>1. VarType'
  BY VarStep
<1>2. CASE TakeDown
  BY <1>1, <1>2, TakeDownStep DEF ClosedInv
<1>3. CASE ~TakeDown
  <2>1. CallsInv'
    <3>1. CASE AllSame
      BY <3>1, AllSameCalls DEF ClosedInv
    <3>2. CASE \E p \in Procs : PushStep(p)
      <4>1. PICK p \in Procs : \E c : GoesTo(p, c) /\ CallInv(c)
        BY <3>2 DEF PushStep
      <4> QED
        BY <4>1, CallsFollow DEF ClosedInv
    <3> QED
      BY <1>3, <3>1, <3>2, Steps
  <2>2. MirrorInv'
    <3>1. CASE MirrorsStay
      BY <3>1
      DEF ClosedInv, MirrorsStay, MirrorInv, ParityHeld, MirrorsClosed, Mirrors
    <3>2. CASE \E p \in Procs : PipeBundle(p)
      BY <3>2, PipeBundleStep DEF ClosedInv
    <3> QED
      BY <1>3, <3>1, <3>2, Steps
  <2> QED
    BY <1>1, <1>3, <2>1, <2>2, Steps DEF ClosedInv
<1> QED
  BY <1>2, <1>3

(* Every variable keeps its type; every commit, wherever it is kept, is    *)
(* one of the repository it is kept for.                                   *)
THEOREM TypeCorrect == Spec => []TypeOK
<1>1. Init => ClosedInv
  BY StartsEmpty DEF CompleteInv
<1>2. ClosedInv /\ [Next]_vars => ClosedInv'
  BY ClosedStep
<1>3. ClosedInv => TypeOK
  BY DEF ClosedInv, CallsInv, CallInv, Pcs, LastInv, Line, MirrorInv,
         ParityHeld, VarType, TypeOK
<1> QED
  BY <1>1, <1>2, <1>3, PTL DEF Spec

(* A mirror holds the whole history of every commit it holds, for any tree *)
(* of repositories, overlapping syncs, edits, kills, broken pipes and      *)
(* downs: `git fetch' into it never ends without its ancestors.            *)
THEOREM HistoryKept == Spec => []MirrorsClosed
<1>1. Init => ClosedInv
  BY StartsEmpty DEF CompleteInv
<1>2. ClosedInv /\ [Next]_vars => ClosedInv'
  BY ClosedStep
<1>3. ClosedInv => MirrorsClosed
  BY DEF ClosedInv, MirrorInv
<1> QED
  BY <1>1, <1>2, <1>3, PTL DEF Spec

-----------------------------------------------------------------------------
(* Mirrors of one repository each.                                         *)

OneMirrorEach == \A r, s \in Repos : MirrorOf[r] = MirrorOf[s] => r = s

(* What a push of r adds is complete: what is mounted in r has been        *)
(* visited before.                                                         *)
LEMMA FedComplete ==
  ASSUME CompleteInv, OneMirrorEach, faults = 0, NEW p \in Procs, PipeBundle(p)
  PROVE  MirrorsComplete'
<1> DEFINE s == sync[p]
<1>1. /\ CallInv(s) /\ s.pc = "pipe" /\ PushInv(s, objs)
      /\ MirrorInv /\ CallsInv /\ MirrorsComplete
  BY DEF CompleteInv, ClosedInv, PushesInv, CallsInv, PipeBundle, At
<1>2. /\ Grows(objs, objs')
      /\ \/ UNCHANGED <<objs, parity>>
         \/ \E r \in Repos : r = Head(s.queue) /\ Feeds(p, r)
  BY <1>1, PipeBundleStep
<1>3. CASE UNCHANGED <<objs, parity>>
  BY <1>1, <1>3 DEF MirrorsComplete
<1>4. ASSUME NEW r \in Repos, r = Head(s.queue), Feeds(p, r)
      PROVE  MirrorsComplete'
  <2>1. Pos(s) \in 1 .. Len(Order) /\ r = Order[Pos(s)]
    BY <1>1, <1>4, RestHead DEF CallInv, Pushing
  <2>2. Built(s, r) /\ Kids[r] \subseteq Repos
    BY <1>1, SyncAssumption DEF CallInv, Snapped
  <2>3. ASSUME NEW k \in Kids[r]
        PROVE  s.snap[k] \in objs'[MirrorOf[k]]
    <3>1. k \in Repos
      BY <2>2
    <3>2. PICK i \in 1 .. Len(Order) : Order[i] = k
      BY <3>1, SyncAssumption
    <3>3. i < Pos(s)
      BY <2>1, <2>3, <3>2, MountedFirst, OrderType
    <3>4. s.snap[k] \in objs[MirrorOf[k]]
      BY <1>1, <3>2, <3>3 DEF PushInv, Pushing
    <3> QED
      BY <1>2, <3>1, <3>4 DEF Grows
  <2>4. ASSUME NEW q \in Repos, parity'[MirrorOf[q]] # None, NEW k \in Kids[q]
        PROVE  Last(parity'[MirrorOf[q]]).links[k] \in objs'[MirrorOf[k]]
    <3>1. CASE q = r
      BY <1>4, <2>2, <2>3, <2>4, <3>1 DEF Feeds, Built
    <3>2. CASE q # r
      <4>1. MirrorOf[q] \in Mirrors \ {MirrorOf[r]}
        BY <3>2 DEF OneMirrorEach, Mirrors
      <4>2. parity'[MirrorOf[q]] = parity[MirrorOf[q]]
        BY <1>4, <4>1 DEF Feeds
      <4>3. k \in Repos
        BY <2>4, SyncAssumption
      <4>4. Last(parity[MirrorOf[q]]).links[k] \in objs[MirrorOf[k]]
        BY <1>1, <2>4, <4>2 DEF MirrorsComplete
      <4> QED
        BY <1>2, <4>2, <4>3, <4>4 DEF Grows
    <3> QED
      BY <3>1, <3>2
  <2> QED
    BY <2>4 DEF MirrorsComplete
<1> QED
  BY <1>2, <1>3, <1>4

LEMMA CompleteStep ==
  ASSUME CompleteInv, [Next]_vars, OneMirrorEach, ~IsSeq(None)
  PROVE  CompleteInv'
<1>1. ClosedInv /\ PushesInv /\ MirrorsComplete /\ ClosedInv'
  BY ClosedStep DEF CompleteInv
<1>2. CASE TakeDown
  <2>1. faults' = faults + 1 /\ faults \in Nat
    BY <1>1, <1>2, TakeDownStep DEF ClosedInv, VarType
  <2>2. faults' # 0
    BY <2>1
  <2> QED
    BY <1>1, <2>2 DEF CompleteInv, PushesInv, MirrorsComplete
<1>3. CASE ~TakeDown
  <2>1. /\ AllSame \/ \E p \in Procs : PushStep(p)
        /\ MayFail
        /\ MirrorsStay \/ \E p \in Procs : PipeBundle(p)
    BY <1>1, <1>3, Steps
  <2>2. faults' = 0 => faults = 0
    BY <1>1, <2>1 DEF MayFail, ClosedInv, VarType
  <2>3. Grows(objs, objs')
    <3>1. CASE MirrorsStay
      BY <3>1 DEF MirrorsStay, Grows
    <3>2. CASE \E p \in Procs : PipeBundle(p)
      BY <1>1, <3>2, PipeBundleStep DEF ClosedInv
    <3> QED
      BY <2>1, <3>1, <3>2
  <2>4. ASSUME faults' = 0
        PROVE  \A p \in Procs : PushInv(sync'[p], objs')
    <3>1. /\ \A p \in Procs : PushInv(sync[p], objs)
          /\ ParityHeld /\ CallsInv
      BY <1>1, <2>2, <2>4 DEF PushesInv, ClosedInv, MirrorInv
    <3>2. CASE AllSame
      BY <2>3, <3>1, <3>2, SamePush DEF AllSame, CallsInv
    <3>3. CASE \E p \in Procs : PushStep(p)
      <4>1. PICK p \in Procs : PushStep(p)
        BY <3>3
      <4>2. PICK c :
               GoesTo(p, c) /\ CallInv(c) /\ (Known(p) => PushInv(c, objs'))
        BY <4>1 DEF PushStep
      <4>3. PushInv(c, objs')
        BY <3>1, <4>2 DEF Known
      <4> QED
        BY <2>3, <3>1, <4>2, <4>3, PushesFollow
    <3> QED
      BY <2>1, <3>2, <3>3
  <2>5. MirrorsComplete'
    <3>1. CASE MirrorsStay
      BY <1>1, <2>2, <3>1 DEF MirrorsStay, MirrorsComplete
    <3>2. CASE \E p \in Procs : PipeBundle(p)
      <4> SUFFICES ASSUME faults' = 0 PROVE MirrorsComplete'
        BY DEF MirrorsComplete
      <4> QED
        BY <2>2, <3>2, FedComplete
    <3> QED
      BY <2>1, <3>1, <3>2
  <2> QED
    BY <1>1, <2>4, <2>5 DEF CompleteInv, PushesInv
<1> QED
  BY <1>2, <1>3

(* Where every repository has a mirror of its own, a parity ref never      *)
(* records a commit of a mounted repository that the latter's mirror       *)
(* lacks, however syncs overlap, as long as nothing fails.  (None is       *)
(* whatever stands for no commit, so it is not one.)                       *)
THEOREM MountsFollow ==
  ASSUME OneMirrorEach, ~IsSeq(None)
  PROVE  Spec => []MirrorsComplete
<1>1. Init => CompleteInv
  BY StartsEmpty
<1>2. CompleteInv /\ [Next]_vars => CompleteInv'
  BY CompleteStep
<1>3. CompleteInv => MirrorsComplete
  BY DEF CompleteInv
<1> QED
  BY <1>1, <1>2, <1>3, PTL DEF Spec
-----------------------------------------------------------------------------
(* What a verification knows.                                              *)

(* A call under way has a script on the machine only while it waits for it.*)
Scriptless == Busy \ {"materialize"}

IsMap(f) == f = [r \in Repos |-> f[r]]

(* The root is read last: once its HEAD has been read it stays, unless     *)
(* `moved' says so; a verification that ends well has agreed.              *)
ReadInv(s, h, todo) ==
    /\ s.pc \in Scriptless => todo = <<>>
    /\ s.moved \in BOOLEAN /\ s.agreed \in BOOLEAN /\ s.good \in BOOLEAN
    /\ s.fast \in BOOLEAN /\ s.quiet \in BOOLEAN
    /\ IsMap(s.snap) /\ IsMap(s.seen)
    /\ s.pc \in {"heads", "status"} => IsRest(s)
    /\ s.pc = "heads" => s.queue # <<>>
    /\ s.pc = "status" /\ s.queue = <<Root>> /\ ~s.moved =>
          h[Root] \in {s.seen[Root], None}
    /\ s.pc = "status" /\ s.queue = <<>> /\ ~s.moved /\ s.good
                       /\ s.seen = s.snap => s.agreed
    /\ s.pc = "save" /\ ~s.moved => s.agreed
    /\ s.pc = "ended" /\ s.result \in {"ready", "no_change"} /\ ~s.moved
          => s.agreed

ReadsInv ==
    /\ DOMAIN head = Repos
    /\ \A p \in Procs : ReadInv(sync[p], head, script[p])

-----------------------------------------------------------------------------
(* The repositories below one.                                             *)

(* From the library's theorem that < on the naturals is well-founded.      *)
LEMMA LeastNatural ==
  ASSUME NEW S \in SUBSET Nat, S # {}
  PROVE  \E m \in S : \A k \in S : ~(k < m)
<1> DEFINE R == OpToRel(<, Nat)
<1>1. IsWellFoundedOn(R, Nat)
  BY NatLessThanWellFounded
<1>2. \A x, y \in Nat : <<x, y>> \in R <=> x < y
  BY DEF OpToRel
<1> HIDE DEF R
<1>3. PICK m \in S : \A y \in S : ~(<<y, m>> \in R)
  BY <1>1, WFMin
<1> QED
  BY <1>2, <1>3

(* Below is the function of its definition: there is one, which takes r to *)
(* the least set with r that holds what is mounted in what it holds.       *)
Holds(S, r) ==
    /\ S \in SUBSET Repos /\ r \in S
    /\ \A d \in S : Kids[d] \subseteq S
Reach(r) == {d \in Repos : \A S \in SUBSET Repos : Holds(S, r) => d \in S}

BelowEq(f) ==
    f = [r \in Repos |-> {r} \cup UNION {f[k] : k \in Kids[r]}]

LEMMA KidsType ==
  ASSUME NEW r \in Repos
  PROVE  Kids[r] \subseteq Repos
BY SyncAssumption

LEMMA ReachHolds ==
  ASSUME NEW r \in Repos
  PROVE  Holds(Reach(r), r)
BY KidsType DEF Holds, Reach

LEMMA ReachUnfolds ==
  ASSUME NEW r \in Repos
  PROVE  Reach(r) = {r} \cup UNION {Reach(k) : k \in Kids[r]}
<1> DEFINE T == {r} \cup UNION {Reach(k) : k \in Kids[r]}
<1>1. Holds(Reach(r), r)
  BY ReachHolds
<1>2. ASSUME NEW k \in Kids[r]
      PROVE  Reach(k) \subseteq Reach(r) /\ Holds(Reach(k), k)
  <2>1. k \in Repos
    BY <1>2, KidsType
  <2>2. Holds(Reach(r), k)
    BY <1>1, <1>2 DEF Holds
  <2> QED
    BY <2>1, <2>2, ReachHolds DEF Reach, Holds
<1>3. T \subseteq Reach(r)
  BY <1>1, <1>2 DEF Holds
<1>4. Holds(T, r)
  <2>1. T \in SUBSET Repos
    BY <1>3 DEF Reach
  <2>2. ASSUME NEW d \in T PROVE Kids[d] \subseteq T
    <3>1. CASE d = r
      BY <1>2, <3>1 DEF Holds
    <3>2. ASSUME NEW k \in Kids[r], d \in Reach(k)
          PROVE  Kids[d] \subseteq T
      BY <1>2, <3>2 DEF Holds
    <3> QED
      BY <2>2, <3>1, <3>2
  <2> QED
    BY <2>1, <2>2 DEF Holds
<1> HIDE DEF T
<1>5. Reach(r) \subseteq T
  BY <1>4 DEF Reach, Holds
<1> QED
  BY <1>3, <1>5 DEF T

LEMMA BelowUnfolds == BelowEq(Below)
<1> DEFINE g == [r \in Repos |-> Reach(r)]
           h == [r \in Repos |-> {r} \cup UNION {g[k] : k \in Kids[r]}]
<1>1. ASSUME NEW r \in Repos PROVE g[r] = h[r]
  <2>1. \A k \in Kids[r] : g[k] = Reach(k)
    BY KidsType
  <2>2. {g[k] : k \in Kids[r]} = {Reach(k) : k \in Kids[r]}
    BY <2>1
  <2> QED
    BY <2>2, ReachUnfolds
<1>2. g = h
  BY <1>1
<1> HIDE DEF g
<1>3. BelowEq(g)
  BY <1>2 DEF BelowEq
<1>4. Below = CHOOSE f :
         f = [r \in Repos |-> {r} \cup UNION {f[k] : k \in Kids[r]}]
  BY DEF Below
<1>5. Below = CHOOSE f : BelowEq(f)
  BY <1>4 DEF BelowEq
<1> QED
  BY <1>3, <1>5

(* It is the only one: repositories come after what is mounted in them.    *)
LEMMA BelowReaches ==
  ASSUME NEW r \in Repos
  PROVE  Below[r] = Reach(r)
<1> DEFINE Bad == {i \in 1 .. Len(Order) : Below[Order[i]] # Reach(Order[i])}
<1>1. Bad = {}
  <2> SUFFICES ASSUME Bad # {} PROVE FALSE
    OBVIOUS
  <2>1. Bad \in SUBSET Nat
    BY OrderType
  <2> HIDE DEF Bad
  <2>2. PICK i \in Bad : \A k \in Bad : ~(k < i)
    BY <2>1, LeastNatural
  <2> DEFINE q == Order[i]
  <2>3. i \in 1 .. Len(Order) /\ q \in Repos /\ Below[q] # Reach(q)
    BY OrderType DEF Bad
  <2>4. ASSUME NEW k \in Kids[q] PROVE Below[k] = Reach(k)
    <3>1. k \in Repos
      BY <2>3, <2>4, KidsType
    <3>2. PICK j \in 1 .. Len(Order) : Order[j] = k
      BY <3>1, SyncAssumption
    <3>3. j < i
      BY <2>3, <2>4, <3>2, SyncAssumption
    <3> QED
      BY <2>2, <3>2, <3>3 DEF Bad
  <2> HIDE DEF q
  <2>5. {Below[k] : k \in Kids[q]} = {Reach(k) : k \in Kids[q]}
    BY <2>4
  <2>6. Below[q] = {q} \cup UNION {Below[k] : k \in Kids[q]}
    BY <2>3, BelowUnfolds DEF BelowEq
  <2> QED
    BY <2>3, <2>5, <2>6, ReachUnfolds
<1>2. PICK i \in 1 .. Len(Order) : Order[i] = r
  BY SyncAssumption
<1> QED
  BY <1>1, <1>2

LEMMA RootType == Root \in Repos /\ Len(Order) \in 1 .. Len(Order)
<1>1. Len(Order) > 0
  BY SyncAssumption
<1> QED
  BY <1>1, OrderType DEF Root

(* Everything is below the root.                                           *)
LEMMA AllBelowRoot ==
  ASSUME NEW r \in Repos
  PROVE  r \in Below[Root]
<1> DEFINE n == Len(Order)
           Bad == {i \in 0 .. n : n - i > 0 /\ Order[n - i] \notin Reach(Root)}
<1>0. n \in Nat /\ n > 0 /\ Root \in Repos /\ Holds(Reach(Root), Root)
  BY RootType, OrderType, ReachHolds, SyncAssumption
<1>1. Bad = {}
  <2> SUFFICES ASSUME Bad # {} PROVE FALSE
    OBVIOUS
  <2>1. Bad \in SUBSET Nat
    BY <1>0
  <2> HIDE DEF Bad
  <2>2. PICK i \in Bad : \A k \in Bad : ~(k < i)
    BY <2>1, LeastNatural
  <2> DEFINE m == n - i
  <2>3. m \in 1 .. n /\ Order[m] \in Repos /\ Order[m] \notin Reach(Root)
    BY <1>0, OrderType DEF Bad
  <2>4. Order[m] # Root
    BY <1>0, <2>3 DEF Holds
  <2>5. PICK q \in Repos : Order[m] \in Kids[q]
    BY <2>3, <2>4, SyncAssumption DEF Root
  <2>6. PICK j \in 1 .. n : Order[j] = q
    BY SyncAssumption
  <2>7. m < j
    BY <2>3, <2>5, <2>6, SyncAssumption
  <2>8. n - j \in 0 .. n /\ n - j < i /\ n - (n - j) = j
    BY <1>0, <2>2, <2>7 DEF Bad
  <2>9. q \in Reach(Root)
    BY <2>2, <2>6, <2>8 DEF Bad
  <2> QED
    BY <1>0, <2>3, <2>5, <2>9 DEF Holds
<1>2. PICK i \in 1 .. n : Order[i] = r
  BY SyncAssumption
<1>3. n - i \in 0 .. n /\ n - (n - i) = i /\ i > 0
  BY <1>0
<1>4. r \in Reach(Root)
  <2>1. n - i \notin Bad
    BY <1>1
  <2> QED
    BY <1>2, <1>3, <2>1
<1> QED
  BY <1>0, <1>4, BelowReaches

(* A clean root at the snapshot's commit: so is all that is below it.      *)
LEMMA CleanTree ==
  ASSUME NEW p \in Procs, \A r \in Repos : Built(sync[p], r),
         head[Root] = sync[p].snap[Root], ~Dirty(Root)
  PROVE  Agree(p)
<1> DEFINE S == {d \in Reach(Root) : head[d] = sync[p].snap[d]}
<1>1. /\ Root \in Repos /\ Holds(Reach(Root), Root)
      /\ Below[Root] = Reach(Root)
  BY RootType, ReachHolds, BelowReaches
<1>2. ASSUME NEW d \in S, NEW k \in Kids[d] PROVE k \in S
  <2>1. d \in Repos /\ k \in Reach(Root) /\ d \in Below[Root]
    BY <1>1, <1>2 DEF Holds
  <2>2. head[k] = Last(head[d]).links[k]
    BY <1>2, <2>1 DEF Dirty
  <2>3. Last(sync[p].snap[d]).links[k] = sync[p].snap[k]
    BY <1>2, <2>1 DEF Built
  <2> QED
    BY <1>2, <2>1, <2>2, <2>3
<1>3. Holds(S, Root)
  BY <1>1, <1>2 DEF Holds
<1> HIDE DEF S
<1>4. Reach(Root) \subseteq S
  BY <1>3 DEF Reach, Holds
<1>5. \A r \in Repos : r \in S
  BY <1>1, <1>4, AllBelowRoot
<1> QED
  BY <1>5 DEF S, Agree

(* Heads at the snapshot's commits, and no file changed: all is clean.     *)
LEMMA CleanAtSnapshot ==
  ASSUME NEW p \in Procs, \A r \in Repos : Built(sync[p], r),
         \A r \in Repos : head[r] = sync[p].snap[r] /\ ~touched[r],
         ~IsSeq(None), NEW q \in Repos
  PROVE  ~Dirty(q)
<1>1. Below[q] \subseteq Repos
  BY BelowReaches DEF Reach
<1>2. ASSUME NEW d \in Below[q]
      PROVE  /\ ~touched[d] /\ head[d] # None
             /\ \A k \in Kids[d] : head[k] = Last(head[d]).links[k]
  <2>1. d \in Repos /\ Kids[d] \subseteq Repos
    BY <1>1, <1>2, KidsType
  <2> QED
    BY <2>1 DEF Built, Line
<1> QED
  BY <1>2 DEF Dirty

-----------------------------------------------------------------------------
(* The verification, step by step.                                         *)

(* What a step of another call, or of nobody, leaves of a call.            *)
Kept(s, t) ==
    /\ Same(s, t)
    /\ t.fast = s.fast /\ t.seen = s.seen /\ t.agreed = s.agreed
    /\ t.moved \in BOOLEAN /\ (s.moved => t.moved)
    /\ t.quiet = FALSE

LEMMA QuietlessKept ==
  ASSUME NEW s, CallInv(s), s.moved \in BOOLEAN
  PROVE  Kept(s, [s EXCEPT !.quiet = FALSE])
<1> DEFINE t == [s EXCEPT !.quiet = FALSE]
<1>1. DOMAIN s = Fields
  BY DEF CallInv
<1>2. Same(s, t)
  BY <1>1, QuietSame
<1>3. /\ t.fast = s.fast /\ t.seen = s.seen /\ t.agreed = s.agreed
      /\ t.moved = s.moved /\ t.quiet = FALSE
  BY <1>1 DEF Fields
<1> QED
  BY <1>2, <1>3 DEF Kept

LEMMA KeptRead ==
  ASSUME NEW s, NEW t, NEW h, NEW n, NEW todo, NEW left,
         ReadInv(s, h, todo), Kept(s, t), left \in {todo, <<>>},
         s.pc = "status" /\ s.queue = <<Root>> /\ ~t.moved =>
             n[Root] \in {h[Root], None}
  PROVE  ReadInv(t, n, left)
<1>1. IsRest(t) <=> IsRest(s)
  BY DEF Kept, Same, IsRest, Pos
<1>2. IsMap(t.snap) /\ IsMap(t.seen)
  BY DEF Kept, Same, ReadInv
<1> QED
  BY <1>1, <1>2 DEF Kept, Same, ReadInv

LEMMA OthersKept ==
  ASSUME CallsInv, ReadsInv, NEW p \in Procs, NEW c, Moves(p, c)
  PROVE  /\ sync'[p] = c
         /\ \A q \in Procs \ {p} : Kept(sync[q], sync'[q])
<1>1. ASSUME NEW q \in Procs \ {p} PROVE Kept(sync[q], sync'[q])
  <2>1. sync'[q] = [sync[q] EXCEPT !.quiet = FALSE]
    BY <1>1 DEF Moves
  <2>2. CallInv(sync[q]) /\ sync[q].moved \in BOOLEAN
    BY DEF CallsInv, ReadsInv, ReadInv
  <2> QED
    BY <2>1, <2>2, QuietlessKept
<1> QED
  BY <1>1 DEF Moves

LEMMA ReadsMove ==
  ASSUME CallsInv, ReadsInv, NEW p \in Procs, NEW c, Moves(p, c),
         head' = head, \A q \in Procs \ {p} : script'[q] = script[q],
         ReadInv(c, head, script'[p])
  PROVE  ReadsInv'
<1> SUFFICES ASSUME NEW q \in Procs PROVE ReadInv(sync'[q], head', script'[q])
  BY DEF ReadsInv
<1>1. CASE q = p
  BY <1>1, OthersKept
<1>2. CASE q # p
  <2>1. Kept(sync[q], sync'[q]) /\ ReadInv(sync[q], head, script[q])
    BY <1>2, OthersKept DEF ReadsInv
  <2> QED
    BY <1>2, <2>1, KeptRead
<1> QED
  BY <1>1, <1>2

(* The fields that the invariant speaks of and their types.                *)
Typed(s) ==
    /\ s.moved \in BOOLEAN /\ s.agreed \in BOOLEAN /\ s.good \in BOOLEAN
    /\ s.fast \in BOOLEAN /\ s.quiet \in BOOLEAN
    /\ IsMap(s.snap) /\ IsMap(s.seen)

LEMMA TypedNow ==
  ASSUME ReadsInv, NEW p \in Procs
  PROVE  /\ Typed(sync[p]) /\ ReadInv(sync[p], head, script[p])
         /\ sync[p].pc \in Scriptless => script[p] = <<>>
BY DEF ReadsInv, ReadInv, Typed

(* A step that neither begins nor ends a verification.                     *)
LEMMA ReadElsewhere ==
  ASSUME NEW t, NEW h, NEW todo, Typed(t), todo = <<>>,
         t.pc \in {"start", "snapshot", "probe", "ask", "push", "pipe",
         "unref"}
  PROVE  ReadInv(t, h, todo)
BY DEF Typed, ReadInv

LEMMA IdleTyped ==
  /\ Typed(IdleSync) /\ IdleSync.pc = "idle" /\ IdleSync.result = "none"
  /\ \A h, todo : ReadInv(IdleSync, h, todo)
<1>1. /\ IdleSync.moved = FALSE /\ IdleSync.agreed = FALSE
      /\ IdleSync.good = TRUE /\ IdleSync.fast = FALSE
      /\ IdleSync.quiet = FALSE
      /\ IdleSync.snap = [r \in Repos |-> None]
      /\ IdleSync.seen = [r \in Repos |-> None]
      /\ IdleSync.pc = "idle" /\ IdleSync.result = "none"
  BY DEF IdleSync
<1>2. IsMap(IdleSync.snap) /\ IsMap(IdleSync.seen)
  BY <1>1 DEF IsMap
<1>3. Typed(IdleSync)
  BY <1>1, <1>2 DEF Typed
<1> QED
  BY <1>1, <1>3 DEF Typed, ReadInv, Scriptless, Busy

LEMMA EndedTyped ==
  ASSUME NEW p \in Procs, Typed(sync[p]), NEW result
  PROVE  /\ Typed(Ended(p, result)) /\ Ended(p, result).pc = "ended"
         /\ Ended(p, result).result = result
         /\ Ended(p, result).agreed = sync[p].agreed
         /\ Ended(p, result).moved = sync[p].moved
         /\ Ended(p, result).quiet = sync[p].quiet
<1> DEFINE t == Ended(p, result)
<1>1. /\ t.pc = "ended" /\ t.result = result /\ t.fast = FALSE
      /\ t.good = TRUE /\ t.seen = [r \in Repos |-> None]
      /\ t.agreed = sync[p].agreed /\ t.moved = sync[p].moved
      /\ t.quiet = sync[p].quiet /\ t.snap = sync[p].snap
  BY DEF Ended, IdleSync
<1> HIDE DEF t
<1>2. IsMap(t.seen)
  BY <1>1 DEF IsMap
<1>3. Typed(t)
  BY <1>1, <1>2 DEF Typed
<1> QED
  BY <1>1, <1>3 DEF t

LEMMA EndedRead ==
  ASSUME NEW p \in Procs, Typed(sync[p]), NEW result, NEW h, NEW todo,
         result \in {"ready", "no_change"} /\ ~sync[p].moved =>
             sync[p].agreed
  PROVE  ReadInv(Ended(p, result), h, todo)
BY EndedTyped DEF Typed, ReadInv, Scriptless, Busy

(* A change of one field, of a call with all of them.                      *)
LEMMA Retyped ==
  ASSUME NEW s, NEW t, Typed(s), t.moved = s.moved, t.agreed = s.agreed,
         t.good = s.good, t.fast = s.fast, t.quiet = s.quiet,
         t.snap = s.snap, t.seen = s.seen
  PROVE  Typed(t)
BY DEF Typed

LEMMA StartRead ==
  ASSUME CallsInv, ReadsInv, NEW p \in Procs, Start(p)
  PROVE  ReadsInv'
<1> DEFINE c == [IdleSync EXCEPT !.pc = "start", !.quiet = TRUE]
<1>1. Moves(p, c) /\ head' = head /\ script' = script /\ script[p] = <<>>
  BY DEF Start, remoteVars
<1>2. /\ c.pc = "start" /\ c.quiet = TRUE /\ c.moved = IdleSync.moved
      /\ c.agreed = IdleSync.agreed /\ c.good = IdleSync.good
      /\ c.fast = IdleSync.fast /\ c.snap = IdleSync.snap
      /\ c.seen = IdleSync.seen
  BY IdleShape DEF Fields
<1> HIDE DEF c
<1>3. Typed(c)
  BY <1>2, IdleTyped DEF Typed
<1> QED
  BY <1>1, <1>2, <1>3, ReadElsewhere, ReadsMove

(* A step that keeps all the invariant speaks of but where the call is.    *)
LEMMA ElsewhereRead ==
  ASSUME CallsInv, ReadsInv, NEW p \in Procs, NEW t, Moves(p, t),
         head' = head, script' = script, sync[p].pc \in Scriptless,
         Typed(t),
         t.pc \in {"start", "snapshot", "probe", "ask", "push", "pipe",
         "unref"}
  PROVE  ReadsInv'
<1>1. script[p] = <<>>
  BY TypedNow
<1> QED
  BY <1>1, ReadElsewhere, ReadsMove

LEMMA EndRead ==
  ASSUME CallsInv, ReadsInv, NEW p \in Procs, NEW result,
         Moves(p, Ended(p, result)), head' = head,
         \A q \in Procs \ {p} : script'[q] = script[q],
         result \in {"ready", "no_change"} /\ ~sync[p].moved =>
             sync[p].agreed
  PROVE  ReadsInv'
<1>1. ReadInv(Ended(p, result), head, script'[p])
  BY TypedNow, EndedRead
<1> QED
  BY <1>1, ReadsMove

LEMMA EnsureUpRead ==
  ASSUME CallsInv, ReadsInv, NEW p \in Procs, EnsureUp(p)
  PROVE  ReadsInv'
<1> DEFINE s == sync[p]
           c == [s EXCEPT !.pc = "snapshot", !.queue = Order,
                          !.old = IF last = None THEN @ ELSE last]
<1>1. head' = head /\ script' = script /\ s.pc = "start" /\ CallInv(s)
  BY DEF EnsureUp, At, CallsInv, remoteVars
<1>2. CASE up
  <2>1. Moves(p, c)
    BY <1>2 DEF EnsureUp
  <2>2. /\ c.moved = s.moved /\ c.agreed = s.agreed /\ c.good = s.good
        /\ c.fast = s.fast /\ c.quiet = s.quiet /\ c.snap = s.snap
        /\ c.seen = s.seen /\ c.pc = "snapshot"
    BY <1>1 DEF CallInv, Fields
  <2> HIDE DEF c
  <2>3. Typed(c)
    BY <2>2, TypedNow, Retyped
  <2> QED
    BY <1>1, <2>1, <2>2, <2>3, ElsewhereRead DEF Scriptless, Busy
<1>3. CASE ~up
  <2>1. Moves(p, Ended(p, "blocked"))
    BY <1>3 DEF EnsureUp
  <2> QED
    BY <1>1, <2>1, EndRead
<1> QED
  BY <1>2, <1>3

LEMMA BuildSnapshotRead ==
  ASSUME CallsInv, ReadsInv, NEW p \in Procs, BuildSnapshot(p)
  PROVE  ReadsInv'
<1> DEFINE s == sync[p]
           r == Head(s.queue)
<1>1. PICK commit, base :
         Moves(p, [s EXCEPT !.queue = Tail(@), !.snap[r] = commit,
                            !.base[r] = base])
  BY DEF BuildSnapshot
<1> DEFINE c == [s EXCEPT !.queue = Tail(@), !.snap[r] = commit,
                          !.base[r] = base]
<1>2. /\ head' = head /\ script' = script /\ s.pc = "snapshot" /\ CallInv(s)
      /\ s.queue # <<>>
  BY DEF BuildSnapshot, At, CallsInv, remoteVars
<1>3. /\ c.moved = s.moved /\ c.agreed = s.agreed /\ c.good = s.good
      /\ c.fast = s.fast /\ c.quiet = s.quiet
      /\ c.snap = [s.snap EXCEPT ![r] = commit]
      /\ c.seen = s.seen /\ c.pc = "snapshot"
  BY <1>2 DEF CallInv, Fields
<1>4. Moves(p, c)
  BY <1>1
<1> HIDE DEF c
<1>5. IsMap(c.snap)
  <2>1. IsMap(s.snap)
    BY TypedNow DEF Typed
  <2>2. DOMAIN s.snap = Repos
    BY <1>2 DEF CallInv
  <2> QED
    BY <1>3, <2>1, <2>2 DEF IsMap
<1>6. Typed(c)
  BY <1>3, <1>5, TypedNow DEF Typed
<1> QED
  BY <1>2, <1>3, <1>4, <1>6, ElsewhereRead DEF Scriptless, Busy

(* A verification begins at the first repository.                          *)
LEMMA VerifyRead ==
  ASSUME NEW t, NEW h, Typed(t), t.pc = "heads", t.queue = Order
  PROVE  ReadInv(t, h, <<>>)
<1>1. IsRest(t) /\ Order # <<>>
  BY RestStarts, SyncAssumption
<1> QED
  BY <1>1 DEF Typed, ReadInv, Scriptless, Busy

LEMMA CompareRead ==
  ASSUME CallsInv, ReadsInv, NEW p \in Procs, Compare(p)
  PROVE  ReadsInv'
<1> DEFINE s == sync[p]
<1>1. /\ head' = head /\ script' = script /\ s.pc = "snapshot" /\ CallInv(s)
  BY DEF Compare, At, CallsInv, remoteVars
<1>2. PICK c : /\ Moves(p, c)
               /\ \/ c = [s EXCEPT !.pc = "heads", !.fast = TRUE,
                                   !.queue = Order]
                  \/ c = [s EXCEPT !.pc = "probe"]
  BY DEF Compare
<1>3. /\ c.moved = s.moved /\ c.agreed = s.agreed /\ c.good = s.good
      /\ c.fast \in {s.fast, TRUE} /\ c.quiet = s.quiet /\ c.snap = s.snap
      /\ c.seen = s.seen
      /\ (c.pc = "heads" /\ c.queue = Order) \/ c.pc = "probe"
  BY <1>1, <1>2 DEF CallInv, Fields
<1>4. Typed(c)
  BY <1>3, TypedNow DEF Typed
<1>5. script[p] = <<>>
  BY <1>1, TypedNow DEF Scriptless, Busy
<1>6. CASE c.pc = "heads" /\ c.queue = Order
  <2>1. ReadInv(c, head, script'[p])
    BY <1>1, <1>4, <1>5, <1>6, VerifyRead
  <2> QED
    BY <1>1, <1>2, <2>1, ReadsMove
<1>7. CASE c.pc = "probe"
  BY <1>1, <1>2, <1>4, <1>7, ElsewhereRead DEF Scriptless, Busy
<1> QED
  BY <1>3, <1>6, <1>7

(* The steps of a push, none of which reads or writes a head.              *)
LEMMA PushRead ==
  ASSUME CallsInv, ReadsInv, NEW p \in Procs,
         \/ QueryParity(p) \/ ReadParity(p) \/ PlanBundles(p)
         \/ SkipRepo(p) \/ SetTemporaryRef(p) \/ PipeBundle(p)
  PROVE  ReadsInv'
<1> DEFINE s == sync[p]
<1>1. /\ head' = head /\ script' = script /\ CallInv(s) /\ Typed(s)
      /\ s.pc \in {"probe", "ask", "push", "pipe"}
  BY TypedNow DEF QueryParity, ReadParity, PlanBundles, SkipRepo,
                  SetTemporaryRef, PipeBundle, At, CallsInv, remoteVars
<1>2. PICK c :
         /\ Moves(p, c)
         /\ \/ c = [s EXCEPT !.pc = "ask", !.queue = Order,
                             !.probe = [r \in Repos |-> None]]
            \/ /\ s.pc = "ask"
               /\ c = [s EXCEPT !.queue = Tail(@),
                                !.probe[Head(s.queue)] =
                                    parity[MirrorOf[Head(s.queue)]]]
            \/ c = [s EXCEPT !.pc = "push", !.queue = Order]
            \/ s.pc = "push" /\ c = [s EXCEPT !.queue = Tail(@)]
            \/ c = [s EXCEPT !.pc = "pipe"]
            \/ \E good \in BOOLEAN :
                   c = [s EXCEPT !.pc = "unref", !.good = good]
  <2>1. CASE QueryParity(p)
    BY <2>1 DEF QueryParity
  <2>2. CASE SkipRepo(p)
    BY <2>2 DEF SkipRepo, At
  <2>3. CASE SetTemporaryRef(p)
    BY <2>3 DEF SetTemporaryRef
  <2>5. CASE ReadParity(p)
    BY <2>5 DEF ReadParity, At
  <2>6. CASE PlanBundles(p)
    BY <2>6 DEF PlanBundles
  <2>4. CASE PipeBundle(p)
    <3> DEFINE good == Accepted(p, Head(s.queue))
    <3>1. good \in BOOLEAN
      BY DEF Accepted
    <3>2. Moves(p, [s EXCEPT !.pc = "unref", !.good = good])
      BY <2>4 DEF PipeBundle
    <3> QED
      BY <3>1, <3>2
  <2> QED
    BY <2>1, <2>2, <2>3, <2>4, <2>5, <2>6
<1>3. /\ c.moved = s.moved /\ c.agreed = s.agreed /\ c.good \in BOOLEAN
      /\ c.fast = s.fast /\ c.quiet = s.quiet /\ c.snap = s.snap
      /\ c.seen = s.seen /\ c.pc \in {"ask", "push", "pipe", "unref"}
  BY <1>1, <1>2 DEF CallInv, Fields, Typed
<1>4. Typed(c)
  BY <1>1, <1>3 DEF Typed
<1> QED
  BY <1>1, <1>2, <1>3, <1>4, ElsewhereRead DEF Scriptless, Busy

LEMMA DeleteTemporaryRefRead ==
  ASSUME CallsInv, ReadsInv, NEW p \in Procs, DeleteTemporaryRef(p)
  PROVE  ReadsInv'
<1> DEFINE s == sync[p]
           c == [s EXCEPT !.pc = "push", !.queue = Tail(@)]
<1>1. /\ head' = head /\ script' = script /\ s.pc = "unref" /\ CallInv(s)
      /\ Typed(s)
  BY TypedNow DEF DeleteTemporaryRef, At, CallsInv, remoteVars
<1>2. CASE s.good
  <2>1. Moves(p, c)
    BY <1>2 DEF DeleteTemporaryRef
  <2>2. /\ c.moved = s.moved /\ c.agreed = s.agreed /\ c.good = s.good
        /\ c.fast = s.fast /\ c.quiet = s.quiet /\ c.snap = s.snap
        /\ c.seen = s.seen /\ c.pc = "push"
    BY <1>1 DEF CallInv, Fields
  <2> HIDE DEF c
  <2>3. Typed(c)
    BY <1>1, <2>2, Retyped
  <2> QED
    BY <1>1, <2>1, <2>2, <2>3, ElsewhereRead DEF Scriptless, Busy
<1>3. CASE ~s.good
  <2>1. Moves(p, Ended(p, "error"))
    BY <1>3 DEF DeleteTemporaryRef
  <2> QED
    BY <1>1, <2>1, EndRead
<1> QED
  BY <1>2, <1>3

LEMMA SendScriptRead ==
  ASSUME CallsInv, ReadsInv, VarType, NEW p \in Procs, SendScript(p)
  PROVE  ReadsInv'
<1> DEFINE s == sync[p]
           c == [s EXCEPT !.pc = "materialize"]
<1>1. /\ Moves(p, c) /\ head' = head /\ CallInv(s) /\ Typed(s)
      /\ script' = [script EXCEPT ![p] = Reverse(Order)]
  BY TypedNow DEF SendScript, CallsInv
<1>2. /\ c.moved = s.moved /\ c.agreed = s.agreed /\ c.good = s.good
      /\ c.fast = s.fast /\ c.quiet = s.quiet /\ c.snap = s.snap
      /\ c.seen = s.seen /\ c.pc = "materialize"
  BY <1>1 DEF CallInv, Fields
<1> HIDE DEF c
<1>3. Typed(c)
  BY <1>1, <1>2, Retyped
<1>4. ReadInv(c, head, script'[p])
  BY <1>2, <1>3 DEF Typed, ReadInv, Scriptless
<1>5. \A q \in Procs \ {p} : script'[q] = script[q]
  BY <1>1
<1> QED
  BY <1>1, <1>4, <1>5, ReadsMove

LEMMA ScriptReturnsRead ==
  ASSUME CallsInv, ReadsInv, NEW p \in Procs, ScriptReturns(p)
  PROVE  ReadsInv'
<1> DEFINE s == sync[p]
           c == [s EXCEPT !.pc = "heads", !.fast = FALSE, !.good = TRUE,
                          !.queue = Order, !.seen = [r \in Repos |-> None]]
<1>1. /\ Moves(p, c) /\ CallInv(s) /\ Typed(s)
      /\ head' = head /\ script' = script /\ script[p] = <<>>
  BY TypedNow DEF ScriptReturns, CallsInv, remoteVars
<1>2. /\ c.moved = s.moved /\ c.agreed = s.agreed /\ c.good = TRUE
      /\ c.fast = FALSE /\ c.quiet = s.quiet /\ c.snap = s.snap
      /\ c.seen = [r \in Repos |-> None] /\ c.pc = "heads" /\ c.queue = Order
  BY <1>1 DEF CallInv, Fields
<1> HIDE DEF c
<1>3. Typed(c)
  <2>1. IsMap(c.seen)
    BY <1>2 DEF IsMap
  <2> QED
    BY <1>1, <1>2, <2>1 DEF Typed
<1>4. ReadInv(c, head, script'[p])
  BY <1>1, <1>2, <1>3, VerifyRead
<1> QED
  BY <1>1, <1>4, ReadsMove

LEMMA ReadHeadRead ==
  ASSUME CallsInv, ReadsInv, NEW p \in Procs, ReadHead(p)
  PROVE  ReadsInv'
<1> DEFINE s == sync[p]
           r == Head(s.queue)
           c == [s EXCEPT !.pc = "status", !.seen[r] = head[r],
                          !.agreed = @ \/ Agree(p)]
<1>1. /\ Moves(p, c) /\ s.pc = "heads" /\ CallInv(s) /\ Typed(s)
      /\ head' = head /\ script' = script /\ script[p] = <<>>
      /\ IsRest(s) /\ s.queue # <<>>
  BY TypedNow
  DEF ReadHead, At, CallsInv, remoteVars, ReadInv, Scriptless, Busy
<1>2. /\ c.moved = s.moved /\ c.good = s.good
      /\ c.fast = s.fast /\ c.quiet = s.quiet /\ c.snap = s.snap
      /\ c.seen = [s.seen EXCEPT ![r] = head[r]]
      /\ c.pc = "status" /\ c.queue = s.queue
  BY <1>1 DEF CallInv, Fields
<1>3. c.agreed \in BOOLEAN
  <2>1. c.agreed = (s.agreed \/ Agree(p))
    BY <1>1 DEF CallInv, Fields
  <2> QED
    BY <2>1
<1> HIDE DEF c
<1>4. r \in Repos
  BY <1>1, RestHead
<1>5. IsMap(c.seen) /\ c.seen[r] = head[r]
  <2>1. IsMap(s.seen)
    BY <1>1 DEF Typed
  <2> QED
    BY <1>2, <1>4, <2>1 DEF IsMap
<1>6. Typed(c)
  BY <1>1, <1>2, <1>3, <1>5 DEF Typed
<1>7. IsRest(c)
  BY <1>1, <1>2 DEF IsRest, Pos
<1>8. c.queue = <<Root>> => head[Root] = c.seen[Root]
  BY <1>2, <1>5
<1>9. ReadInv(c, head, script'[p])
  BY <1>1, <1>2, <1>6, <1>7, <1>8 DEF Typed, ReadInv
<1> QED
  BY <1>1, <1>9, ReadsMove

(* A queue of one holds the root.                                          *)
LEMMA LastIsRoot ==
  ASSUME NEW s, IsRest(s), s.queue # <<>>, ~(Len(s.queue) > 1)
  PROVE  s.queue = <<Root>> /\ Tail(s.queue) = <<>>
<1>1. Order \in Seq(Repos) /\ Len(Order) \in Nat
  BY SyncAssumption
<1>2. Pos(s) \in 1 .. Len(Order)
  BY RestHead
<1>3. s.queue = SubSeq(Order, Pos(s), Len(Order))
  BY DEF IsRest
<1>4. Len(s.queue) = Len(Order) - Pos(s) + 1
  BY <1>1, <1>2, <1>3
<1>5. Pos(s) = Len(Order)
  BY <1>1, <1>2, <1>4
<1>6. SubSeq(Order, Len(Order), Len(Order)) = <<Root>>
  <2> DEFINE last1 == SubSeq(Order, Len(Order), Len(Order))
  <2>1. Len(Order) \in 1 .. Len(Order)
    BY <1>2, <1>5
  <2>2. last1 \in Seq(Repos) /\ Len(last1) = 1 /\ last1[1] = Order[Len(Order)]
    BY <1>1, <2>1
  <2> HIDE DEF last1
  <2>3. last1 = <<Root>>
    BY <2>2 DEF Root
  <2> QED
    BY <2>3 DEF last1
<1> QED
  BY <1>3, <1>5, <1>6

LEMMA TailLonger ==
  ASSUME NEW S, NEW q \in Seq(S), Len(q) > 1
  PROVE  Tail(q) # <<>>
<1> DEFINE t == Tail(q)
<1>1. Len(t) = Len(q) - 1 /\ Len(q) \in Nat
  OBVIOUS
<1> HIDE DEF t
<1>2. t # <<>>
  BY <1>1
<1> QED
  BY <1>2 DEF t

(* After the last status a verification without a mismatch has agreed.     *)
LEMMA ReadStatusRead ==
  ASSUME CallsInv, ReadsInv, NEW p \in Procs, ReadStatus(p)
  PROVE  ReadsInv'
<1> DEFINE s == sync[p]
           r == Head(s.queue)
           c == [s EXCEPT
                    !.pc = IF Len(s.queue) > 1 THEN "heads" ELSE "status",
                    !.queue = Tail(@), !.good = @ /\ ~Dirty(r),
                    !.agreed = @ \/ Agree(p)]
<1>1. /\ Moves(p, c) /\ s.pc = "status" /\ CallInv(s) /\ Typed(s)
      /\ head' = head /\ script' = script /\ script[p] = <<>>
      /\ IsRest(s) /\ s.queue # <<>> /\ ReadInv(s, head, script[p])
  BY TypedNow
  DEF ReadStatus, At, CallsInv, remoteVars, ReadInv, Scriptless, Busy
<1>2. /\ c.moved = s.moved
      /\ c.fast = s.fast /\ c.quiet = s.quiet /\ c.snap = s.snap
      /\ c.seen = s.seen /\ c.queue = Tail(s.queue)
      /\ c.pc = IF Len(s.queue) > 1 THEN "heads" ELSE "status"
  BY <1>1 DEF CallInv, Fields
<1>3. /\ c.agreed \in BOOLEAN /\ c.good \in BOOLEAN
      /\ Agree(p) => c.agreed
      /\ c.good => ~Dirty(r)
  <2>1. /\ c.agreed = (s.agreed \/ Agree(p))
        /\ c.good = (s.good /\ ~Dirty(r))
    BY <1>1 DEF CallInv, Fields
  <2> QED
    BY <2>1
<1> HIDE DEF c
<1>4. Typed(c)
  BY <1>1, <1>2, <1>3 DEF Typed
<1>5. IsRest(c)
  BY <1>1, <1>2, RestGoesOn
<1>6. CASE Len(s.queue) > 1
  <2>1. c.pc = "heads" /\ c.queue # <<>>
    <3>1. s.queue \in Seq(Repos)
      BY <1>1, RestType
    <3>2. Tail(s.queue) # <<>>
      BY <1>6, <3>1, TailLonger
    <3> QED
      BY <1>2, <1>6, <3>2
  <2>2. ReadInv(c, head, script'[p])
    BY <1>1, <1>4, <1>5, <2>1 DEF Typed, ReadInv
  <2> QED
    BY <1>1, <2>2, ReadsMove
<1>7. CASE ~(Len(s.queue) > 1)
  <2>1. s.queue = <<Root>> /\ c.queue = <<>> /\ c.pc = "status" /\ r = Root
    BY <1>1, <1>2, <1>7, LastIsRoot
  <2>2. ASSUME ~c.moved, c.good, c.seen = c.snap PROVE c.agreed
    <3>1. ~Dirty(Root)
      BY <1>3, <2>1, <2>2
    <3>2. head[Root] # None
      <4>1. Root \in Repos /\ Root \in Below[Root]
        BY RootType, AllBelowRoot
      <4> QED
        BY <3>1, <4>1 DEF Dirty
    <3>3. head[Root] = s.snap[Root]
      BY <1>1, <1>2, <2>1, <2>2, <3>2 DEF ReadInv
    <3>4. \A q \in Repos : Built(s, q)
      BY <1>1 DEF CallInv, Snapped
    <3> QED
      BY <1>3, <3>1, <3>3, <3>4, CleanTree
  <2>3. ReadInv(c, head, script'[p])
    BY <1>1, <1>4, <1>5, <2>1, <2>2 DEF Typed, ReadInv
  <2> QED
    BY <1>1, <2>3, ReadsMove
<1> QED
  BY <1>6, <1>7

LEMMA AcceptRead ==
  ASSUME CallsInv, ReadsInv, NEW p \in Procs, Accept(p)
  PROVE  ReadsInv'
<1> DEFINE s == sync[p]
           c == [s EXCEPT !.pc = "save"]
<1>1. /\ s.pc = "status" /\ CallInv(s) /\ Typed(s)
      /\ head' = head /\ script' = script /\ script[p] = <<>>
      /\ ~s.moved => s.agreed
  BY TypedNow
  DEF Accept, At, CallsInv, remoteVars, Matches, ReadInv, Scriptless, Busy
<1>2. CASE s.fast
  <2>1. Moves(p, Ended(p, "no_change"))
    BY <1>2 DEF Accept
  <2> QED
    BY <1>1, <2>1, EndRead
<1>3. CASE ~s.fast
  <2>1. Moves(p, c)
    BY <1>3 DEF Accept
  <2>2. /\ c.moved = s.moved /\ c.agreed = s.agreed /\ c.good = s.good
        /\ c.fast = s.fast /\ c.quiet = s.quiet /\ c.snap = s.snap
        /\ c.seen = s.seen /\ c.pc = "save"
    BY <1>1 DEF CallInv, Fields
  <2> HIDE DEF c
  <2>3. Typed(c)
    BY <1>1, <2>2, Retyped
  <2>4. ReadInv(c, head, script'[p])
    BY <1>1, <2>2, <2>3 DEF Typed, ReadInv
  <2> QED
    BY <1>1, <2>1, <2>4, ReadsMove
<1> QED
  BY <1>2, <1>3

(* A rejected verification, quietly or not.                                *)
LEMMA RejectTyped ==
  ASSUME NEW p \in Procs, CallInv(sync[p]), Typed(sync[p]),
         sync[p].pc \in {"heads", "status"}
  PROVE  /\ Typed(Reject(p)) /\ Reject(p).quiet = sync[p].quiet
         /\ Reject(p).snap = sync[p].snap
         /\ \/ sync[p].fast /\ Reject(p).pc = "probe"
            \/ /\ ~sync[p].fast
               /\ Reject(p).pc = "ended" /\ Reject(p).result = "failed"
<1> DEFINE s == sync[p]
           c == [s EXCEPT !.pc = "probe", !.agreed = FALSE, !.moved = FALSE]
<1>1. CASE s.fast
  <2>1. Reject(p) = c
    BY <1>1 DEF Reject
  <2>2. /\ c.moved = FALSE /\ c.agreed = FALSE /\ c.good = s.good
        /\ c.fast = s.fast /\ c.quiet = s.quiet /\ c.snap = s.snap
        /\ c.seen = s.seen /\ c.pc = "probe"
    BY DEF CallInv, Fields
  <2> HIDE DEF c
  <2>3. Typed(c)
    BY <2>2 DEF Typed
  <2> QED
    BY <1>1, <2>1, <2>2, <2>3
<1>2. CASE ~s.fast
  <2>1. Reject(p) = Ended(p, "failed")
    BY <1>2 DEF Reject
  <2>2. Ended(p, "failed").snap = s.snap
    BY DEF Ended, IdleSync
  <2> QED
    BY <1>2, <2>1, <2>2, EndedTyped
<1> QED
  BY <1>1, <1>2

LEMMA RejectRead ==
  ASSUME ReadsInv, NEW p \in Procs, CallInv(sync[p]),
         sync[p].pc \in {"heads", "status"}
  PROVE  ReadInv(Reject(p), head, script[p])
<1>1. Typed(sync[p]) /\ script[p] = <<>>
  BY TypedNow DEF Scriptless, Busy
<1>2. /\ Typed(Reject(p))
      /\ \/ Reject(p).pc = "probe"
         \/ Reject(p).pc = "ended" /\ Reject(p).result = "failed"
  BY <1>1, RejectTyped
<1> HIDE DEF Reject
<1> QED
  BY <1>1, <1>2 DEF Typed, ReadInv

LEMMA RefuseRead ==
  ASSUME CallsInv, ReadsInv, NEW p \in Procs, Refuse(p)
  PROVE  ReadsInv'
<1>1. /\ Moves(p, Reject(p)) /\ sync[p].pc \in {"heads", "status"}
      /\ CallInv(sync[p]) /\ head' = head /\ script' = script
  BY DEF Refuse, At, CallsInv, remoteVars
<1>2. ReadInv(Reject(p), head, script'[p])
  BY <1>1, RejectRead
<1> QED
  BY <1>1, <1>2, ReadsMove

LEMMA SaveStateRead ==
  ASSUME CallsInv, ReadsInv, NEW p \in Procs, SaveState(p)
  PROVE  ReadsInv'
<1>1. /\ Moves(p, Ended(p, "ready")) /\ sync[p].pc = "save"
      /\ head' = head /\ script' = script
  BY DEF SaveState, At, remoteVars
<1>2. ~sync[p].moved => sync[p].agreed
  BY <1>1 DEF ReadsInv, ReadInv
<1> QED
  BY <1>1, <1>2, EndRead

LEMMA IdleRead ==
  ASSUME CallsInv, ReadsInv, NEW p \in Procs, Finish(p) \/ Killed(p)
  PROVE  ReadsInv'
<1>1. Moves(p, IdleSync) /\ head' = head /\ script' = script
  BY DEF Finish, Killed, remoteVars
<1> QED
  BY <1>1, IdleTyped, ReadsMove

LEMMA QuietlessRead ==
  ASSUME NEW t, NEW h, NEW todo, CallInv(t), ReadInv(t, h, todo)
  PROVE  /\ ReadInv([t EXCEPT !.quiet = FALSE], h, todo)
         /\ [t EXCEPT !.quiet = FALSE].quiet = FALSE
<1>1. Kept(t, [t EXCEPT !.quiet = FALSE])
  BY QuietlessKept DEF ReadInv
<1>2. [t EXCEPT !.quiet = FALSE].quiet = FALSE
  BY <1>1 DEF Kept
<1>3. ReadInv([t EXCEPT !.quiet = FALSE], h, todo)
  <2> DEFINE c == [t EXCEPT !.quiet = FALSE]
  <2>1. Kept(t, c)
    BY <1>1
  <2> HIDE DEF c
  <2>2. c.pc = t.pc /\ c.queue = t.queue /\ c.moved \in BOOLEAN
        /\ (t.moved => c.moved)
    BY <2>1 DEF Kept, Same
  <2>3. t.pc = "status" /\ t.queue = <<Root>> /\ ~c.moved =>
            h[Root] \in {h[Root], None}
    OBVIOUS
  <2>4. ReadInv(c, h, todo)
    BY <2>1, <2>3, KeptRead
  <2> QED
    BY <2>4 DEF c
<1> QED
  BY <1>2, <1>3

LEMMA SshFailsRead ==
  ASSUME CallsInv, ReadsInv, NEW p \in Procs, SshFails(p)
  PROVE  ReadsInv' /\ sync'[p].quiet = FALSE
<1> DEFINE s == sync[p]
<1>1. /\ head' = head /\ script' = script /\ CallInv(s) /\ Typed(s)
  BY TypedNow DEF SshFails, CallsInv, remoteVars
<1>2. PICK t : /\ Moves(p, [t EXCEPT !.quiet = FALSE])
               /\ \/ s.pc = "pipe" /\ t = [s EXCEPT !.pc = "unref",
                                                    !.good = FALSE]
                  \/ t = Ended(p, "error")
                  \/ s.pc \in {"heads", "status"} /\ t = Reject(p)
  BY DEF SshFails, At, Verifying
<1>3. CallInv(t) /\ ReadInv(t, head, script[p])
  <2>1. CASE s.pc = "pipe" /\ t = [s EXCEPT !.pc = "unref", !.good = FALSE]
    <3>1. /\ t.moved = s.moved /\ t.agreed = s.agreed /\ t.good = FALSE
          /\ t.fast = s.fast /\ t.quiet = s.quiet /\ t.snap = s.snap
          /\ t.seen = s.seen /\ t.pc = "unref" /\ t.queue = s.queue
          /\ t.base = s.base /\ t.result = s.result /\ DOMAIN t = Fields
      BY <1>1, <2>1 DEF CallInv, Fields
    <3>2. Typed(t)
      BY <1>1, <3>1 DEF Typed
    <3>3. script[p] = <<>>
      BY <2>1, TypedNow DEF Scriptless, Busy
    <3>4. ReadInv(t, head, script[p])
      BY <3>1, <3>2, <3>3, ReadElsewhere
    <3>5. IsRest(t) /\ t.queue # <<>>
      BY <1>1, <2>1, <3>1 DEF CallInv, Pushing, IsRest, Pos
    <3>6. CallInv(t)
      BY <1>1, <2>1, <3>1, <3>5, PushKeeps DEF Snapped, Pushing
    <3> QED
      BY <3>4, <3>6
  <2>2. CASE t = Ended(p, "error")
    <3>1. CallInv(t)
      BY <1>1, <2>2, CallEnds DEF Result
    <3>2. ReadInv(t, head, script[p])
      BY <1>1, <2>2, EndedRead
    <3> QED
      BY <3>1, <3>2
  <2>3. CASE s.pc \in {"heads", "status"} /\ t = Reject(p)
    BY <1>1, <2>3, RejectShape, RejectRead
  <2> QED
    BY <1>2, <2>1, <2>2, <2>3
<1> DEFINE c == [t EXCEPT !.quiet = FALSE]
<1>4. ReadInv(c, head, script[p]) /\ c.quiet = FALSE
  BY <1>3, QuietlessRead
<1>5. Moves(p, c)
  BY <1>2
<1> HIDE DEF c
<1>6. ReadInv(c, head, script'[p])
  BY <1>1, <1>4
<1>7. ReadsInv'
  BY <1>1, <1>5, <1>6, ReadsMove
<1>8. sync'[p] = c
  BY <1>5, OthersKept
<1> QED
  BY <1>4, <1>7, <1>8

(* A checkout by p, while others read: the root stays what they have seen, *)
(* or they are told.                                                       *)
LEMMA CheckoutRead ==
  ASSUME CallsInv, ReadsInv, VarType, NEW p \in Procs, MaterializeRepo(p),
         parity[MirrorOf[Head(script[p])]] # None
  PROVE  /\ ReadsInv' /\ sync'[p] = sync[p]
         /\ \A q \in Procs \ {p} : Kept(sync[q], sync'[q])
<1> DEFINE r == Head(script[p])
           c == parity[MirrorOf[r]]
<1>1. /\ head' = [head EXCEPT ![r] = c]
      /\ script' = [script EXCEPT ![p] = Tail(@)]
      /\ sync' = [q \in Procs |->
            IF q = p THEN sync[q]
            ELSE [sync[q] EXCEPT !.quiet = FALSE,
                                 !.moved = @ \/ MovesRoot(q, r, c)]]
      /\ script[p] # <<>>
  BY DEF MaterializeRepo
<1>2. DOMAIN head = Repos /\ DOMAIN script = Procs
  BY DEF ReadsInv, VarType
<1>3. ReadInv(sync[p], head', script'[p])
  <2>1. sync[p].pc \notin Scriptless
    BY <1>1, TypedNow
  <2>2. ReadInv(sync[p], head, script[p])
    BY TypedNow
  <2> QED
    BY <2>1, <2>2 DEF ReadInv, Scriptless, Busy
<1>4. ASSUME NEW q \in Procs \ {p}
      PROVE  /\ Kept(sync[q], sync'[q])
             /\ ReadInv(sync'[q], head', script'[q])
  <2> DEFINE s == sync[q]
             t == [s EXCEPT !.quiet = FALSE,
                            !.moved = @ \/ MovesRoot(q, r, c)]
  <2>1. sync'[q] = t /\ script'[q] = script[q]
    BY <1>1, <1>2, <1>4
  <2>2. CallInv(s) /\ ReadInv(s, head, script[q])
    BY DEF CallsInv, ReadsInv
  <2>3. DOMAIN s = Fields
    BY <2>2 DEF CallInv
  <2>4. /\ Same(s, t) /\ t.quiet = FALSE
        /\ t.fast = s.fast /\ t.seen = s.seen /\ t.agreed = s.agreed
    BY <2>3 DEF Same, Fields
  <2>5. /\ t.moved \in BOOLEAN
        /\ s.moved => t.moved
        /\ MovesRoot(q, r, c) => t.moved
    <3>1. t.moved = (s.moved \/ MovesRoot(q, r, c))
      BY <2>3 DEF Fields
    <3> QED
      BY <3>1
  <2> HIDE DEF t
  <2>6. Kept(s, t)
    BY <2>4, <2>5 DEF Kept
  <2>7. s.pc = "status" /\ s.queue = <<Root>> /\ ~t.moved =>
            head'[Root] \in {head[Root], None}
    <3> SUFFICES ASSUME s.pc = "status", s.queue = <<Root>>, ~t.moved
                 PROVE  head'[Root] = head[Root]
      OBVIOUS
    <3>1. ~MovesRoot(q, r, c)
      BY <2>5
    <3>2. r # Root \/ head[r] = c
      BY <3>1 DEF MovesRoot, At
    <3> HIDE DEF r, c
    <3>3. Root \in DOMAIN head
      BY <1>2, RootType
    <3> QED
      BY <1>1, <3>2, <3>3
  <2>8. ReadInv(t, head', script[q])
    BY <2>2, <2>6, <2>7, KeptRead
  <2> QED
    BY <2>1, <2>6, <2>8
<1>5. sync'[p] = sync[p] /\ DOMAIN head' = Repos
  BY <1>1, <1>2
<1> QED
  BY <1>3, <1>4, <1>5 DEF ReadsInv

(* A script that finds no parity ref ends.                                 *)
LEMMA MaterializeRepoRead ==
  ASSUME CallsInv, ReadsInv, VarType, NEW p \in Procs, MaterializeRepo(p)
  PROVE  ReadsInv'
<1> DEFINE r == Head(script[p])
<1>1. CASE parity[MirrorOf[r]] # None
  BY <1>1, CheckoutRead
<1>2. CASE parity[MirrorOf[r]] = None
  <2>1. /\ head' = head /\ script' = [script EXCEPT ![p] = <<>>]
        /\ Moves(p, IF At(p, "materialize") THEN Ended(p, "error")
                    ELSE sync[p])
    BY <1>2 DEF MaterializeRepo
  <2>2. \A q \in Procs \ {p} : script'[q] = script[q]
    BY <2>1
  <2>3. CASE At(p, "materialize")
    <3>1. Moves(p, Ended(p, "error"))
      BY <2>1, <2>3
    <3> QED
      BY <2>1, <2>2, <3>1, EndRead
  <2>4. CASE ~At(p, "materialize")
    <3>1. Moves(p, sync[p])
      BY <2>1, <2>4
    <3>2. script'[p] = <<>>
      BY <2>1 DEF VarType
    <3>3. ReadInv(sync[p], head, script'[p])
      BY <3>2, TypedNow DEF ReadInv
    <3> QED
      BY <2>1, <2>2, <3>1, <3>3, ReadsMove
  <2> QED
    BY <2>3, <2>4
<1> QED
  BY <1>1, <1>2

(* What others do.                                                         *)
LEMMA DisturbKept ==
  ASSUME CallsInv, ReadsInv, Disturb, NEW q \in Procs
  PROVE  Kept(sync[q], sync'[q])
<1>1. sync'[q] = [sync[q] EXCEPT !.quiet = FALSE]
  BY DEF Disturb
<1>2. CallInv(sync[q]) /\ sync[q].moved \in BOOLEAN
  BY DEF CallsInv, ReadsInv, ReadInv
<1> QED
  BY <1>1, <1>2, QuietlessKept

LEMMA OutsideRead ==
  ASSUME CallsInv, ReadsInv,
         BringUp \/ \E r \in Repos : EditFiles(r) \/ PruneObjects(r)
                                     \/ TouchRemote(r)
  PROVE  ReadsInv' /\ \A q \in Procs : sync'[q].quiet = FALSE
<1>1. Disturb /\ head' = head /\ script' = script
  BY DEF BringUp, EditFiles, PruneObjects, TouchRemote, remoteVars
<1>2. ASSUME NEW q \in Procs
      PROVE  ReadInv(sync'[q], head', script'[q]) /\ sync'[q].quiet = FALSE
  <2>1. Kept(sync[q], sync'[q]) /\ ReadInv(sync[q], head, script[q])
    BY <1>1, DisturbKept DEF ReadsInv
  <2> QED
    BY <1>1, <2>1, KeptRead DEF Kept
<1> QED
  BY <1>1, <1>2 DEF ReadsInv

LEMMA TakeDownRead ==
  ASSUME CallsInv, ReadsInv, TakeDown
  PROVE  ReadsInv' /\ \A q \in Procs : sync'[q].quiet = FALSE
<1>1. head' = [r \in Repos |-> None] /\ script' = [p \in Procs |-> <<>>]
  BY DEF TakeDown
<1>2. ASSUME NEW q \in Procs
      PROVE  ReadInv(sync'[q], head', script'[q]) /\ sync'[q].quiet = FALSE
  <2>1. CallInv(sync[q]) /\ Typed(sync[q]) /\ ReadInv(sync[q], head, script[q])
    BY TypedNow DEF CallsInv
  <2>2. script'[q] = <<>> /\ head'[Root] = None
    BY <1>1, RootType
  <2>3. CASE At(q, "materialize") /\ script[q] # <<>>
    <3> DEFINE t == Ended(q, "error")
    <3>1. sync'[q] = [t EXCEPT !.quiet = FALSE]
      BY <2>3 DEF TakeDown
    <3>2. CallInv(t) /\ ReadInv(t, head', script'[q])
      BY <2>1, CallEnds, EndedRead DEF Result
    <3> HIDE DEF t
    <3> QED
      BY <3>1, <3>2, QuietlessRead
  <2>4. CASE ~(At(q, "materialize") /\ script[q] # <<>>)
    <3>1. sync'[q] = [sync[q] EXCEPT !.quiet = FALSE]
      BY <2>4 DEF TakeDown
    <3>2. Kept(sync[q], sync'[q])
      BY <2>1, <3>1, QuietlessKept DEF Typed
    <3>3. ReadInv(sync'[q], head', script'[q])
      BY <2>1, <2>2, <3>2, KeptRead
    <3> QED
      BY <3>2, <3>3 DEF Kept
  <2> QED
    BY <2>3, <2>4
<1> QED
  BY <1>1, <1>2 DEF ReadsInv

LEMMA ReadsStep ==
  ASSUME ClosedInv, ReadsInv, [Next]_vars
  PROVE  ReadsInv'
<1>1. CallsInv /\ VarType
  BY DEF ClosedInv
<1>2. ASSUME NEW p \in Procs, Step(p) PROVE ReadsInv'
  BY <1>1, <1>2, StartRead, EnsureUpRead, BuildSnapshotRead, CompareRead,
     PushRead, DeleteTemporaryRefRead, SendScriptRead, MaterializeRepoRead,
     ScriptReturnsRead, ReadHeadRead, ReadStatusRead, AcceptRead, RefuseRead,
     SaveStateRead, IdleRead DEF Step
<1>3. ASSUME NEW p \in Procs, SshFails(p) \/ Killed(p) PROVE ReadsInv'
  BY <1>1, <1>3, SshFailsRead, IdleRead
<1>4. CASE UNCHANGED vars
  BY <1>4 DEF vars, remoteVars, ReadsInv
<1> QED
  BY <1>1, <1>2, <1>3, <1>4, TakeDownRead, OutsideRead DEF Next

LEMMA ReadsStart == Init => ReadsInv
BY IdleTyped DEF Init, ReadsInv

(* ready and no_change are true, for any tree of repositories and any      *)
(* number of overlapping syncs, live or killed: the root, whose commit     *)
(* records all the others, is read last, and unless another sync checks    *)
(* out another commit of it between the two reads of the root, every       *)
(* remote HEAD was the snapshot's commit when a read was made.             *)
THEOREM SuccessTrue == Spec => []SuccessWasTrue
<1>1. Init => ClosedInv /\ ReadsInv
  BY StartsEmpty, ReadsStart DEF CompleteInv
<1>2. ClosedInv /\ ReadsInv /\ [Next]_vars => ClosedInv' /\ ReadsInv'
  BY ClosedStep, ReadsStep
<1>3. ReadsInv => SuccessWasTrue
  BY DEF ReadsInv, ReadInv, SuccessWasTrue, At
<1> QED
  BY <1>1, <1>2, <1>3, PTL DEF Spec

-----------------------------------------------------------------------------
(* A call that nothing disturbs.                                           *)

(* Its snapshots are of the files as they are.                             *)
SnapsNow(s, w) ==
    /\ s.pc = "snapshot" =>
          \A i \in 1 .. Len(Order) :
              i < Pos(s) => Last(s.snap[Order[i]]).content = w[Order[i]]
    /\ s.pc \in Snapped =>
          \A r \in Repos : Last(s.snap[r]).content = w[r]

(* A parity ref is the snapshot's, or still the one the probe has read.    *)
Fits(s, par, r) == par[MirrorOf[r]] = s.snap[r]
PushesNow(s, o, par, t) ==
    /\ s.pc = "ask" => \A i \in 1 .. Len(Order) :
          i < Pos(s) => s.probe[Order[i]] = par[MirrorOf[Order[i]]]
    /\ s.pc \in Pushing \ {"ask"} =>
          /\ \A r \in Repos :
                /\ Fits(s, par, r) \/ par[MirrorOf[r]] = s.probe[r]
                /\ s.probe[r] # None => s.probe[r] \in o[MirrorOf[r]]
          /\ \A i \in 1 .. Len(Order) : i < Pos(s) => Fits(s, par, Order[i])
    /\ s.pc = "pipe" => t[Head(s.queue)] = s.snap[Head(s.queue)]
    /\ s.pc = "unref" => s.good /\ Fits(s, par, Head(s.queue))

(* A work tree is the snapshot's, or the script has still to come to it.   *)
Out(s, h, f, r) == h[r] = s.snap[r] /\ ~f[r]
ScriptNow(s, par, h, f, todo) ==
    s.pc = "materialize" =>
        \A r \in Repos :
            /\ Fits(s, par, r)
            /\ Out(s, h, f, r) \/ \E i \in 1 .. Len(todo) : todo[i] = r

(* The verification of a full sync finds what the script has done.         *)
SeenNow(s, h, f) ==
    s.pc \in {"heads", "status"} /\ ~s.fast =>
        /\ s.good
        /\ \A r \in Repos : Out(s, h, f, r)
        /\ \A i \in 1 .. Len(Order) :
              i < Pos(s) \/ (i = Pos(s) /\ s.pc = "status")
                  => s.seen[Order[i]] = s.snap[Order[i]]

EndsWell(s) == s.pc = "ended" => s.result \notin {"failed", "error"}

QuietInv(s, w, t, o, par, h, f, todo) ==
    /\ SnapsNow(s, w) /\ PushesNow(s, o, par, t)
    /\ ScriptNow(s, par, h, f, todo) /\ SeenNow(s, h, f) /\ EndsWell(s)

QuietsInv ==
    \A p \in Procs :
        sync[p].quiet =>
            QuietInv(sync[p], work, tmp, objs, parity, head, touched,
                     script[p])

LEMMA QuietMove ==
  ASSUME CallsInv, ReadsInv, NEW p \in Procs, NEW c, Moves(p, c),
         c.quiet => QuietInv(c, work', tmp', objs', parity', head', touched',
                             script'[p])
  PROVE  QuietsInv'
<1> SUFFICES ASSUME NEW q \in Procs, sync'[q].quiet
             PROVE  QuietInv(sync'[q], work', tmp', objs', parity', head',
                             touched', script'[q])
  BY DEF QuietsInv
<1>1. CASE q = p
  BY <1>1, OthersKept
<1>2. CASE q # p
  BY <1>2, OthersKept DEF Kept
<1> QED
  BY <1>1, <1>2

(* Steps of a call that has told nobody anything.                          *)
LEMMA QuietElsewhere ==
  ASSUME NEW c, NEW w, NEW t, NEW o, NEW par, NEW h, NEW f, NEW todo,
         c.pc \in {"start", "snapshot", "probe", "save", "idle"},
         SnapsNow(c, w)
  PROVE  QuietInv(c, w, t, o, par, h, f, todo)
BY DEF QuietInv, PushesNow, Pushing, ScriptNow, SeenNow, EndsWell

LEMMA QuietEnds ==
  ASSUME NEW c, NEW w, NEW t, NEW o, NEW par, NEW h, NEW f, NEW todo,
         c.pc = "ended", c.result \notin {"failed", "error"}
  PROVE  QuietInv(c, w, t, o, par, h, f, todo)
BY DEF QuietInv, SnapsNow, Snapped, PushesNow, Pushing, ScriptNow, SeenNow,
       EndsWell

LEMMA QuietNow ==
  ASSUME QuietsInv, NEW p \in Procs, sync[p].quiet
  PROVE  /\ SnapsNow(sync[p], work) /\ PushesNow(sync[p], objs, parity, tmp)
         /\ ScriptNow(sync[p], parity, head, touched, script[p])
         /\ SeenNow(sync[p], head, touched) /\ EndsWell(sync[p])
BY DEF QuietsInv, QuietInv

LEMMA EndQuiet ==
  ASSUME CallsInv, ReadsInv, NEW p \in Procs, NEW result,
         Moves(p, Ended(p, result)),
         sync[p].quiet => result \notin {"failed", "error"}
  PROVE  QuietsInv'
<1> DEFINE c == Ended(p, result)
<1>1. c.pc = "ended" /\ c.result = result /\ c.quiet = sync[p].quiet
  BY TypedNow, EndedTyped
<1>2. Moves(p, c)
  OBVIOUS
<1> HIDE DEF c
<1> QED
  BY <1>1, <1>2, QuietEnds, QuietMove

LEMMA StartQuiet ==
  ASSUME CallsInv, ReadsInv, NEW p \in Procs, Start(p)
  PROVE  QuietsInv'
<1> DEFINE c == [IdleSync EXCEPT !.pc = "start", !.quiet = TRUE]
<1>1. Moves(p, c)
  BY DEF Start
<1>2. c.pc = "start"
  BY IdleShape DEF Fields
<1> HIDE DEF c
<1>3. SnapsNow(c, work')
  BY <1>2 DEF SnapsNow, Snapped
<1> QED
  BY <1>1, <1>2, <1>3, QuietElsewhere, QuietMove

LEMMA EnsureUpQuiet ==
  ASSUME CallsInv, ReadsInv, NEW p \in Procs, EnsureUp(p)
  PROVE  QuietsInv'
<1> DEFINE s == sync[p]
           c == [s EXCEPT !.pc = "snapshot", !.queue = Order,
                          !.old = IF last = None THEN @ ELSE last]
<1>1. CASE up
  <2>1. Moves(p, c) /\ CallInv(s)
    BY <1>1 DEF EnsureUp, CallsInv
  <2>2. c.pc = "snapshot" /\ c.queue = Order
    BY <2>1 DEF CallInv, Fields
  <2> HIDE DEF c
  <2>3. \A i \in 1 .. Len(Order) : ~(i < Pos(c))
    BY <2>2, RestStarts, OrderType
  <2>4. SnapsNow(c, work')
    BY <2>2, <2>3 DEF SnapsNow, Snapped
  <2> QED
    BY <2>1, <2>2, <2>4, QuietElsewhere, QuietMove
<1>2. CASE ~up
  <2>1. Moves(p, Ended(p, "blocked"))
    BY <1>2 DEF EnsureUp
  <2> QED
    BY <2>1, EndQuiet
<1> QED
  BY <1>1, <1>2

(* The commit of a repository, reused or new, has the files of now.        *)
LEMMA BuildSnapshotQuiet ==
  ASSUME CallsInv, ReadsInv, QuietsInv, NEW p \in Procs, BuildSnapshot(p)
  PROVE  QuietsInv'
<1> DEFINE s == sync[p]
           r == Head(s.queue)
           old == s.old[r]
           tree == TreeOf(p, r)
           usable == old # None /\ old \in odb[r]
           reuse == usable /\ Last(old) = tree
           commit == IF reuse THEN old
                     ELSE IF usable THEN Append(old, tree) ELSE <<tree>>
           base == IF usable /\ ~reuse THEN old ELSE None
           c == [s EXCEPT !.queue = Tail(@), !.snap[r] = commit,
                          !.base[r] = base]
<1>1. /\ Moves(p, c) /\ s.pc = "snapshot" /\ s.queue # <<>>
      /\ CallInv(s) /\ work' = work
  BY DEF BuildSnapshot, At, CallsInv
<1>2. IsRest(s) /\ DOMAIN s.snap = Repos
  BY <1>1 DEF CallInv
<1>3. /\ c.pc = "snapshot" /\ c.queue = Tail(s.queue) /\ c.quiet = s.quiet
      /\ c.snap = [s.snap EXCEPT ![r] = commit]
  BY <1>1 DEF CallInv, Fields
<1> HIDE DEF c
<1>4. /\ Pos(s) \in 1 .. Len(Order)
      /\ r = Order[Pos(s)] /\ r \in Repos /\ Pos(c) = Pos(s) + 1
  BY <1>1, <1>2, <1>3, RestGoesOn
<1>5. tree.content = work[r] /\ (old # None => IsSeq(old))
  BY <1>1, <1>4 DEF TreeOf, CallInv, Line
<1> HIDE DEF tree
<1>6. Last(commit) = tree
  BY <1>5, MoreSeq, OneSeq
<1> HIDE DEF commit
<1>7. ASSUME s.quiet, NEW i \in 1 .. Len(Order), i < Pos(c)
      PROVE  Last(c.snap[Order[i]]).content = work'[Order[i]]
  <2>1. Order[i] \in Repos
    BY OrderType
  <2>2. CASE Order[i] = r
    BY <1>1, <1>2, <1>3, <1>4, <1>5, <1>6, <2>2
  <2>3. CASE Order[i] # r
    <3>1. i < Pos(s)
      BY <1>4, <1>7, <2>3, OrderType
    <3>2. c.snap[Order[i]] = s.snap[Order[i]]
      BY <1>2, <1>3, <2>1, <2>3
    <3> QED
      BY <1>1, <1>7, <3>1, <3>2, QuietNow DEF SnapsNow
  <2> QED
    BY <2>2, <2>3
<1>8. c.quiet => SnapsNow(c, work')
  BY <1>3, <1>7 DEF SnapsNow, Snapped
<1> QED
  BY <1>1, <1>3, <1>8, QuietElsewhere, QuietMove

LEMMA CompareQuiet ==
  ASSUME CallsInv, ReadsInv, QuietsInv, NEW p \in Procs, Compare(p)
  PROVE  QuietsInv'
<1> DEFINE s == sync[p]
<1>1. s.pc = "snapshot" /\ s.queue = <<>> /\ CallInv(s) /\ work' = work
  BY DEF Compare, At, CallsInv, localVars
<1>2. PICK c : /\ Moves(p, c)
               /\ \/ c = [s EXCEPT !.pc = "heads", !.fast = TRUE,
                                   !.queue = Order]
                  \/ c = [s EXCEPT !.pc = "probe"]
  BY DEF Compare
<1>3. /\ c.quiet = s.quiet /\ c.snap = s.snap
      /\ (c.pc = "heads" /\ c.fast = TRUE) \/ c.pc = "probe"
  BY <1>1, <1>2 DEF CallInv, Fields
<1>4. ASSUME s.quiet, NEW r \in Repos
      PROVE  Last(s.snap[r]).content = work[r]
  <2>1. PICK i \in 1 .. Len(Order) : Order[i] = r
    BY SyncAssumption
  <2>2. i < Pos(s)
    BY <1>1, RestEnds, OrderType DEF CallInv
  <2> QED
    BY <1>1, <1>4, <2>1, <2>2, QuietNow DEF SnapsNow
<1>5. c.quiet => SnapsNow(c, work')
  BY <1>1, <1>3, <1>4 DEF SnapsNow, Snapped
<1>6. c.quiet => QuietInv(c, work', tmp', objs', parity', head', touched',
                          script'[p])
  BY <1>3, <1>5
  DEF QuietInv, PushesNow, Pushing, ScriptNow, SeenNow, EndsWell
<1> QED
  BY <1>2, <1>6, QuietMove

(* The snapshots stay as they are, and so do the files.                    *)
LEMMA SnapsKeep ==
  ASSUME NEW s, NEW c, NEW w, SnapsNow(s, w), s.pc \in Snapped,
         c.pc # "snapshot", c.snap = s.snap
  PROVE  SnapsNow(c, w)
BY DEF SnapsNow

(* From one push step to the next.                                         *)
LEMMA PushQuiet ==
  ASSUME NEW s, NEW c, NEW w, NEW t, NEW o, NEW par, NEW h, NEW f, NEW todo,
         SnapsNow(s, w), s.pc \in Snapped, c.snap = s.snap,
         c.pc \in Pushing, PushesNow(c, o, par, t)
  PROVE  QuietInv(c, w, t, o, par, h, f, todo)
BY SnapsKeep DEF QuietInv, Pushing, ScriptNow, SeenNow, EndsWell

LEMMA QueryParityQuiet ==
  ASSUME CallsInv, ReadsInv, QuietsInv, NEW p \in Procs, QueryParity(p)
  PROVE  QuietsInv'
<1> DEFINE s == sync[p]
           c == [s EXCEPT !.pc = "ask", !.queue = Order,
                          !.probe = [r \in Repos |-> None]]
<1>1. Moves(p, c) /\ s.pc = "probe" /\ CallInv(s) /\ work' = work
  BY DEF QueryParity, At, CallsInv, localVars
<1>2. c.pc = "ask" /\ c.queue = Order /\ c.quiet = s.quiet /\ c.snap = s.snap
  BY <1>1 DEF CallInv, Fields
<1> HIDE DEF c
<1>3. \A i \in 1 .. Len(Order) : ~(i < Pos(c))
  BY <1>2, RestStarts, OrderType
<1>4. PushesNow(c, objs', parity', tmp')
  BY <1>2, <1>3 DEF PushesNow
<1>5. c.quiet => QuietInv(c, work', tmp', objs', parity', head', touched',
                          script'[p])
  BY <1>1, <1>2, <1>4, QuietNow, PushQuiet DEF Snapped, Pushing
<1> QED
  BY <1>1, <1>5, QuietMove

LEMMA ReadParityQuiet ==
  ASSUME CallsInv, ReadsInv, QuietsInv, NEW p \in Procs, ReadParity(p)
  PROVE  QuietsInv'
<1> DEFINE s == sync[p]
           q == Head(s.queue)
           c == [s EXCEPT !.queue = Tail(@), !.probe[q] = parity[MirrorOf[q]]]
<1>1. /\ Moves(p, c) /\ s.pc = "ask" /\ s.queue # <<>> /\ CallInv(s)
      /\ work' = work /\ parity' = parity
  BY DEF ReadParity, At, CallsInv, localVars, remoteVars
<1>2. /\ c.pc = "ask" /\ c.queue = Tail(s.queue) /\ c.quiet = s.quiet
      /\ c.snap = s.snap
      /\ c.probe = [s.probe EXCEPT ![q] = parity[MirrorOf[q]]]
      /\ DOMAIN s.probe = Repos
  BY <1>1 DEF CallInv, Fields
<1> HIDE DEF c
<1>3. IsRest(s)
  BY <1>1 DEF CallInv, Pushing
<1>4. /\ Pos(s) \in 1 .. Len(Order) /\ q = Order[Pos(s)]
      /\ Pos(c) = Pos(s) + 1
  BY <1>1, <1>2, <1>3, RestHead, RestGoesOn
<1>5. ASSUME s.quiet PROVE PushesNow(c, objs', parity', tmp')
  <2>1. \A i \in 1 .. Len(Order) :
           i < Pos(s) => s.probe[Order[i]] = parity[MirrorOf[Order[i]]]
    BY <1>1, <1>5, QuietNow DEF PushesNow
  <2>2. ASSUME NEW i \in 1 .. Len(Order), i < Pos(c)
        PROVE  c.probe[Order[i]] = parity[MirrorOf[Order[i]]]
    <3>1. Order[i] \in Repos
      BY OrderType
    <3>2. CASE Order[i] = q
      BY <1>2, <3>1, <3>2
    <3>3. CASE Order[i] # q
      <4>1. i < Pos(s)
        BY <1>4, <2>2, <3>3
      <4> QED
        BY <1>2, <2>1, <3>1, <3>3, <4>1
    <3> QED
      BY <3>2, <3>3
  <2> QED
    BY <1>1, <1>2, <2>2 DEF PushesNow
<1>6. c.quiet => QuietInv(c, work', tmp', objs', parity', head', touched',
                          script'[p])
  BY <1>1, <1>2, <1>5, QuietNow, PushQuiet DEF Snapped, Pushing
<1> QED
  BY <1>1, <1>6, QuietMove

LEMMA PlanBundlesQuiet ==
  ASSUME CallsInv, ReadsInv, QuietsInv, MirrorInv, NEW p \in Procs,
         PlanBundles(p)
  PROVE  QuietsInv'
<1> DEFINE s == sync[p]
           c == [s EXCEPT !.pc = "push", !.queue = Order]
<1>1. /\ Moves(p, c) /\ s.pc = "ask" /\ s.queue = <<>> /\ CallInv(s)
      /\ work' = work /\ objs' = objs /\ parity' = parity /\ tmp' = tmp
  BY DEF PlanBundles, At, CallsInv, localVars, remoteVars
<1>2. /\ c.pc = "push" /\ c.queue = Order /\ c.quiet = s.quiet
      /\ c.snap = s.snap /\ c.probe = s.probe
  BY <1>1 DEF CallInv, Fields
<1> HIDE DEF c
<1>3. \A i \in 1 .. Len(Order) : ~(i < Pos(c))
  BY <1>2, RestStarts, OrderType
<1>4. ASSUME s.quiet, NEW r \in Repos
      PROVE  s.probe[r] = parity[MirrorOf[r]]
  <2>1. PICK i \in 1 .. Len(Order) : Order[i] = r
    BY SyncAssumption
  <2>2. i < Pos(s)
    BY <1>1, RestEnds, OrderType DEF CallInv, Pushing
  <2> QED
    BY <1>1, <1>4, <2>1, <2>2, QuietNow DEF PushesNow
<1>5. s.quiet => PushesNow(c, objs, parity, tmp)
  BY <1>2, <1>3, <1>4 DEF PushesNow, MirrorInv, ParityHeld, Mirrors
<1>6. c.quiet => QuietInv(c, work', tmp', objs', parity', head', touched',
                          script'[p])
  BY <1>1, <1>2, <1>5, QuietNow, PushQuiet DEF Snapped, Pushing
<1> QED
  BY <1>1, <1>6, QuietMove

LEMMA SkipRepoQuiet ==
  ASSUME CallsInv, ReadsInv, QuietsInv, NEW p \in Procs, SkipRepo(p)
  PROVE  QuietsInv'
<1> DEFINE s == sync[p]
           r == Head(s.queue)
           c == [s EXCEPT !.queue = Tail(@)]
<1>1. /\ Moves(p, c) /\ s.pc = "push" /\ CallInv(s) /\ s.queue # <<>>
      /\ PlanOf(p, r) = "skip"
      /\ work' = work /\ objs' = objs /\ parity' = parity /\ tmp' = tmp
  BY DEF SkipRepo, At, CallsInv, localVars, remoteVars
<1>2. /\ c.pc = "push" /\ c.queue = Tail(s.queue) /\ c.quiet = s.quiet
      /\ c.snap = s.snap /\ c.probe = s.probe
  BY <1>1 DEF CallInv, Fields
<1> HIDE DEF c
<1>3. IsRest(s)
  BY <1>1 DEF CallInv, Pushing
<1>4. /\ Pos(s) \in 1 .. Len(Order)
      /\ r = Order[Pos(s)] /\ r \in Repos /\ Pos(c) = Pos(s) + 1
  BY <1>1, <1>2, <1>3, RestGoesOn
<1>5. ASSUME s.quiet PROVE PushesNow(c, objs, parity, tmp)
  <2>1. PushesNow(s, objs, parity, tmp)
    BY <1>5, QuietNow
  <2>2. s.probe[r] = s.snap[r]
    BY <1>1 DEF PlanOf, BundlePlan
  <2>3. Fits(s, parity, r)
    BY <1>1, <1>4, <2>1, <2>2 DEF PushesNow, Pushing, Fits
  <2>4. \A i \in 1 .. Len(Order) : i < Pos(c) => i < Pos(s) \/ i = Pos(s)
    BY <1>4, OrderType
  <2>5. \A i \in 1 .. Len(Order) : i < Pos(c) => Fits(c, parity, Order[i])
    BY <1>1, <1>2, <1>4, <2>1, <2>3, <2>4 DEF PushesNow, Pushing, Fits
  <2> QED
    BY <1>1, <1>2, <2>1, <2>5 DEF PushesNow, Pushing, Fits
<1>6. c.quiet => QuietInv(c, work', tmp', objs', parity', head', touched',
                          script'[p])
  BY <1>1, <1>2, <1>5, PushQuiet, QuietNow DEF Snapped, Pushing
<1> QED
  BY <1>1, <1>6, QuietMove

LEMMA SetTemporaryRefQuiet ==
  ASSUME CallsInv, ReadsInv, QuietsInv, VarType, NEW p \in Procs,
         SetTemporaryRef(p)
  PROVE  QuietsInv'
<1> DEFINE s == sync[p]
           r == Head(s.queue)
           c == [s EXCEPT !.pc = "pipe"]
<1>1. /\ Moves(p, c) /\ s.pc = "push" /\ CallInv(s) /\ s.queue # <<>>
      /\ tmp' = [tmp EXCEPT ![r] = s.snap[r]]
      /\ work' = work /\ objs' = objs /\ parity' = parity
  BY DEF SetTemporaryRef, At, CallsInv, remoteVars
<1>2. /\ c.pc = "pipe" /\ c.queue = s.queue /\ c.quiet = s.quiet
      /\ c.snap = s.snap /\ c.probe = s.probe
  BY <1>1 DEF CallInv, Fields
<1> HIDE DEF c
<1>3. r \in Repos /\ Pos(c) = Pos(s)
  BY <1>1, <1>2, RestHead DEF CallInv, Pushing, Pos
<1>4. tmp'[r] = s.snap[r]
  BY <1>1, <1>3 DEF VarType
<1>5. ASSUME s.quiet PROVE PushesNow(c, objs, parity, tmp')
  <2>1. PushesNow(s, objs, parity, tmp)
    BY <1>5, QuietNow
  <2> QED
    BY <1>1, <1>2, <1>3, <1>4, <2>1 DEF PushesNow, Pushing, Fits
<1>6. c.quiet => QuietInv(c, work', tmp', objs', parity', head', touched',
                          script'[p])
  BY <1>1, <1>2, <1>5, PushQuiet, QuietNow DEF Snapped, Pushing
<1> QED
  BY <1>1, <1>6, QuietMove

(* The bundle of an undisturbed sync is accepted.                          *)
LEMMA PipeBundleQuiet ==
  ASSUME CallsInv, ReadsInv, QuietsInv, MirrorInv, OneMirrorEach,
         NEW p \in Procs, PipeBundle(p)
  PROVE  QuietsInv'
<1> DEFINE s == sync[p]
           r == Head(s.queue)
           c == [s EXCEPT !.pc = "unref", !.good = Accepted(p, r)]
<1>1. /\ Moves(p, c) /\ s.pc = "pipe" /\ CallInv(s) /\ s.queue # <<>>
      /\ work' = work
  BY DEF PipeBundle, At, CallsInv, localVars, CallInv
<1>2. /\ c.pc = "unref" /\ c.queue = s.queue /\ c.quiet = s.quiet
      /\ c.snap = s.snap /\ c.probe = s.probe
  BY <1>1 DEF CallInv, Fields
<1>3. Accepted(p, r) => c.good
  BY <1>1 DEF CallInv, Fields
<1> HIDE DEF c
<1>4. r \in Repos /\ Pos(c) = Pos(s)
  BY <1>1, <1>2, RestHead DEF CallInv, Pushing, Pos
<1>5. ASSUME s.quiet PROVE PushesNow(c, objs', parity', tmp')
  <2>1. PushesNow(s, objs, parity, tmp)
    BY <1>5, QuietNow
  <2>2. Accepted(p, r)
    <3>1. tmp[r] = s.snap[r]
      BY <1>1, <2>1 DEF PushesNow
    <3>2. ASSUME PlanOf(p, r) = "delta"
          PROVE  s.base[r] \in objs[MirrorOf[r]]
      <4>1. s.base[r] # None /\ s.probe[r] = s.base[r]
        BY <3>2 DEF PlanOf, BundlePlan
      <4> QED
        BY <1>1, <1>4, <2>1, <4>1 DEF PushesNow, Pushing
    <3> QED
      BY <3>1, <3>2 DEF Accepted
  <2>3. Feeds(p, r)
    BY <1>1, <1>4, <2>2, BundleFeeds
  <2>4. ASSUME NEW q \in Repos
        PROVE  /\ objs[MirrorOf[q]] \subseteq objs'[MirrorOf[q]]
               /\ q = r => parity'[MirrorOf[q]] = s.snap[q]
               /\ q # r => parity'[MirrorOf[q]] = parity[MirrorOf[q]]
    <3>1. CASE q = r
      BY <2>3, <3>1 DEF Feeds
    <3>2. CASE q # r
      <4>1. MirrorOf[q] \in Mirrors \ {MirrorOf[r]}
        BY <1>4, <3>2 DEF OneMirrorEach, Mirrors
      <4> QED
        BY <2>3, <3>2, <4>1 DEF Feeds
    <3> QED
      BY <3>1, <3>2
  <2>5. ASSUME NEW q \in Repos
        PROVE  /\ \/ Fits(c, parity', q)
                  \/ parity'[MirrorOf[q]] = c.probe[q]
               /\ c.probe[q] # None => c.probe[q] \in objs'[MirrorOf[q]]
               /\ Fits(s, parity, q) \/ q = r => Fits(c, parity', q)
    BY <1>1, <1>2, <2>1, <2>4 DEF PushesNow, Pushing, Fits
  <2>6. ASSUME NEW i \in 1 .. Len(Order), i < Pos(c)
        PROVE  Fits(c, parity', Order[i])
    BY <1>1, <1>4, <2>1, <2>5, <2>6, OrderType DEF PushesNow, Pushing
  <2>7. c.good /\ Fits(c, parity', r)
    BY <1>3, <1>4, <2>2, <2>5
  <2> QED
    BY <1>2, <2>5, <2>6, <2>7 DEF PushesNow
<1>6. c.quiet => QuietInv(c, work', tmp', objs', parity', head', touched',
                          script'[p])
  BY <1>1, <1>2, <1>5, PushQuiet, QuietNow DEF Snapped, Pushing
<1> QED
  BY <1>1, <1>6, QuietMove

LEMMA DeleteTemporaryRefQuiet ==
  ASSUME CallsInv, ReadsInv, QuietsInv, NEW p \in Procs, DeleteTemporaryRef(p)
  PROVE  QuietsInv'
<1> DEFINE s == sync[p]
           r == Head(s.queue)
           c == [s EXCEPT !.pc = "push", !.queue = Tail(@)]
<1>1. /\ s.pc = "unref" /\ CallInv(s) /\ s.queue # <<>> /\ IsRest(s)
      /\ work' = work /\ objs' = objs /\ parity' = parity
  BY DEF DeleteTemporaryRef, At, CallsInv, CallInv, Pushing, remoteVars
<1>2. CASE s.good
  <2>1. Moves(p, c)
    BY <1>2 DEF DeleteTemporaryRef
  <2>2. /\ c.pc = "push" /\ c.queue = Tail(s.queue) /\ c.quiet = s.quiet
        /\ c.snap = s.snap /\ c.probe = s.probe
    BY <1>1 DEF CallInv, Fields
  <2> HIDE DEF c
  <2>3. /\ Pos(s) \in 1 .. Len(Order)
        /\ r = Order[Pos(s)] /\ r \in Repos /\ Pos(c) = Pos(s) + 1
    BY <1>1, <2>2, RestGoesOn
  <2>4. ASSUME s.quiet PROVE PushesNow(c, objs, parity, tmp')
    <3>1. PushesNow(s, objs, parity, tmp)
      BY <2>4, QuietNow
    <3>2. \A i \in 1 .. Len(Order) : i < Pos(c) => i < Pos(s) \/ i = Pos(s)
      BY <2>3, OrderType
    <3>3. \A i \in 1 .. Len(Order) : i < Pos(c) => Fits(c, parity, Order[i])
      BY <1>1, <2>2, <2>3, <3>1, <3>2 DEF PushesNow, Pushing, Fits
    <3> QED
      BY <1>1, <2>2, <3>1, <3>3 DEF PushesNow, Pushing, Fits
  <2>5. c.quiet => QuietInv(c, work', tmp', objs', parity', head', touched',
                            script'[p])
    BY <1>1, <2>2, <2>4, PushQuiet, QuietNow DEF Snapped, Pushing
  <2> QED
    BY <2>1, <2>5, QuietMove
<1>3. CASE ~s.good
  <2>1. Moves(p, Ended(p, "error"))
    BY <1>3 DEF DeleteTemporaryRef
  <2>2. ~s.quiet
    BY <1>1, <1>3, QuietNow DEF PushesNow
  <2> QED
    BY <2>1, <2>2, EndQuiet
<1> QED
  BY <1>2, <1>3

(* The script begins with every repository still to do.                    *)
LEMMA AllToDo ==
  ASSUME NEW r \in Repos
  PROVE  \E i \in 1 .. Len(Reverse(Order)) : Reverse(Order)[i] = r
<1>1. Order \in Seq(Repos) /\ Len(Order) \in Nat
  BY SyncAssumption
<1>2. PICK k \in 1 .. Len(Order) : Order[k] = r
  BY SyncAssumption
<1> DEFINE n == Len(Order)
           i == n - k + 1
<1>3. i \in 1 .. n /\ n - i + 1 = k
  BY <1>1
<1>4. Reverse(Order) = [j \in 1 .. n |-> Order[n - j + 1]]
  BY DEF Reverse
<1>5. Len(Reverse(Order)) = n
  <2>1. \A j \in 1 .. n : Order[n - j + 1] \in Repos
    BY <1>1
  <2> QED
    BY <1>1, <1>4, <2>1
<1> HIDE DEF i
<1>6. Reverse(Order)[i] = Order[k]
  BY <1>3, <1>4
<1> QED
  BY <1>2, <1>3, <1>5, <1>6

LEMMA SendScriptQuiet ==
  ASSUME CallsInv, ReadsInv, QuietsInv, VarType, NEW p \in Procs,
         SendScript(p)
  PROVE  QuietsInv'
<1> DEFINE s == sync[p]
           c == [s EXCEPT !.pc = "materialize"]
<1>1. /\ Moves(p, c) /\ s.pc = "push" /\ CallInv(s) /\ s.queue = <<>>
      /\ script' = [script EXCEPT ![p] = Reverse(Order)]
      /\ work' = work /\ parity' = parity
  BY DEF SendScript, At, CallsInv, localVars
<1>2. /\ c.pc = "materialize" /\ c.quiet = s.quiet /\ c.snap = s.snap
  BY <1>1 DEF CallInv, Fields
<1> HIDE DEF c
<1>3. script'[p] = Reverse(Order)
  BY <1>1 DEF VarType
<1>4. ASSUME s.quiet, NEW r \in Repos PROVE Fits(c, parity, r)
  <2>1. PICK i \in 1 .. Len(Order) : Order[i] = r
    BY SyncAssumption
  <2>2. i < Pos(s)
    BY <1>1, RestEnds, OrderType DEF CallInv, Pushing
  <2> QED
    BY <1>1, <1>2, <1>4, <2>1, <2>2, QuietNow DEF PushesNow, Pushing, Fits
<1>5. s.quiet => ScriptNow(c, parity', head', touched', script'[p])
  BY <1>1, <1>3, <1>4, AllToDo DEF ScriptNow
<1>6. s.quiet => SnapsNow(c, work')
  BY <1>1, <1>2, QuietNow, SnapsKeep DEF Snapped
<1>7. c.quiet => QuietInv(c, work', tmp', objs', parity', head', touched',
                          script'[p])
  BY <1>2, <1>5, <1>6 DEF QuietInv, PushesNow, Pushing, SeenNow, EndsWell
<1> QED
  BY <1>1, <1>7, QuietMove

(* Every parity ref is there, and one repository less is to do.            *)
LEMMA MaterializeRepoQuiet ==
  ASSUME CallsInv, ReadsInv, QuietsInv, VarType, ~IsSeq(None),
         NEW p \in Procs, MaterializeRepo(p)
  PROVE  QuietsInv'
<1> DEFINE s == sync[p]
           r == Head(script[p])
<1>1. /\ script[p] # <<>> /\ script[p] \in Seq(Repos) /\ DOMAIN script = Procs
      /\ CallInv(s) /\ Typed(s) /\ DOMAIN head = Repos
      /\ work' = work /\ parity' = parity
      /\ s.pc \in {"idle", "ended", "materialize"}
  BY TypedNow
  DEF MaterializeRepo, VarType, CallsInv, localVars, ReadsInv, Scriptless,
      CallInv, Pcs
<1>2. r \in Repos
  BY <1>1
<1>3. CASE parity[MirrorOf[r]] # None
  <2>1. /\ head' = [head EXCEPT ![r] = parity[MirrorOf[r]]]
        /\ touched' = [touched EXCEPT ![r] = FALSE]
        /\ script' = [script EXCEPT ![p] = Tail(@)]
    BY <1>3 DEF MaterializeRepo
  <2>2. /\ sync'[p] = s
        /\ \A q \in Procs \ {p} : sync'[q].quiet = FALSE
    BY <1>3, CheckoutRead DEF Kept
  <2>3. ASSUME s.quiet
        PROVE  QuietInv(s, work', tmp', objs', parity', head', touched',
                        script'[p])
    <3>1. CASE s.pc = "materialize"
      <4>1. /\ ScriptNow(s, parity, head, touched, script[p])
            /\ SnapsNow(s, work)
        BY <2>3, QuietNow
      <4>2. script'[p] = Tail(script[p])
        BY <1>1, <2>1
      <4>3. ASSUME NEW q \in Repos
            PROVE  \/ Out(s, head', touched', q)
                   \/ \E i \in 1 .. Len(script'[p]) : script'[p][i] = q
        <5>1. CASE q = r
          <6>1. head'[q] = parity[MirrorOf[q]] /\ touched'[q] = FALSE
            BY <1>1, <1>2, <2>1, <5>1 DEF VarType
          <6> QED
            BY <3>1, <4>1, <6>1 DEF ScriptNow, Fits, Out
        <5>2. CASE q # r /\ Out(s, head, touched, q)
          BY <2>1, <5>2 DEF Out, VarType, ReadsInv
        <5>3. CASE q # r /\ \E i \in 1 .. Len(script[p]) : script[p][i] = q
          <6>1. PICK i \in 1 .. Len(script[p]) : script[p][i] = q
            BY <5>3
          <6>2. i # 1
            BY <1>1, <5>3, <6>1
          <6>3. /\ i - 1 \in 1 .. Len(Tail(script[p]))
                /\ Tail(script[p])[i - 1] = script[p][i]
            BY <1>1, <6>2
          <6> QED
            BY <4>2, <6>1, <6>3
        <5> QED
          BY <3>1, <4>1, <5>1, <5>2, <5>3 DEF ScriptNow
      <4>4. ScriptNow(s, parity', head', touched', script'[p])
        BY <1>1, <3>1, <4>1, <4>3 DEF ScriptNow
      <4> QED
        BY <1>1, <3>1, <4>1, <4>4
        DEF QuietInv, PushesNow, Pushing, SeenNow, EndsWell
    <3>2. CASE s.pc # "materialize"
      <4>1. EndsWell(s)
        BY <2>3, QuietNow
      <4> QED
        BY <1>1, <3>2, <4>1
        DEF QuietInv, SnapsNow, Snapped, PushesNow, Pushing, ScriptNow,
            SeenNow, EndsWell
    <3> QED
      BY <3>1, <3>2
  <2> SUFFICES ASSUME NEW q \in Procs, sync'[q].quiet
               PROVE  QuietInv(sync'[q], work', tmp', objs', parity', head',
                               touched', script'[q])
    BY DEF QuietsInv
  <2>4. q = p
    BY <2>2
  <2> QED
    BY <2>2, <2>3, <2>4
<1>4. CASE parity[MirrorOf[r]] = None
  <2>1. Moves(p, IF At(p, "materialize") THEN Ended(p, "error") ELSE s)
    BY <1>4 DEF MaterializeRepo
  <2>2. CASE At(p, "materialize")
    <3>1. Moves(p, Ended(p, "error"))
      BY <2>1, <2>2
    <3>2. s.quiet => parity[MirrorOf[r]] = s.snap[r]
      BY <1>2, <2>2, QuietNow DEF ScriptNow, Fits, At
    <3>3. s.snap[r] # None
      BY <1>1, <1>2, <2>2 DEF CallInv, Snapped, Built, Line, At
    <3>4. ~s.quiet
      BY <1>4, <3>2, <3>3
    <3> QED
      BY <3>1, <3>4, EndQuiet
  <2>3. CASE ~At(p, "materialize")
    <3>1. Moves(p, s) /\ s.pc \in {"idle", "ended"}
      BY <1>1, <2>1, <2>3 DEF At
    <3>2. s.quiet => EndsWell(s)
      BY QuietNow
    <3>3. s.quiet => QuietInv(s, work', tmp', objs', parity', head', touched',
                              script'[p])
      BY <3>1, <3>2
      DEF QuietInv, SnapsNow, Snapped, PushesNow, Pushing, ScriptNow,
          SeenNow, EndsWell
    <3> HIDE DEF s
    <3>4. Moves(p, s)
      BY <3>1
    <3> QED
      BY <3>3, <3>4, QuietMove
  <2> QED
    BY <2>2, <2>3
<1> QED
  BY <1>3, <1>4

LEMMA ScriptReturnsQuiet ==
  ASSUME CallsInv, ReadsInv, QuietsInv, NEW p \in Procs, ScriptReturns(p)
  PROVE  QuietsInv'
<1> DEFINE s == sync[p]
           c == [s EXCEPT !.pc = "heads", !.fast = FALSE, !.good = TRUE,
                          !.queue = Order, !.seen = [r \in Repos |-> None]]
<1>1. /\ Moves(p, c) /\ CallInv(s) /\ s.pc = "materialize"
      /\ head' = head /\ touched' = touched /\ work' = work
      /\ script[p] = <<>>
  BY DEF ScriptReturns, At, CallsInv, localVars, remoteVars
<1>2. /\ c.pc = "heads" /\ c.good = TRUE /\ c.queue = Order
      /\ c.quiet = s.quiet /\ c.snap = s.snap
  BY <1>1 DEF CallInv, Fields
<1> HIDE DEF c
<1>3. \A i \in 1 .. Len(Order) : ~(i < Pos(c))
  BY <1>2, RestStarts, OrderType
<1>4. ASSUME s.quiet, NEW r \in Repos PROVE Out(c, head, touched, r)
  <2>1. ~(\E i \in 1 .. Len(script[p]) : script[p][i] = r)
    BY <1>1
  <2>2. Out(s, head, touched, r)
    BY <1>1, <1>4, <2>1, QuietNow DEF ScriptNow
  <2> QED
    BY <1>2, <2>2 DEF Out
<1>5. s.quiet => SeenNow(c, head', touched')
  BY <1>1, <1>2, <1>3, <1>4 DEF SeenNow
<1>6. s.quiet => SnapsNow(c, work')
  BY <1>1, <1>2, QuietNow, SnapsKeep DEF Snapped
<1>7. c.quiet => QuietInv(c, work', tmp', objs', parity', head', touched',
                          script'[p])
  BY <1>2, <1>5, <1>6 DEF QuietInv, PushesNow, Pushing, ScriptNow, EndsWell
<1> QED
  BY <1>1, <1>7, QuietMove

(* From one read of a verification to the next.                            *)
LEMMA ReadQuiet ==
  ASSUME CallsInv, ReadsInv, QuietsInv, NEW p \in Procs, NEW c, Moves(p, c),
         sync[p].pc \in {"heads", "status"}, c.pc \in {"heads", "status"},
         c.snap = sync[p].snap, c.quiet = sync[p].quiet, work' = work,
         sync[p].quiet => SeenNow(c, head', touched')
  PROVE  QuietsInv'
<1>1. sync[p].quiet => SnapsNow(c, work')
  BY QuietNow, SnapsKeep DEF Snapped
<1>2. c.quiet => QuietInv(c, work', tmp', objs', parity', head', touched',
                          script'[p])
  BY <1>1 DEF QuietInv, PushesNow, Pushing, ScriptNow, EndsWell
<1> QED
  BY <1>2, QuietMove

LEMMA ReadHeadQuiet ==
  ASSUME CallsInv, ReadsInv, QuietsInv, NEW p \in Procs, ReadHead(p)
  PROVE  QuietsInv'
<1> DEFINE s == sync[p]
           r == Head(s.queue)
           c == [s EXCEPT !.pc = "status", !.seen[r] = head[r],
                          !.agreed = @ \/ Agree(p)]
<1>1. /\ Moves(p, c) /\ s.pc = "heads" /\ CallInv(s) /\ Typed(s)
      /\ head' = head /\ touched' = touched /\ work' = work
      /\ IsRest(s) /\ s.queue # <<>>
  BY TypedNow DEF ReadHead, At, CallsInv, localVars, remoteVars, ReadInv
<1>2. /\ c.good = s.good /\ c.fast = s.fast /\ c.quiet = s.quiet
      /\ c.snap = s.snap /\ c.seen = [s.seen EXCEPT ![r] = head[r]]
      /\ c.pc = "status" /\ c.queue = s.queue
  BY <1>1 DEF CallInv, Fields
<1> HIDE DEF c
<1>3. /\ Pos(s) \in 1 .. Len(Order) /\ r = Order[Pos(s)] /\ r \in Repos
      /\ Pos(c) = Pos(s)
  BY <1>1, <1>2, RestHead DEF Pos
<1>4. DOMAIN s.seen = Repos
  BY <1>1 DEF Typed, IsMap
<1>5. ASSUME s.quiet, ~c.fast
      PROVE  SeenNow(c, head, touched)
  <2>1. SeenNow(s, head, touched)
    BY <1>5, QuietNow
  <2>2. /\ s.good /\ \A q \in Repos : Out(s, head, touched, q)
        /\ \A i \in 1 .. Len(Order) :
              i < Pos(s) => s.seen[Order[i]] = s.snap[Order[i]]
    BY <1>1, <1>2, <1>5, <2>1 DEF SeenNow
  <2>3. ASSUME NEW i \in 1 .. Len(Order), i < Pos(c) \/ i = Pos(c)
        PROVE  c.seen[Order[i]] = c.snap[Order[i]]
    <3>1. Order[i] \in Repos
      BY OrderType
    <3>2. CASE Order[i] = r
      BY <1>2, <1>3, <1>4, <2>2, <3>2 DEF Out
    <3>3. CASE Order[i] # r
      BY <1>2, <1>3, <1>4, <2>2, <2>3, <3>1, <3>3
    <3> QED
      BY <3>2, <3>3
  <2> QED
    BY <1>2, <2>2, <2>3 DEF SeenNow, Out
<1>6. s.quiet => SeenNow(c, head', touched')
  BY <1>1, <1>5 DEF SeenNow
<1> QED
  BY <1>1, <1>2, <1>6, ReadQuiet

LEMMA ReadStatusQuiet ==
  ASSUME CallsInv, ReadsInv, QuietsInv, ~IsSeq(None), NEW p \in Procs,
         ReadStatus(p)
  PROVE  QuietsInv'
<1> DEFINE s == sync[p]
           r == Head(s.queue)
           c == [s EXCEPT
                    !.pc = IF Len(s.queue) > 1 THEN "heads" ELSE "status",
                    !.queue = Tail(@), !.good = @ /\ ~Dirty(r),
                    !.agreed = @ \/ Agree(p)]
<1>1. /\ Moves(p, c) /\ s.pc = "status" /\ CallInv(s)
      /\ head' = head /\ touched' = touched /\ work' = work
      /\ IsRest(s) /\ s.queue # <<>>
  BY TypedNow DEF ReadStatus, At, CallsInv, localVars, remoteVars, ReadInv
<1>2. /\ c.fast = s.fast /\ c.quiet = s.quiet
      /\ c.snap = s.snap /\ c.seen = s.seen /\ c.queue = Tail(s.queue)
      /\ c.pc = IF Len(s.queue) > 1 THEN "heads" ELSE "status"
  BY <1>1 DEF CallInv, Fields
<1>3. s.good /\ ~Dirty(r) => c.good
  <2>1. c.good = (s.good /\ ~Dirty(r))
    BY <1>1 DEF CallInv, Fields
  <2> QED
    BY <2>1
<1> HIDE DEF c
<1>4. /\ Pos(s) \in 1 .. Len(Order) /\ r = Order[Pos(s)] /\ r \in Repos
      /\ Pos(c) = Pos(s) + 1 /\ IsRest(c)
  BY <1>1, <1>2, RestGoesOn
<1>5. c.pc = "status" => c.queue = <<>> /\ Pos(c) = Len(Order) + 1
  BY <1>1, <1>2, <1>4, LastIsRoot, RestEnds
<1>6. ASSUME s.quiet, ~c.fast
      PROVE  SeenNow(c, head, touched)
  <2>1. SeenNow(s, head, touched)
    BY <1>6, QuietNow
  <2>2. /\ s.good /\ \A q \in Repos : Out(s, head, touched, q)
        /\ \A i \in 1 .. Len(Order) :
              i < Pos(s) \/ i = Pos(s) => s.seen[Order[i]] = s.snap[Order[i]]
    BY <1>1, <1>2, <1>6, <2>1 DEF SeenNow
  <2>3. ~Dirty(r)
    <3>1. \A q \in Repos : Built(s, q)
      BY <1>1 DEF CallInv, Snapped
    <3> QED
      BY <1>4, <2>2, <3>1, CleanAtSnapshot DEF Out
  <2>4. ASSUME NEW i \in 1 .. Len(Order),
               i < Pos(c) \/ (i = Pos(c) /\ c.pc = "status")
        PROVE  c.seen[Order[i]] = c.snap[Order[i]]
    <3>1. i < Pos(s) \/ i = Pos(s)
      BY <1>4, <1>5, <2>4, OrderType
    <3> QED
      BY <1>2, <2>2, <3>1
  <2> QED
    BY <1>2, <1>3, <2>2, <2>3, <2>4 DEF SeenNow, Out
<1>7. s.quiet => SeenNow(c, head', touched')
  BY <1>1, <1>6 DEF SeenNow
<1>8. c.pc \in {"heads", "status"}
  BY <1>2
<1> QED
  BY <1>1, <1>2, <1>7, <1>8, ReadQuiet

LEMMA AcceptQuiet ==
  ASSUME CallsInv, ReadsInv, QuietsInv, NEW p \in Procs, Accept(p)
  PROVE  QuietsInv'
<1> DEFINE s == sync[p]
           c == [s EXCEPT !.pc = "save"]
<1>1. s.pc = "status" /\ CallInv(s) /\ work' = work
  BY DEF Accept, At, CallsInv, localVars
<1>2. CASE s.fast
  <2>1. Moves(p, Ended(p, "no_change"))
    BY <1>2 DEF Accept
  <2> QED
    BY <2>1, EndQuiet
<1>3. CASE ~s.fast
  <2>1. Moves(p, c)
    BY <1>3 DEF Accept
  <2>2. c.pc = "save" /\ c.quiet = s.quiet /\ c.snap = s.snap
    BY <1>1 DEF CallInv, Fields
  <2> HIDE DEF c
  <2>3. s.quiet => SnapsNow(c, work')
    BY <1>1, <2>2, QuietNow, SnapsKeep DEF Snapped
  <2>4. c.quiet => QuietInv(c, work', tmp', objs', parity', head', touched',
                            script'[p])
    BY <2>2, <2>3, QuietElsewhere
  <2> QED
    BY <2>1, <2>4, QuietMove
<1> QED
  BY <1>2, <1>3

(* Only the fast path of an undisturbed sync is refused.                   *)
LEMMA RefuseQuiet ==
  ASSUME CallsInv, ReadsInv, QuietsInv, ~IsSeq(None), NEW p \in Procs,
         Refuse(p)
  PROVE  QuietsInv'
<1> DEFINE s == sync[p]
<1>1. /\ Moves(p, Reject(p)) /\ s.pc \in {"heads", "status"}
      /\ CallInv(s) /\ Typed(s) /\ work' = work /\ IsRest(s)
      /\ s.pc = "heads" => s.queue # <<>>
  BY TypedNow DEF Refuse, At, CallsInv, localVars, ReadInv
<1>2. /\ Reject(p).quiet = s.quiet /\ Reject(p).snap = s.snap
      /\ s.fast => Reject(p).pc = "probe"
  BY <1>1, RejectTyped
<1>3. ASSUME s.quiet, ~s.fast PROVE FALSE
  <2>1. /\ s.good /\ \A r \in Repos : Out(s, head, touched, r)
        /\ \A i \in 1 .. Len(Order) :
              i < Pos(s) => s.seen[Order[i]] = s.snap[Order[i]]
        /\ \A r \in Repos : Last(s.snap[r]).content = work[r]
    BY <1>1, <1>3, QuietNow DEF SeenNow, SnapsNow, Snapped
  <2>2. CASE s.pc = "status"
    <3>1. s.queue = <<>> /\ (~Matches(p) \/ SampleMayDiffer(p))
      BY <2>2 DEF Refuse, At
    <3>2. ~SampleMayDiffer(p)
      BY <2>1 DEF SampleMayDiffer
    <3>3. ASSUME NEW r \in Repos PROVE s.seen[r] = s.snap[r]
      <4>1. PICK i \in 1 .. Len(Order) : Order[i] = r
        BY SyncAssumption
      <4>2. i < Pos(s)
        BY <1>1, <3>1, RestEnds, OrderType
      <4> QED
        BY <2>1, <4>1, <4>2
    <3>4. s.seen = s.snap
      BY <1>1, <3>3 DEF Typed, IsMap
    <3> QED
      BY <2>1, <3>1, <3>2, <3>4 DEF Matches
  <2>3. CASE s.pc = "heads"
    <3>1. head[Head(s.queue)] = None
      BY <2>3 DEF Refuse, At
    <3>2. Head(s.queue) \in Repos
      BY <1>1, <2>3, RestHead
    <3>3. s.snap[Head(s.queue)] # None
      BY <1>1, <3>2 DEF CallInv, Snapped, Built, Line
    <3> QED
      BY <2>1, <3>1, <3>2, <3>3 DEF Out
  <2> QED
    BY <1>1, <2>2, <2>3
<1> DEFINE c == Reject(p)
<1>4. Moves(p, c) /\ c.quiet = s.quiet /\ c.snap = s.snap
  BY <1>1, <1>2
<1>5. s.quiet => c.pc = "probe"
  BY <1>2, <1>3
<1> HIDE DEF c
<1>6. s.quiet => SnapsNow(c, work')
  BY <1>1, <1>4, <1>5, QuietNow, SnapsKeep DEF Snapped
<1>7. c.quiet => QuietInv(c, work', tmp', objs', parity', head', touched',
                          script'[p])
  BY <1>4, <1>5, <1>6, QuietElsewhere
<1> QED
  BY <1>4, <1>7, QuietMove

LEMMA IdleQuiet ==
  ASSUME CallsInv, ReadsInv, NEW p \in Procs, Finish(p) \/ Killed(p)
  PROVE  QuietsInv'
<1>1. Moves(p, IdleSync)
  BY DEF Finish, Killed
<1>2. IdleSync.quiet = FALSE
  BY DEF IdleSync
<1> QED
  BY <1>1, <1>2, QuietMove

LEMMA SshFailsQuiet ==
  ASSUME CallsInv, ReadsInv, NEW p \in Procs, SshFails(p)
  PROVE  QuietsInv'
<1>1. sync'[p].quiet = FALSE
  BY SshFailsRead
<1>2. ASSUME NEW q \in Procs \ {p} PROVE sync'[q].quiet = FALSE
  <2>1. PICK c : Moves(p, c)
    BY DEF SshFails
  <2> QED
    BY <1>2, <2>1, OthersKept DEF Kept
<1> QED
  BY <1>1, <1>2 DEF QuietsInv

LEMMA QuietsStep ==
  ASSUME ClosedInv, ReadsInv, QuietsInv, [Next]_vars, OneMirrorEach,
         ~IsSeq(None)
  PROVE  QuietsInv'
<1>1. CallsInv /\ VarType /\ MirrorInv
  BY DEF ClosedInv
<1>2. ASSUME NEW p \in Procs, Step(p) PROVE QuietsInv'
  <2>1. CASE SaveState(p)
    <3>1. Moves(p, Ended(p, "ready"))
      BY <2>1 DEF SaveState
    <3> QED
      BY <1>1, <3>1, EndQuiet
  <2>2. CASE ~SaveState(p)
    BY <1>1, <1>2, <2>2, StartQuiet, EnsureUpQuiet, BuildSnapshotQuiet,
       CompareQuiet, QueryParityQuiet, ReadParityQuiet, PlanBundlesQuiet,
       SkipRepoQuiet, SetTemporaryRefQuiet,
       PipeBundleQuiet, DeleteTemporaryRefQuiet, SendScriptQuiet,
       MaterializeRepoQuiet, ScriptReturnsQuiet, ReadHeadQuiet,
       ReadStatusQuiet, AcceptQuiet, RefuseQuiet, IdleQuiet DEF Step
  <2> QED
    BY <2>1, <2>2
<1>3. ASSUME NEW p \in Procs, SshFails(p) \/ Killed(p) PROVE QuietsInv'
  BY <1>1, <1>3, SshFailsQuiet, IdleQuiet
<1>4. CASE UNCHANGED vars
  BY <1>4 DEF vars, localVars, remoteVars, QuietsInv
<1>5. CASE \/ TakeDown \/ BringUp
           \/ \E r \in Repos : EditFiles(r) \/ PruneObjects(r)
                               \/ TouchRemote(r)
  <2>1. \A q \in Procs : sync'[q].quiet = FALSE
    BY <1>1, <1>5, TakeDownRead, OutsideRead
  <2> QED
    BY <2>1 DEF QuietsInv
<1> QED
  BY <1>2, <1>3, <1>4, <1>5 DEF Next

(* A sync that nothing disturbs while it runs succeeds, for any tree of    *)
(* repositories with a mirror each, and whatever earlier syncs, killed or  *)
(* failed at any point, edits, prunes, changes of the remote side and      *)
(* downs have left behind.  (None is not a commit.)                        *)
THEOREM QuietSucceeds ==
  ASSUME OneMirrorEach, ~IsSeq(None)
  PROVE  Spec => []QuietSyncSucceeds
<1>1. Init => ClosedInv /\ ReadsInv /\ QuietsInv
  <2>1. \A p \in Procs : Init => sync[p].quiet = FALSE
    BY DEF Init, IdleSync
  <2> QED
    BY <2>1, StartsEmpty, ReadsStart DEF CompleteInv, QuietsInv
<1>2. ClosedInv /\ ReadsInv /\ QuietsInv /\ [Next]_vars
         => ClosedInv' /\ ReadsInv' /\ QuietsInv'
  BY ClosedStep, ReadsStep, QuietsStep
<1>3. QuietsInv => QuietSyncSucceeds
  BY DEF QuietsInv, QuietInv, EndsWell, QuietSyncSucceeds, At
<1> QED
  BY <1>1, <1>2, <1>3, PTL DEF Spec
=============================================================================
