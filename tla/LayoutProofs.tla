---------------------------- MODULE LayoutProofs ----------------------------
(***************************************************************************)
(* What `remote' finds above and below the current directory, in every     *)
(* file system: the machine registered nearest, every repository of the    *)
(* workspace, and a tree of them in which each is mounted once.            *)
(***************************************************************************)
EXTENDS Layout, SequenceTheorems, WellFoundedInduction, TLAPS

-----------------------------------------------------------------------------
(* Paths.                                                                  *)

LEMMA PrefixMeans ==
  ASSUME NEW p \in Paths, NEW q \in Paths
  PROVE  /\ Len(p) \in Nat /\ Len(q) \in Nat
         /\ IsPrefix(p, q) <=> /\ Len(p) <= Len(q)
                               /\ \A i \in 1 .. Len(p) : p[i] = q[i]
<1>1. p \in Seq(Names) /\ q \in Seq(Names) /\ Len(p) \in Nat /\ Len(q) \in Nat
  BY LayoutAssumption, LenProperties
<1>2. /\ SubSeq(p, 1, Len(p)) = [i \in 1 .. Len(p) |-> p[i]]
      /\ Len(p) <= Len(q) => SubSeq(q, 1, Len(p)) = [i \in 1 .. Len(p) |-> q[i]]
  BY <1>1
<1> QED
  BY <1>1, <1>2 DEF IsPrefix

LEMMA SamePath ==
  ASSUME NEW p \in Paths, NEW q \in Paths, IsPrefix(p, q), Len(q) <= Len(p)
  PROVE  p = q
<1>1. p \in Seq(Names) /\ q \in Seq(Names)
  BY LayoutAssumption
<1>2. Len(p) = Len(q) /\ \A i \in 1 .. Len(p) : p[i] = q[i]
  BY PrefixMeans
<1> QED
  BY <1>1, <1>2, SeqEqual

LEMMA PathOrder ==
  ASSUME NEW p \in Paths, NEW q \in Paths, NEW r \in Paths
  PROVE  /\ IsPrefix(p, p)
         /\ IsPrefix(p, q) /\ IsPrefix(q, r) => IsPrefix(p, r)
         /\ IsPrefix(p, q) /\ IsPrefix(q, p) => p = q
         /\ IsPrefix(p, r) /\ IsPrefix(q, r) /\ Len(p) <= Len(q) => IsPrefix(p, q)
<1>1. IsPrefix(p, p)
  BY PrefixMeans
<1>2. ASSUME IsPrefix(p, q), IsPrefix(q, r) PROVE IsPrefix(p, r)
  BY <1>2, PrefixMeans
<1>3. ASSUME IsPrefix(p, q), IsPrefix(q, p) PROVE p = q
  BY <1>3, PrefixMeans, SamePath
<1>4. ASSUME IsPrefix(p, r), IsPrefix(q, r), Len(p) <= Len(q) PROVE IsPrefix(p, q)
  BY <1>4, PrefixMeans
<1> QED
  BY <1>1, <1>2, <1>3, <1>4

LEMMA LeastNatural ==
  ASSUME NEW S \in SUBSET Nat, S # {}
  PROVE  \E m \in S : \A k \in S : m <= k
<1> DEFINE R == OpToRel(<, Nat)
<1>1. IsWellFoundedOn(R, Nat)
  BY NatLessThanWellFounded
<1>2. \A x, y \in Nat : <<x, y>> \in R <=> x < y
  BY DEF OpToRel
<1> HIDE DEF R
<1>3. PICK m \in S : \A y \in S : ~(<<y, m>> \in R)
  BY <1>1, WFMin
<1>4. \A k \in S : m \in Nat /\ k \in Nat /\ ~(k < m)
  BY <1>2, <1>3
<1>5. \A k \in S : m <= k
  BY <1>4
<1> QED
  BY <1>5

(* Whatever is bounded and there has a greatest element.                   *)
LEMMA GreatestNatural ==
  ASSUME NEW n \in Nat, NEW S \in SUBSET (0 .. n), S # {}
  PROVE  \E m \in S : \A k \in S : k <= m
<1> DEFINE T == {n - k : k \in S}
<1>0. \A k \in S : k \in Nat /\ n - k \in Nat
  OBVIOUS
<1>1. T \in SUBSET Nat /\ T # {}
  BY <1>0
<1>2. PICK t \in T : \A u \in T : t <= u
  <2> HIDE DEF T
  <2> QED
    BY <1>1, LeastNatural
<1>3. PICK m \in S : t = n - m
  BY <1>2
<1>4. \A k \in S : n - m <= n - k
  BY <1>2, <1>3
<1> QED
  BY <1>0, <1>4

LEMMA DeepestIs ==
  ASSUME NEW p \in Paths, NEW S \in SUBSET Above(p), S # {}
  PROVE  /\ Deepest(S) \in S
         /\ \A o \in S : Len(o) <= Len(Deepest(S))
<1>1. \A q \in S : q \in Paths /\ Len(q) \in 0 .. Len(p)
  BY PrefixMeans DEF Above
<1> DEFINE T == {Len(q) : q \in S}
<1>2. T \in SUBSET (0 .. Len(p)) /\ T # {} /\ Len(p) \in Nat
  BY <1>1, PrefixMeans
<1>3. PICK m \in T : \A k \in T : k <= m
  <2> HIDE DEF T
  <2> QED
    BY <1>2, GreatestNatural
<1>4. \E q \in S : \A o \in S : Len(o) <= Len(q)
  BY <1>3
<1> QED
  BY <1>4 DEF Deepest

LEMMA NearestIs ==
  ASSUME NEW p \in Paths, NEW S
  PROVE  /\ Nearest(p, S) = None <=> Above(p) \cap S = {}
         /\ Nearest(p, S) # None =>
               /\ Nearest(p, S) \in Above(p) \cap S
               /\ \A o \in Above(p) \cap S : Len(o) <= Len(Nearest(p, S))
<1>1. Above(p) \cap S \in SUBSET Above(p) /\ Above(p) \subseteq Paths
  BY DEF Above
<1>2. None \notin Paths
  BY LayoutAssumption
<1> QED
  BY <1>1, <1>2, DeepestIs DEF Nearest

LEMMA NearestOnly ==
  ASSUME NEW p \in Paths, NEW S, NEW u \in Above(p) \cap S,
         \A o \in Above(p) \cap S : Len(o) <= Len(u)
  PROVE  Nearest(p, S) = u
<1> DEFINE n == Nearest(p, S)
<1>1. n \in Above(p) \cap S /\ Len(u) <= Len(n) /\ Len(n) <= Len(u)
  BY NearestIs
<1>2. n \in Paths /\ u \in Paths /\ IsPrefix(n, p) /\ IsPrefix(u, p)
  BY <1>1 DEF Above
<1> QED
  BY <1>1, <1>2, PathOrder

LEMMA LastInIs ==
  ASSUME NEW list \in Seq(Aliases), NEW a, Contains(list, a)
  PROVE  /\ LastIn(list, a) \in DOMAIN list /\ LastIn(list, a) \in Nat
         /\ list[LastIn(list, a)] = a
         /\ \A k \in DOMAIN list : list[k] = a => k <= LastIn(list, a)
<1> DEFINE S == {i \in DOMAIN list : list[i] = a}
<1>1. Len(list) \in Nat /\ DOMAIN list = 1 .. Len(list)
  BY LenProperties
<1>2. S \in SUBSET (0 .. Len(list)) /\ S # {}
  BY <1>1 DEF Contains
<1>3. PICK m \in S : \A k \in S : k <= m
  <2> HIDE DEF S
  <2> QED
    BY <1>1, <1>2, GreatestNatural
<1>4. \E i \in DOMAIN list : /\ list[i] = a
                             /\ \A k \in DOMAIN list : list[k] = a => k <= i
  BY <1>3
<1> QED
  BY <1>1, <1>4 DEF LastIn

-----------------------------------------------------------------------------
(* The stack.                                                              *)

LEMMA TopIs ==
  ASSUME frames \in Seq(Frame), frames # <<>>
  PROVE  /\ Len(frames) \in Nat \ {0} /\ DOMAIN frames = 1 .. Len(frames)
         /\ Top = frames[Len(frames)] /\ Top \in Frame
BY DEF Top, Last

LEMMA PutTop ==
  ASSUME frames \in Seq(Frame), frames # <<>>, NEW new \in Frame,
         frames' = [frames EXCEPT ![Len(frames)] = new]
  PROVE  /\ frames' \in Seq(Frame) /\ Len(frames') = Len(frames)
         /\ DOMAIN frames' = DOMAIN frames
         /\ \A i \in DOMAIN frames :
               frames'[i] = IF i = Len(frames) THEN new ELSE frames[i]
BY TopIs

LEMMA PushFrame ==
  ASSUME frames \in Seq(Frame), frames # <<>>, NEW old \in Frame, NEW new \in Frame,
         frames' = Append([frames EXCEPT ![Len(frames)] = old], new)
  PROVE  /\ frames' \in Seq(Frame) /\ Len(frames') = Len(frames) + 1
         /\ DOMAIN frames' = DOMAIN frames \cup {Len(frames) + 1}
         /\ \A i \in DOMAIN frames' :
               frames'[i] = IF i = Len(frames) + 1 THEN new
                            ELSE IF i = Len(frames) THEN old ELSE frames[i]
<1> DEFINE put == [frames EXCEPT ![Len(frames)] = old]
<1>1. put \in Seq(Frame) /\ Len(put) = Len(frames)
      /\ \A i \in DOMAIN frames : put[i] = IF i = Len(frames) THEN old ELSE frames[i]
  BY TopIs, ExceptSeq
<1> HIDE DEF put
<1>2. frames' = Append(put, new)
  BY DEF put
<1> QED
  BY <1>1, <1>2, TopIs

LEMMA PopFrame ==
  ASSUME frames \in Seq(Frame), frames # <<>>, frames' = Front(frames)
  PROVE  /\ frames' \in Seq(Frame) /\ Len(frames') = Len(frames) - 1
         /\ DOMAIN frames' = DOMAIN frames \ {Len(frames)}
         /\ \A i \in DOMAIN frames' : frames'[i] = frames[i]
<1>1. /\ SubSeq(frames, 1, Len(frames) - 1) \in Seq(Frame)
      /\ Len(SubSeq(frames, 1, Len(frames) - 1)) = Len(frames) - 1
      /\ \A i \in 1 .. Len(frames) - 1 : SubSeq(frames, 1, Len(frames) - 1)[i] = frames[i]
  BY TopIs
<1> QED
  BY <1>1, TopIs DEF Front

-----------------------------------------------------------------------------
(* Type correctness.                                                       *)

FileType ==
    /\ world \in World /\ pc \in Pc
    /\ files \in SUBSET (Paths \cup {User})
    /\ machines \in [Aliases -> Definition \cup {None}]
    /\ root \in Paths \cup {None} /\ state \in Paths \cup {None}

WalkType ==
    /\ registered \in SUBSET Paths /\ owners \in SUBSET Paths
    /\ extras \in SUBSET Paths
    /\ frames \in Seq(Frame) /\ order \in Seq(Paths)
    /\ kids \in [Paths -> SUBSET Paths]

(* What was asked of the world before, and the root, stay what they are.   *)
RootInv ==
    /\ world \in Worlds /\ files \subseteq Listed(world)
    /\ pc # "locate" => root = find_workspace_root(world) /\ root \in Paths
    /\ pc = "mount" => frames # <<>>

Types == FileType /\ WalkType /\ RootInv

LEMMA TypeParts == Types => TypeOK
BY DEF TypeOK, Types, FileType, WalkType

LEMMA WorldType ==
  ASSUME NEW w \in World
  PROVE  /\ w.cwd \in Paths /\ w.remote \in SUBSET Paths /\ w.git \in SUBSET Paths
         /\ w.machines \in [Paths \cup {User} -> Seq(Aliases) \cup {Bad, None}]
         /\ w.modules \in [Paths -> SUBSET Paths]
         /\ w.linked \in [Paths -> SUBSET Paths] /\ w.ignored \in SUBSET Paths
BY DEF World

LEMMA FrameType ==
  /\ \A f \in Frame : f.repo \in Paths /\ f.extras \in BOOLEAN /\ f.left \in SUBSET Paths
  /\ \A r \in Paths, e \in BOOLEAN, l \in SUBSET Paths :
        [repo |-> r, extras |-> e, left |-> l] \in Frame
BY DEF Frame

LEMMA RootType ==
  ASSUME NEW w \in World
  PROVE  find_workspace_root(w) \in Paths
BY WorldType, NearestIs DEF find_workspace_root, Above

LEMMA TypeInit == Init => Types
<1> SUFFICES ASSUME Init PROVE Types
  OBVIOUS
<1>1. FileType
  BY LayoutAssumption DEF Init, FileType, Pc
<1>2. WalkType
  BY DEF Init, WalkType
<1> QED
  BY <1>1, <1>2 DEF Types, RootInv, Init

LEMMA LocatesType == Types /\ Locates => Types'
<1> SUFFICES ASSUME Types, Locates PROVE Types'
  OBVIOUS
<1>1. root' \in Paths /\ root' = find_workspace_root(world)
  BY RootType DEF Locates, Types, FileType
<1>2. files' \in SUBSET (Paths \cup {User})
  BY DEF Locates, Listed, Above
<1>3. FileType' /\ WalkType'
  BY <1>1, <1>2 DEF Locates, walk, Types, FileType, WalkType, Pc
<1> QED
  BY <1>1, <1>3 DEF Types, RootInv, Locates

LEMMA MergesType ==
  ASSUME Types, NEW at \in Paths \cup {User}, Merges(at)
  PROVE  Types'
<1> DEFINE list == world.machines[at]
<1>1. machines' \in [Aliases -> Definition \cup {None}]
  <2>1. CASE list = Bad
    BY <2>1 DEF Merges, Types, FileType
  <2>2. CASE list # Bad
    <3>1. machines' = [a \in Aliases |->
                IF Contains(list, a) THEN [at |-> at, index |-> LastIn(list, a)]
                ELSE machines[a]]
      BY <2>2 DEF Merges
    <3>2. list \in Seq(Aliases)
      BY <2>2, WorldType DEF Merges, Listed, Types, FileType, RootInv
    <3>3. \A a \in Aliases : Contains(list, a) =>
                [at |-> at, index |-> LastIn(list, a)] \in Definition
      BY <3>2, LastInIs DEF Definition
    <3> QED
      BY <3>1, <3>3 DEF Types, FileType
  <2> QED
    BY <2>1, <2>2
<1>2. files' \in SUBSET (Paths \cup {User}) /\ pc' \in Pc
  BY DEF Merges, Types, FileType, Pc
<1>3. FileType' /\ WalkType'
  BY <1>1, <1>2 DEF Merges, walk, Types, FileType, WalkType
<1> QED
  BY <1>3 DEF Types, RootInv, Merges, walk

LEMMA LookType ==
  ASSUME Types, Merged \/ Scans \/ \E r \in Paths : Registers(r)
  PROVE  Types'
<1>1. CASE Merged
  <2>1. state' \in Paths
    BY <1>1, WorldType, NearestIs, LayoutAssumption
       DEF Merged, Types, FileType, Above
  <2> QED
    BY <1>1, <2>1 DEF Merged, walk, Types, FileType, WalkType, RootInv, Pc
<1>2. CASE Scans
  <2>1. owners' \in SUBSET Paths
    BY <1>2, WorldType DEF Scans, GitRoots, Types, FileType
  <2> QED
    BY <1>2, <2>1 DEF Scans, Types, FileType, WalkType, RootInv, Pc
<1>3. ASSUME NEW r \in Paths, Registers(r) PROVE Types'
  <2>1. registered' \in SUBSET Paths
    BY <1>3, WorldType DEF Registers, Types, FileType, WalkType
  <2> QED
    BY <1>3, <2>1 DEF Registers, Types, FileType, WalkType, RootInv
<1> QED
  BY <1>1, <1>2, <1>3

LEMMA FiltersType == Types /\ Filters => Types'
<1> SUFFICES ASSUME Types, Filters PROVE Types'
  OBVIOUS
<1>1. extras' \in SUBSET Paths
  BY WorldType DEF Filters, Contexts, GitRoots, Types, FileType
<1>2. root \in Paths /\ world.modules[root] \in SUBSET Paths
  BY WorldType DEF Filters, Types, FileType, RootInv
<1> DEFINE first == [repo |-> root, extras |-> FALSE, left |-> world.modules[root]]
<1>3. first \in Frame
  BY <1>2, FrameType
<1>4. \/ pc' = "mount" /\ frames' = <<first>>
      \/ pc' = "error" /\ frames' = frames
  BY DEF Filters
<1> HIDE DEF first
<1>5. <<first>> \in Seq(Frame) /\ <<first>> # <<>>
  BY <1>3
<1> QED
  BY <1>1, <1>4, <1>5 DEF Filters, Types, FileType, WalkType, RootInv, Pc

(* The three ways in which a step may change the stack.                    *)
Sees(new) ==
    /\ new.repo = Top.repo /\ frames' = [frames EXCEPT ![Len(frames)] = new]
    /\ UNCHANGED <<pc, kids, order>>

Enters(c, old) ==
    /\ c \in world.git /\ old.repo = Top.repo
    /\ frames' = Append([frames EXCEPT ![Len(frames)] = old],
                        [repo |-> c, extras |-> FALSE, left |-> world.modules[c]])
    /\ kids' = [kids EXCEPT ![Top.repo] = @ \cup {c}]
    /\ UNCHANGED <<pc, order>>

Halts == pc' = "error" /\ UNCHANGED <<frames, kids, order>>

LEMMA DescendsSteps ==
  ASSUME Types, pc = "mount", NEW c \in Paths, NEW left \in SUBSET Paths,
         Descends(c, left), order' = order
  PROVE  \/ Halts /\ c \notin world.git
         \/ Enters(c, [repo |-> Top.repo, extras |-> Top.extras, left |-> left])
<1>1. frames # <<>> /\ frames \in Seq(Frame)
  BY DEF Types, RootInv, WalkType
<1>2. [frames[Len(frames)] EXCEPT !.left = left]
        = [repo |-> Top.repo, extras |-> Top.extras, left |-> left]
  BY <1>1, TopIs DEF Frame
<1>3. [frames EXCEPT ![Len(frames)].left = left]
        = [frames EXCEPT ![Len(frames)] =
              [repo |-> Top.repo, extras |-> Top.extras, left |-> left]]
  BY <1>1, <1>2, TopIs
<1> QED
  BY <1>3 DEF Descends, Halts, Enters

LEMMA SeesType ==
  ASSUME Types, pc = "mount", NEW new \in Frame, Sees(new),
         UNCHANGED <<world, files, machines, root, state, registered, owners, extras>>
  PROVE  Types'
<1>1. frames' \in Seq(Frame) /\ frames' # <<>>
  BY PutTop, TopIs DEF Types, RootInv, WalkType, Sees
<1> QED
  BY <1>1 DEF Types, FileType, WalkType, RootInv, Sees

LEMMA EntersType ==
  ASSUME Types, pc = "mount", NEW c \in Paths, NEW old \in Frame, Enters(c, old),
         UNCHANGED <<world, files, machines, root, state, registered, owners, extras>>
  PROVE  Types'
<1>1. frames # <<>> /\ frames \in Seq(Frame)
  BY DEF Types, RootInv, WalkType
<1>2. [repo |-> c, extras |-> FALSE, left |-> world.modules[c]] \in Frame
  BY WorldType, FrameType DEF Types, FileType
<1>3. frames' \in Seq(Frame) /\ Len(frames') = Len(frames) + 1
  BY <1>1, <1>2, PushFrame DEF Enters
<1>4. frames' # <<>>
  BY <1>1, <1>3, TopIs
<1>5. kids' \in [Paths -> SUBSET Paths]
  <2>1. kids[Top.repo] \cup {c} \in SUBSET Paths
    BY <1>1, TopIs, FrameType DEF Types, WalkType
  <2> QED
    BY <2>1 DEF Enters, Types, WalkType
<1> QED
  BY <1>3, <1>4, <1>5 DEF Types, FileType, WalkType, RootInv, Enters

LEMMA HaltsType ==
  ASSUME Types, Halts,
         UNCHANGED <<world, files, machines, root, state, registered, owners, extras>>,
         pc # "locate"
  PROVE  Types'
BY DEF Types, FileType, WalkType, RootInv, Halts, Pc

LEMMA FrameUpdate ==
  ASSUME NEW f \in Frame, NEW p
  PROVE  [f EXCEPT !.left = @ \ {p}]
            = [repo |-> f.repo, extras |-> f.extras, left |-> f.left \ {p}]
<1>1. PICK r \in Paths, e \in BOOLEAN, l \in SUBSET Paths :
         f = [repo |-> r, extras |-> e, left |-> l]
  BY DEF Frame
<1>2. [f EXCEPT !.left = @ \ {p}] = [repo |-> r, extras |-> e, left |-> l \ {p}]
  BY <1>1
<1> QED
  BY <1>1, <1>2

(* The steps of the walk in these terms.                                   *)
Candidates == {p \in extras \ kids[Top.repo] : IsStrictPrefix(Top.repo, p)}

LEMMA ModulesSteps ==
  ASSUME Types, NEW m \in Paths, MountsModule(m)
  PROVE  /\ pc = "mount" /\ ~Top.extras /\ m \in Top.left
         /\ UNCHANGED <<world, files, machines, root, state, registered, owners, extras>>
         /\ \/ Halts
            \/ Enters(m, [repo |-> Top.repo, extras |-> FALSE, left |-> Top.left \ {m}])
<1>1. Top \in Frame
  BY TopIs DEF MountsModule, Types, RootInv, WalkType
<1>2. Top.left \ {m} \in SUBSET Paths /\ Top.extras = FALSE
  BY <1>1 DEF MountsModule, Frame
<1> QED
  BY <1>2, DescendsSteps DEF MountsModule

LEMMA ModulesDoneSteps ==
  ASSUME Types, ModulesDone
  PROVE  /\ pc = "mount" /\ ~Top.extras /\ Top.left = {}
         /\ UNCHANGED <<world, files, machines, root, state, registered, owners, extras>>
         /\ Sees([repo |-> Top.repo, extras |-> TRUE, left |-> Candidates])
BY DEF ModulesDone, Sees, Candidates

LEMMA ExtrasSteps ==
  ASSUME Types, NEW p \in Paths, MountsExtra(p)
  PROVE  /\ pc = "mount" /\ Top.extras /\ p \in Top.left
         /\ \A o \in Top.left : Len(p) <= Len(o)
         /\ UNCHANGED <<world, files, machines, root, state, registered, owners, extras>>
         /\ \/ Halts
            \/ /\ InsideChild(p)
               /\ Sees([repo |-> Top.repo, extras |-> TRUE, left |-> Top.left \ {p}])
            \/ /\ ~InsideChild(p)
               /\ Enters(p, [repo |-> Top.repo, extras |-> TRUE, left |-> Top.left \ {p}])
<1>1. frames # <<>> /\ frames \in Seq(Frame) /\ Top \in Frame /\ Top = frames[Len(frames)]
  BY TopIs DEF Types, RootInv, WalkType, MountsExtra
<1>2. Top.left \ {p} \in SUBSET Paths /\ Top.extras = TRUE
  BY <1>1 DEF MountsExtra, Frame
<1>3. [frames EXCEPT ![Len(frames)].left = @ \ {p}]
        = [frames EXCEPT ![Len(frames)] =
              [repo |-> Top.repo, extras |-> TRUE, left |-> Top.left \ {p}]]
  <2>1. [frames[Len(frames)] EXCEPT !.left = @ \ {p}]
           = [repo |-> Top.repo, extras |-> TRUE, left |-> Top.left \ {p}]
    BY <1>1, <1>2, FrameUpdate
  <2> QED
    BY <1>1, <2>1, TopIs
<1>4. CASE InsideChild(p)
  BY <1>3, <1>4 DEF MountsExtra, Sees
<1>5. CASE ~InsideChild(p)
  BY <1>2, <1>5, DescendsSteps DEF MountsExtra
<1> QED
  BY <1>4, <1>5 DEF MountsExtra

LEMMA FinishesSteps ==
  ASSUME Types, Finishes
  PROVE  /\ pc = "mount" /\ Top.extras /\ Top.left = {} /\ Top.repo \in Paths
         /\ UNCHANGED <<world, files, machines, root, state, registered, owners,
                        extras, kids>>
         /\ order' = Append(order, Top.repo) /\ order' \in Seq(Paths)
         /\ Len(order') = Len(order) + 1
         /\ \A i \in 1 .. Len(order) : order'[i] = order[i]
         /\ order'[Len(order')] = Top.repo
         /\ frames' = Front(frames) /\ frames' \in Seq(Frame)
         /\ pc' = IF Len(frames) = 1 THEN "mounted" ELSE "mount"
         /\ pc' = "mount" => frames' # <<>>
<1>1. frames # <<>> /\ frames \in Seq(Frame) /\ Top.repo \in Paths /\ order \in Seq(Paths)
  BY TopIs, FrameType DEF Finishes, Types, RootInv, WalkType
<1>2. order' = Append(order, Top.repo) /\ frames' = Front(frames)
  BY DEF Finishes
<1>3. frames' \in Seq(Frame) /\ Len(frames') = Len(frames) - 1 /\ Len(frames) \in Nat \ {0}
  BY <1>1, <1>2, PopFrame, TopIs
<1>4. Len(frames) # 1 => frames' # <<>>
  BY <1>3
<1>5. /\ order' \in Seq(Paths) /\ Len(order') = Len(order) + 1
      /\ \A i \in 1 .. Len(order) : order'[i] = order[i]
      /\ order'[Len(order')] = Top.repo
  BY <1>1, <1>2
<1> QED
  BY <1>1, <1>2, <1>3, <1>4, <1>5 DEF Finishes

LEMMA TypeStep == Types /\ [Next]_vars => Types'
<1> SUFFICES ASSUME Types, [Next]_vars PROVE Types'
  OBVIOUS
<1>1. CASE UNCHANGED vars
  BY <1>1 DEF vars, walk, Types, FileType, WalkType, RootInv, Listed
<1>2. CASE Locates \/ \E at \in Paths \cup {User} : Merges(at)
  BY <1>2, LocatesType, MergesType
<1>3. CASE Merged \/ Scans \/ Filters \/ \E r \in Paths : Registers(r)
  BY <1>3, LookType, FiltersType
<1> DEFINE quiet == UNCHANGED <<world, files, machines, root, state, registered,
                                owners, extras>>
<1>4. Types /\ pc = "mount" /\ quiet /\ Halts => Types'
  BY HaltsType
<1>5. ASSUME NEW c \in Paths, NEW e \in BOOLEAN, pc = "mount", quiet,
             Enters(c, [repo |-> Top.repo, extras |-> e, left |-> Top.left \ {c}])
      PROVE  Types'
  <2>1. [repo |-> Top.repo, extras |-> e, left |-> Top.left \ {c}] \in Frame
    BY <1>5, TopIs, FrameType DEF Types, RootInv, WalkType
  <2> QED
    BY <1>5, <2>1, EntersType
<1>6. ASSUME NEW l \in SUBSET Paths, pc = "mount", quiet,
             Sees([repo |-> Top.repo, extras |-> TRUE, left |-> l])
      PROVE  Types'
  <2>1. [repo |-> Top.repo, extras |-> TRUE, left |-> l] \in Frame
    BY <1>6, TopIs, FrameType DEF Types, RootInv, WalkType
  <2> QED
    BY <1>6, <2>1, SeesType
<1>7. ASSUME NEW m \in Paths, MountsModule(m) PROVE Types'
  BY <1>4, <1>5, <1>7, ModulesSteps
<1>8. ASSUME ModulesDone PROVE Types'
  <2>1. Candidates \in SUBSET Paths
    BY DEF Candidates, Types, WalkType
  <2> QED
    BY <1>6, <1>8, <2>1, ModulesDoneSteps
<1>9. ASSUME NEW p \in Paths, MountsExtra(p) PROVE Types'
  <2>1. Top.left \ {p} \in SUBSET Paths
    BY <1>9, TopIs, FrameType DEF MountsExtra, Types, RootInv, WalkType
  <2> QED
    BY <1>4, <1>5, <1>6, <1>9, <2>1, ExtrasSteps
<1>10. CASE Finishes
  BY <1>10, FinishesSteps DEF Types, FileType, WalkType, RootInv, Pc
<1> QED
  BY <1>1, <1>2, <1>3, <1>7, <1>8, <1>9, <1>10 DEF Next

(* Every variable keeps its type: in particular the root is a directory,   *)
(* and a machine is defined at a place in a file.                          *)
THEOREM TypeCorrect == Spec => []TypeOK
<1>1. QED
  BY TypeInit, TypeParts, TypeStep, PTL DEF Spec

-----------------------------------------------------------------------------
(* The invariant behind NearestWins: what has been merged comes before     *)
(* what is left, and each machine is the last one of what has been merged. *)

Past == Listed(world) \ files

DefinedInv(a) ==
    IF machines[a] = None THEN \A p \in Past : ~Contains(world.machines[p], a)
    ELSE /\ machines[a].at \in Past
         /\ Contains(world.machines[machines[a].at], a)
         /\ machines[a].index = LastIn(world.machines[machines[a].at], a)
         /\ \A p \in Past : Contains(world.machines[p], a) => Sooner(p, machines[a].at)

MergeInv ==
    /\ pc = "locate" => machines = [a \in Aliases |-> None]
    /\ pc # "locate" =>
          /\ \A p \in Past : \A q \in files : Sooner(p, q)
          /\ \A p \in Past : world.machines[p] \in Seq(Aliases)
          /\ \A a \in Aliases : DefinedInv(a)
    /\ pc \in {"scan", "register", "mount", "mounted"} =>
          /\ files = {}
          /\ world.remote \cap Above(world.cwd) # {} => state = root

LEMMA MergeInit == Init => MergeInv
BY DEF Init, MergeInv

LEMMA LocatesMerge == Types /\ MergeInv /\ Locates => MergeInv'
<1> SUFFICES ASSUME Types, MergeInv, Locates PROVE MergeInv'
  OBVIOUS
<1>1. /\ pc' = "merge" /\ Past' = {}
      /\ \A a \in Aliases : machines'[a] = None
  BY DEF Locates, Past, MergeInv
<1> QED
  BY <1>1 DEF MergeInv, DefinedInv

LEMMA SoonerOrder ==
  ASSUME NEW p, NEW q \in Paths \cup {User}, NEW r \in Paths \cup {User},
         p \in Paths \cup {User}
  PROVE  /\ Sooner(p, p)
         /\ Sooner(p, q) /\ Sooner(q, r) => Sooner(p, r)
<1>1. \A x \in Paths : Len(x) \in Nat
  BY PrefixMeans
<1> QED
  BY <1>1 DEF Sooner

(* The next file is later than all that have been merged.                  *)
LEMMA MergesMerge ==
  ASSUME Types, MergeInv, NEW at \in Paths \cup {User}, Merges(at)
  PROVE  MergeInv'
<1> DEFINE list == world.machines[at]
<1>1. /\ pc = "merge" /\ at \in files /\ at \notin Past
      /\ \A p \in files : Sooner(at, p)
      /\ UNCHANGED <<world, root, state>>
  BY DEF Merges, Past
<1>2. CASE list = Bad
  <2>1. pc' = "error" /\ UNCHANGED <<files, machines>>
    BY <1>2 DEF Merges
  <2> QED
    BY <1>1, <2>1 DEF MergeInv, Past, DefinedInv
<1>3. CASE list # Bad
  <2>1. /\ pc' = pc /\ files' = files \ {at}
        /\ \A a \in Aliases : machines'[a] =
              IF Contains(list, a) THEN [at |-> at, index |-> LastIn(list, a)]
              ELSE machines[a]
    BY <1>3 DEF Merges
  <2>2. Past' = Past \cup {at}
    BY <1>1, <2>1 DEF Past, Types, RootInv
  <2>3. list \in Seq(Aliases)
    BY <1>1, <1>3, WorldType DEF Listed, Types, FileType, RootInv
  <2>4. \A p \in Past : Sooner(p, at)
    BY <1>1 DEF MergeInv
  <2>5. ASSUME NEW a \in Aliases PROVE DefinedInv(a)'
    <3>1. DefinedInv(a)
      BY <1>1 DEF MergeInv
    <3>2. CASE Contains(list, a)
      <4>1. machines'[a] = [at |-> at, index |-> LastIn(list, a)]
        BY <2>1, <3>2
      <4>2. machines'[a] # None
        <5>1. machines'[a] \in Definition
          BY <2>3, <3>2, <4>1, LastInIs DEF Definition
        <5> QED
          BY <5>1, LayoutAssumption
      <4>3. machines'[a].at = at /\ machines'[a].index = LastIn(list, a)
        BY <4>1
      <4>4. \A p \in Past' : Sooner(p, at)
        BY <2>2, <2>4, SoonerOrder
      <4> QED
        BY <1>1, <2>2, <3>2, <4>2, <4>3, <4>4 DEF DefinedInv
    <3>3. CASE ~Contains(list, a)
      <4>1. machines'[a] = machines[a]
        BY <2>1, <3>3
      <4> QED
        BY <1>1, <2>2, <3>1, <3>3, <4>1 DEF DefinedInv
    <3> QED
      BY <3>2, <3>3
  <2>6. \A p \in Past' : \A q \in files' : Sooner(p, q)
    BY <1>1, <2>1, <2>2 DEF MergeInv
  <2>7. \A p \in Past' : world'.machines[p] \in Seq(Aliases)
    BY <1>1, <2>2, <2>3 DEF MergeInv
  <2> QED
    BY <1>1, <2>1, <2>5, <2>6, <2>7 DEF MergeInv
<1> QED
  BY <1>2, <1>3

LEMMA MergedMerge == Types /\ MergeInv /\ Merged => MergeInv'
<1> SUFFICES ASSUME Types, MergeInv, Merged PROVE MergeInv'
  OBVIOUS
<1> DEFINE near == Nearest(world.cwd, world.remote)
<1>1. /\ pc = "merge" /\ pc' = "scan" /\ files = {}
      /\ state' = IF near # None THEN near ELSE Package
      /\ UNCHANGED <<world, files, machines, root>>
  BY DEF Merged
<1>2. world.remote \cap Above(world.cwd) # {} => near # None
  BY WorldType, NearestIs DEF Types, FileType
<1>3. near # None => root = near
  BY <1>1 DEF Types, RootInv, find_workspace_root
<1>4. world.remote \cap Above(world.cwd) # {} => state' = root
  BY <1>1, <1>2, <1>3
<1> HIDE DEF near
<1>5. Past' = Past /\ \A a \in Aliases : DefinedInv(a) => DefinedInv(a)'
  BY <1>1 DEF Past, DefinedInv
<1> QED
  BY <1>1, <1>4, <1>5 DEF MergeInv

(* Nothing that the command finds later changes where it looked.           *)
LEMMA LaterMerge ==
  ASSUME MergeInv, UNCHANGED <<world, files, machines, root, state>>,
         \/ pc' = pc
         \/ pc \in {"scan", "register", "mount"} /\ pc' # "locate"
  PROVE  MergeInv'
<1>1. Past' = Past /\ \A a \in Aliases : DefinedInv(a) => DefinedInv(a)'
  BY DEF Past, DefinedInv
<1> QED
  BY <1>1 DEF MergeInv

LEMMA MergeStep == Types /\ MergeInv /\ [Next]_vars => MergeInv'
<1> SUFFICES ASSUME Types, MergeInv, [Next]_vars PROVE MergeInv'
  OBVIOUS
<1>1. CASE Locates \/ Merged \/ \E at \in Paths \cup {User} : Merges(at)
  BY <1>1, LocatesMerge, MergedMerge, MergesMerge
<1>2. CASE UNCHANGED vars \/ Scans \/ Filters \/ \E r \in Paths : Registers(r)
  BY <1>2, LaterMerge DEF vars, Scans, Filters, Registers
<1>3. CASE ModulesDone \/ Finishes
  BY <1>3, LaterMerge DEF ModulesDone, Finishes
<1>4. ASSUME NEW p \in Paths, MountsModule(p) \/ MountsExtra(p) PROVE MergeInv'
  BY <1>4, LaterMerge DEF MountsModule, MountsExtra, Descends
<1> QED
  BY <1>1, <1>2, <1>3, <1>4 DEF Next

(* The machine that the merge has left defined is the nearest one.         *)
LEMMA NearestDefined ==
  ASSUME Types, MergeInv, pc \in {"scan", "register", "mount", "mounted"},
         NEW a \in Aliases, NEW S, NEW at,
         S = {p \in world.remote \cap Above(world.cwd) :
                 world.machines[p] # None /\ Contains(world.machines[p], a)},
         at = IF Nearest(world.cwd, S) # None THEN Nearest(world.cwd, S)
              ELSE IF world.machines[User] # None /\ Contains(world.machines[User], a)
                   THEN User ELSE None
  PROVE  IF at = None THEN machines[a] = None
         ELSE /\ machines[a].at = at
              /\ world.machines[at][machines[a].index] = a
              /\ \A i \in DOMAIN world.machines[at] :
                    world.machines[at][i] = a => i <= machines[a].index
<1>1. /\ Past = Listed(world) /\ DefinedInv(a)
      /\ \A p \in Past : world.machines[p] \in Seq(Aliases)
  BY DEF MergeInv, Past
<1>2. world.cwd \in Paths /\ Above(world.cwd) \subseteq Paths /\ User \notin Paths /\ User # None
  BY WorldType, LayoutAssumption DEF Types, FileType, Above
<1>3. Above(world.cwd) \cap S = S /\ S \subseteq Past
  BY <1>1 DEF Listed
<1>4. Nearest(world.cwd, S) # None => Nearest(world.cwd, S) \in S
  BY <1>2, <1>3, NearestIs
<1>5. CASE machines[a] = None
  <2>1. \A p \in Past : ~Contains(world.machines[p], a)
    BY <1>1, <1>5 DEF DefinedInv
  <2>2. at = None
    BY <1>1, <1>3, <1>4, <2>1 DEF Listed
  <2> QED
    BY <1>5, <2>2
<1>6. CASE machines[a] # None
  <2> DEFINE here == machines[a].at
  <2>1. /\ here \in Past /\ Contains(world.machines[here], a)
        /\ machines[a].index = LastIn(world.machines[here], a)
        /\ \A p \in Past : Contains(world.machines[p], a) => Sooner(p, here)
    BY <1>1, <1>6 DEF DefinedInv
  <2>2. at = here
    <3>1. CASE here = User
      <4>1. S = {}
        BY <1>2, <1>3, <2>1, <3>1 DEF Sooner
      <4>2. Nearest(world.cwd, S) = None
        BY <1>2, <4>1, NearestIs
      <4> QED
        BY <1>1, <2>1, <3>1, <4>2 DEF Listed
    <3>2. CASE here # User
      <4>1. here \in S
        BY <1>1, <2>1, <3>2 DEF Listed
      <4>2. \A o \in S : Len(o) <= Len(here)
        BY <1>2, <1>3, <2>1 DEF Sooner
      <4>3. Nearest(world.cwd, S) = here
        BY <1>2, <1>3, <4>1, <4>2, NearestOnly
      <4>4. here # None
        BY <1>2, <4>1, LayoutAssumption
      <4> QED
        BY <4>3, <4>4
    <3> QED
      BY <3>1, <3>2
  <2>3. world.machines[here] \in Seq(Aliases) /\ here # None
    <3>1. here \in Paths \cup {User}
      BY <1>1, <1>2, <2>1 DEF Listed
    <3> QED
      BY <1>1, <1>2, <2>1, <3>1, LayoutAssumption
  <2> HIDE DEF here
  <2>4. /\ world.machines[here][LastIn(world.machines[here], a)] = a
        /\ \A i \in DOMAIN world.machines[here] :
              world.machines[here][i] = a => i <= LastIn(world.machines[here], a)
    BY <2>1, <2>3, LastInIs
  <2> QED
    BY <2>1, <2>2, <2>3, <2>4 DEF here
<1> QED
  BY <1>5, <1>6

(* A machine is the one that the nearest file above the current directory  *)
(* defines, its last entry there, and state and workspace lie together,    *)
(* wherever .remote directories and machines.json files are.               *)
THEOREM NearestMachine == Spec => []NearestWins
<1>1. Types /\ MergeInv => NearestWins
  <2> SUFFICES ASSUME Types, MergeInv, pc \in {"scan", "register", "mount", "mounted"}
               PROVE  NearestWins
    BY DEF NearestWins
  <2>1. world.remote \cap Above(world.cwd) # {} => state = root
    BY DEF MergeInv
  <2> QED
    BY <2>1, NearestDefined DEF NearestWins
<1> QED
  BY <1>1, TypeInit, TypeStep, MergeInit, MergeStep, PTL DEF Spec

-----------------------------------------------------------------------------
(* The invariant behind NothingForgotten.                                  *)

Below(p, q) == IsStrictPrefix(p, q)

Stacked == {frames[i].repo : i \in DOMAIN frames}
Done == ToSet(order)
Visited == Done \cup Stacked

Wanted(p) ==
    /\ \/ \E r \in GitRoots : p \in world.linked[r] \ {r}
       \/ p \in GitRoots /\ p \notin world.ignored
    /\ IsPrefix(root, p)

(* What the owners asked so far have registered, and what is kept of it.   *)
ScanInv ==
    /\ pc \in {"locate", "merge", "scan"} => registered = {}
    /\ pc \in {"locate", "merge", "scan", "register"} =>
          frames = <<>> /\ order = <<>> /\ kids = [p \in Paths |-> {}]
    /\ pc = "register" =>
          /\ \A p \in registered : IsPrefix(root, p)
          /\ \A r \in GitRoots \ owners : \A p \in world.linked[r] \ {r} :
                IsPrefix(root, p) => p \in registered
    /\ pc \in {"mount", "mounted"} =>
          /\ root \in world.git
          /\ \A p \in extras : p \in world.git /\ Below(root, p)
          /\ \A p \in world.git : Wanted(p) => p \in extras \cup {root}

(* The calls under way lie inside each other, from the root on.            *)
StackInv ==
    /\ frames # <<>> => frames[1].repo = root
    /\ \A i, k \in DOMAIN frames : i < k => Below(frames[i].repo, frames[k].repo)
    /\ \A i \in DOMAIN frames : \A p \in frames[i].left : Below(frames[i].repo, p)
    /\ \A v \in Visited : v \in world.git /\ IsPrefix(root, v)
    /\ \A r \in Paths : \A k \in kids[r] : Below(r, k) /\ k \in Visited /\ r \in Visited
    /\ pc = "mounted" => frames = <<>> /\ order # <<>> /\ Last(order) = root

(* An extra repository is still to be looked at or lies in a child; when   *)
(* its call is over it is mounted.                                         *)
ExtrasInv ==
    /\ \A i \in DOMAIN frames : frames[i].extras =>
          \A p \in extras : Below(frames[i].repo, p) =>
              p \in frames[i].left \/ \E k \in kids[frames[i].repo] : IsPrefix(k, p)
    /\ \A r \in Done : \A p \in extras : Below(r, p) => p \in Done

WalkInv == pc \in {"mount", "mounted"} => StackInv /\ ExtrasInv

LEMMA BelowOrder ==
  ASSUME NEW p \in Paths, NEW q \in Paths, NEW r \in Paths
  PROVE  /\ ~Below(p, p)
         /\ Below(p, q) => IsPrefix(p, q) /\ ~IsPrefix(q, p) /\ Len(p) < Len(q)
         /\ IsPrefix(p, q) => p = q \/ Below(p, q)
         /\ IsPrefix(p, q) /\ Below(q, r) => Below(p, r)
         /\ Below(p, q) /\ IsPrefix(q, r) => Below(p, r)
<1>1. IsPrefix(p, q) /\ p # q => ~IsPrefix(q, p) /\ Len(p) < Len(q)
  BY PathOrder, SamePath, PrefixMeans
<1> QED
  BY <1>1, PathOrder DEF Below, IsStrictPrefix

LEMMA ScanInit == Init => ScanInv /\ WalkInv
BY DEF Init, ScanInv, WalkInv

LEMMA ScanSteps ==
  ASSUME Types, ScanInv, Scans \/ \E r \in Paths : Registers(r)
  PROVE  ScanInv'
<1>1. CASE Scans
  BY <1>1 DEF Scans, ScanInv, GitRoots
<1>2. ASSUME NEW r \in Paths, Registers(r) PROVE ScanInv'
  BY <1>2 DEF Registers, ScanInv, GitRoots
<1> QED
  BY <1>1, <1>2

(* What is wanted is kept: only the other repositories at the top obey the *)
(* ignore rules.                                                           *)
LEMMA FiltersScan ==
  ASSUME Types, ScanInv, Filters
  PROVE  ScanInv'
<1>1. /\ pc = "register" /\ owners = {} /\ extras' = Contexts \ {root}
      /\ pc' \in {"mount", "error"} /\ (pc' = "mount" => root \in world.git)
      /\ UNCHANGED <<world, root, registered>>
  BY DEF Filters
<1>2. root \in Paths /\ GitRoots' = GitRoots
  BY <1>1 DEF Types, RootInv, GitRoots
<1>3. \A p \in Contexts : p \in world.git /\ IsPrefix(root, p) /\ p \in Paths
  BY <1>1, WorldType DEF Contexts, ScanInv, GitRoots, Types, FileType
<1>4. \A p \in extras' : p \in world.git /\ Below(root, p)
  BY <1>1, <1>2, <1>3, BelowOrder
<1>5. \A p \in world.git : Wanted(p) => p \in Contexts \cup {root}
  BY <1>1 DEF Wanted, Contexts, Ignored, ScanInv
<1>6. \A p : Wanted(p)' <=> Wanted(p)
  BY <1>1, <1>2 DEF Wanted
<1> QED
  BY <1>1, <1>4, <1>5, <1>6 DEF ScanInv

LEMMA ScanLater ==
  ASSUME ScanInv, UNCHANGED <<world, root, registered, owners, extras>>,
         \/ pc' = pc /\ UNCHANGED <<frames, order, kids>>
         \/ pc' \in {"merge", "scan"} /\ pc \in {"locate", "merge"}
            /\ UNCHANGED <<frames, order, kids>>
         \/ pc' = "error"
         \/ pc = "mount" /\ pc' \in {"mount", "mounted"}
  PROVE  ScanInv'
<1>1. GitRoots' = GitRoots
  BY DEF GitRoots
<1>2. \A p : Wanted(p)' <=> Wanted(p)
  BY <1>1 DEF Wanted
<1> QED
  BY <1>1, <1>2 DEF ScanInv

LEMMA LocatesScan == Types /\ ScanInv /\ Locates => ScanInv'
BY DEF Locates, ScanInv, walk

LEMMA ScanStep == Types /\ ScanInv /\ [Next]_vars => ScanInv'
<1> SUFFICES ASSUME Types, ScanInv, [Next]_vars PROVE ScanInv'
  OBVIOUS
<1>1. CASE Scans \/ Filters \/ Locates \/ \E r \in Paths : Registers(r)
  BY <1>1, ScanSteps, FiltersScan, LocatesScan
<1>2. CASE UNCHANGED vars
  BY <1>2, ScanLater DEF vars, walk
<1>3. CASE Merged \/ \E at \in Paths \cup {User} : Merges(at)
  BY <1>3, ScanLater DEF Merged, Merges, walk
<1>4. CASE ModulesDone \/ Finishes
  BY <1>4, ScanLater, FinishesSteps DEF ModulesDone
<1>5. ASSUME NEW p \in Paths, MountsModule(p) \/ MountsExtra(p) PROVE ScanInv'
  BY <1>5, ScanLater DEF MountsModule, MountsExtra, Descends
<1> QED
  BY <1>1, <1>2, <1>3, <1>4, <1>5 DEF Next

-----------------------------------------------------------------------------
(* What a step of the walk does to the sets of repositories.               *)

LEMMA VisitedType ==
  ASSUME Types
  PROVE  Stacked \subseteq Paths /\ Done \subseteq Paths /\ Visited \subseteq Paths
<1>1. \A i \in DOMAIN frames : frames[i] \in Frame
  BY ElementOfSeq, LenProperties DEF Types, WalkType
<1>2. \A i \in DOMAIN order : order[i] \in Paths
  BY ElementOfSeq, LenProperties DEF Types, WalkType
<1> QED
  BY <1>1, <1>2, FrameType DEF Stacked, Done, Visited, ToSet

LEMMA SeesView ==
  ASSUME Types, pc = "mount", NEW new \in Frame, Sees(new)
  PROVE  /\ DOMAIN frames' = DOMAIN frames /\ Len(frames) \in DOMAIN frames
         /\ frames # <<>> /\ frames' # <<>>
         /\ \A i \in DOMAIN frames :
               /\ frames'[i] = IF i = Len(frames) THEN new ELSE frames[i]
               /\ frames'[i].repo = frames[i].repo
         /\ Stacked' = Stacked /\ Done' = Done /\ Visited' = Visited
<1>1. frames # <<>> /\ frames \in Seq(Frame)
  BY DEF Types, RootInv, WalkType
<1>2. /\ DOMAIN frames' = DOMAIN frames /\ Len(frames) \in DOMAIN frames
      /\ \A i \in DOMAIN frames :
               /\ frames'[i] = IF i = Len(frames) THEN new ELSE frames[i]
               /\ frames'[i].repo = frames[i].repo
      /\ frames' # <<>>
  BY <1>1, PutTop, TopIs DEF Sees
<1>3. Stacked' = Stacked
  BY <1>2 DEF Stacked
<1>4. Done' = Done
  BY DEF Done, Sees
<1> QED
  BY <1>1, <1>2, <1>3, <1>4 DEF Visited

Entered(c) == [repo |-> c, extras |-> FALSE, left |-> world.modules[c]]

LEMMA EntersView ==
  ASSUME Types, pc = "mount", NEW c \in Paths, NEW old \in Frame, Enters(c, old)
  PROVE  /\ DOMAIN frames' = DOMAIN frames \cup {Len(frames) + 1}
         /\ Len(frames) \in DOMAIN frames /\ Len(frames) + 1 \notin DOMAIN frames
         /\ DOMAIN frames = 1 .. Len(frames) /\ frames # <<>> /\ frames' # <<>>
         /\ \A i \in DOMAIN frames :
               /\ frames'[i] = IF i = Len(frames) THEN old ELSE frames[i]
               /\ frames'[i].repo = frames[i].repo
         /\ frames'[Len(frames) + 1] = Entered(c)
         /\ Stacked' = Stacked \cup {c} /\ Done' = Done /\ Visited' = Visited \cup {c}
         /\ \A r \in Paths : kids'[r] = IF r = Top.repo THEN kids[r] \cup {c} ELSE kids[r]
<1>1. frames # <<>> /\ frames \in Seq(Frame)
  BY DEF Types, RootInv, WalkType
<1>2. Entered(c) \in Frame
  BY WorldType, FrameType DEF Types, FileType, Entered
<1>3. frames' = Append([frames EXCEPT ![Len(frames)] = old], Entered(c))
  BY DEF Enters, Entered
<1>4. /\ DOMAIN frames' = DOMAIN frames \cup {Len(frames) + 1}
      /\ \A i \in DOMAIN frames' :
            frames'[i] = IF i = Len(frames) + 1 THEN Entered(c)
                         ELSE IF i = Len(frames) THEN old ELSE frames[i]
      /\ Len(frames') = Len(frames) + 1
  BY <1>1, <1>2, <1>3, PushFrame
<1>5. /\ Len(frames) \in DOMAIN frames /\ Len(frames) + 1 \notin DOMAIN frames
      /\ DOMAIN frames = 1 .. Len(frames) /\ frames' # <<>>
  BY <1>1, <1>4, TopIs
<1>6. \A i \in DOMAIN frames :
               /\ frames'[i] = IF i = Len(frames) THEN old ELSE frames[i]
               /\ frames'[i].repo = frames[i].repo
  BY <1>1, <1>4, <1>5, TopIs DEF Enters
<1>7. frames'[Len(frames) + 1] = Entered(c) /\ Entered(c).repo = c
  BY <1>4 DEF Entered
<1>8. Stacked' = Stacked \cup {c}
  BY <1>4, <1>5, <1>6, <1>7 DEF Stacked
<1>9. Done' = Done
  BY DEF Done, Enters
<1>10. \A r \in Paths : kids'[r] = IF r = Top.repo THEN kids[r] \cup {c} ELSE kids[r]
  BY DEF Enters, Types, WalkType
<1> QED
  BY <1>1, <1>4, <1>5, <1>6, <1>7, <1>8, <1>9, <1>10 DEF Visited

LEMMA FinishesView ==
  ASSUME Types, Finishes
  PROVE  /\ DOMAIN frames' = DOMAIN frames \ {Len(frames)}
         /\ Len(frames) \in DOMAIN frames /\ DOMAIN frames = 1 .. Len(frames)
         /\ frames # <<>>
         /\ \A i \in DOMAIN frames' : frames'[i] = frames[i]
         /\ Stacked = Stacked' \cup {Top.repo} /\ Done' = Done \cup {Top.repo}
         /\ Visited' = Visited
         /\ DOMAIN order' = DOMAIN order \cup {Len(order) + 1}
         /\ DOMAIN order = 1 .. Len(order) /\ Len(order) \in Nat
         /\ \A i \in DOMAIN order : order'[i] = order[i]
         /\ order'[Len(order) + 1] = Top.repo
<1>1. frames # <<>> /\ frames \in Seq(Frame) /\ order \in Seq(Paths)
  BY DEF Types, RootInv, WalkType, Finishes
<1>2. /\ DOMAIN frames' = DOMAIN frames \ {Len(frames)}
      /\ \A i \in DOMAIN frames' : frames'[i] = frames[i]
  BY <1>1, PopFrame, FinishesSteps
<1>3. /\ Len(frames) \in DOMAIN frames /\ DOMAIN frames = 1 .. Len(frames)
      /\ Top = frames[Len(frames)]
  BY <1>1, TopIs
<1>4. Stacked = Stacked' \cup {Top.repo}
  BY <1>2, <1>3 DEF Stacked
<1>5. /\ DOMAIN order' = DOMAIN order \cup {Len(order) + 1}
      /\ DOMAIN order = 1 .. Len(order) /\ Len(order) \in Nat
      /\ \A i \in DOMAIN order : order'[i] = order[i]
      /\ order'[Len(order) + 1] = Top.repo
  <2>1. /\ order' \in Seq(Paths) /\ Len(order') = Len(order) + 1
        /\ \A i \in 1 .. Len(order) : order'[i] = order[i]
        /\ order'[Len(order')] = Top.repo
    BY FinishesSteps
  <2>2. Len(order) \in Nat /\ DOMAIN order = 1 .. Len(order)
    BY <1>1, LenProperties
  <2>3. DOMAIN order' = 1 .. Len(order')
    BY <2>1, LenProperties
  <2> QED
    BY <2>1, <2>2, <2>3
<1>6. Done' = Done \cup {Top.repo}
  BY <1>5 DEF Done, ToSet
<1> QED
  BY <1>1, <1>2, <1>3, <1>4, <1>5, <1>6 DEF Visited

-----------------------------------------------------------------------------
(* The steps of the walk keep the stack and the extra repositories.        *)

(* All calls under way are at directories above that of the last.          *)
LEMMA StackAbove ==
  ASSUME Types, StackInv, frames # <<>>, NEW v \in Stacked
  PROVE  IsPrefix(v, Top.repo)
<1>1. /\ DOMAIN frames = 1 .. Len(frames) /\ Len(frames) \in Nat \ {0}
      /\ Top = frames[Len(frames)]
  BY TopIs DEF Types, WalkType
<1>2. PICK i \in DOMAIN frames : v = frames[i].repo
  BY DEF Stacked
<1>3. Top.repo \in Stacked /\ v \in Paths /\ Top.repo \in Paths
  BY <1>1, VisitedType DEF Stacked
<1>4. CASE i = Len(frames)
  BY <1>1, <1>2, <1>3, <1>4, PathOrder
<1>5. CASE i # Len(frames)
  BY <1>1, <1>2, <1>3, <1>5, BelowOrder DEF StackInv
<1> QED
  BY <1>4, <1>5

LEMMA EntersStack ==
  ASSUME Types, StackInv, ScanInv, pc = "mount", NEW c \in Top.left, NEW e \in BOOLEAN,
         Enters(c, [repo |-> Top.repo, extras |-> e, left |-> Top.left \ {c}]),
         UNCHANGED <<world, root, extras>>
  PROVE  StackInv'
<1> DEFINE old == [repo |-> Top.repo, extras |-> e, left |-> Top.left \ {c}]
<1>1. /\ frames # <<>> /\ Top \in Frame /\ Top = frames[Len(frames)]
      /\ Len(frames) \in DOMAIN frames /\ Len(frames) \in Nat
      /\ DOMAIN frames = 1 .. Len(frames)
  BY TopIs DEF Types, RootInv, WalkType
<1>2. c \in Paths /\ Top.repo \in Paths /\ old \in Frame /\ root \in Paths
  BY <1>1, FrameType DEF Types, RootInv
<1>3. Below(Top.repo, c) /\ IsPrefix(root, c) /\ Top.repo \in Visited
  <2>1. Below(Top.repo, c)
    BY <1>1 DEF StackInv
  <2>2. Top.repo \in Visited /\ IsPrefix(root, Top.repo)
    BY <1>1 DEF StackInv, Visited, Stacked
  <2> QED
    BY <1>2, <2>1, <2>2, BelowOrder
<1>4. /\ DOMAIN frames' = DOMAIN frames \cup {Len(frames) + 1}
      /\ \A i \in DOMAIN frames :
               /\ frames'[i] = IF i = Len(frames) THEN old ELSE frames[i]
               /\ frames'[i].repo = frames[i].repo
      /\ frames'[Len(frames) + 1] = Entered(c) /\ Entered(c).repo = c
      /\ Entered(c).left = world.modules[c]
      /\ Visited' = Visited \cup {c}
      /\ \A r \in Paths : kids'[r] = IF r = Top.repo THEN kids[r] \cup {c} ELSE kids[r]
  BY <1>2, EntersView DEF Entered
<1>5. old.left = Top.left \ {c} /\ old.repo = Top.repo
  OBVIOUS
<1> HIDE DEF old
<1>6. frames'[1].repo = root
  BY <1>1, <1>4 DEF StackInv
<1>7. \A i, k \in DOMAIN frames' : i < k => Below(frames'[i].repo, frames'[k].repo)
  <2> SUFFICES ASSUME NEW i \in DOMAIN frames', NEW k \in DOMAIN frames', i < k
               PROVE  Below(frames'[i].repo, frames'[k].repo)
    OBVIOUS
  <2>1. CASE k \in DOMAIN frames
    <3>1. i \in DOMAIN frames
      BY <1>1, <1>4, <2>1
    <3> QED
      BY <1>4, <2>1, <3>1 DEF StackInv
  <2>2. CASE k = Len(frames) + 1
    <3>1. i \in DOMAIN frames /\ frames'[i].repo \in Stacked
      BY <1>1, <1>4, <2>2 DEF Stacked
    <3>2. IsPrefix(frames'[i].repo, Top.repo) /\ frames'[i].repo \in Paths
      BY <1>1, <3>1, StackAbove, VisitedType
    <3> QED
      BY <1>2, <1>3, <1>4, <2>2, <3>2, BelowOrder
  <2> QED
    BY <1>4, <2>1, <2>2
<1>8. \A i \in DOMAIN frames' : \A p \in frames'[i].left : Below(frames'[i].repo, p)
  <2> SUFFICES ASSUME NEW i \in DOMAIN frames', NEW p \in frames'[i].left
               PROVE  Below(frames'[i].repo, p)
    OBVIOUS
  <2>1. CASE i = Len(frames) + 1
    BY <1>2, <1>4, <2>1, LayoutAssumption DEF Below, Types, RootInv
  <2>2. CASE i = Len(frames)
    BY <1>1, <1>4, <1>5, <2>2 DEF StackInv
  <2>3. CASE i \in DOMAIN frames /\ i # Len(frames)
    BY <1>4, <2>3 DEF StackInv
  <2> QED
    BY <1>1, <1>4, <2>1, <2>2, <2>3
<1>9. \A v \in Visited' : v \in world.git /\ IsPrefix(root, v)
  BY <1>3, <1>4 DEF StackInv, Enters
<1>10. \A r \in Paths : \A k \in kids'[r] : Below(r, k) /\ k \in Visited' /\ r \in Visited'
  <2> SUFFICES ASSUME NEW r \in Paths, NEW k \in kids'[r]
               PROVE  Below(r, k) /\ k \in Visited' /\ r \in Visited'
    OBVIOUS
  <2>1. CASE k \in kids[r]
    BY <1>4, <2>1 DEF StackInv
  <2>2. CASE k \notin kids[r]
    <3>0. kids'[r] = IF r = Top.repo THEN kids[r] \cup {c} ELSE kids[r]
      BY <1>4
    <3>1. r = Top.repo /\ k = c
      BY <2>2, <3>0
    <3> QED
      BY <1>3, <1>4, <3>1
  <2> QED
    BY <2>1, <2>2
<1> QED
  BY <1>6, <1>7, <1>8, <1>9, <1>10 DEF StackInv, Enters, Below

LEMMA EntersExtras ==
  ASSUME Types, StackInv, ExtrasInv, pc = "mount", NEW c \in Top.left,
         Enters(c, [repo |-> Top.repo, extras |-> Top.extras, left |-> Top.left \ {c}]),
         UNCHANGED <<world, root, extras>>
  PROVE  ExtrasInv'
<1> DEFINE old == [repo |-> Top.repo, extras |-> Top.extras, left |-> Top.left \ {c}]
<1>1. /\ frames # <<>> /\ Top \in Frame /\ Top = frames[Len(frames)]
      /\ Len(frames) \in DOMAIN frames
  BY TopIs DEF Types, RootInv, WalkType
<1>2. c \in Paths /\ Top.repo \in Paths /\ old \in Frame
  BY <1>1, FrameType
<1>3. /\ DOMAIN frames' = DOMAIN frames \cup {Len(frames) + 1}
      /\ \A i \in DOMAIN frames :
               /\ frames'[i] = IF i = Len(frames) THEN old ELSE frames[i]
               /\ frames'[i].repo = frames[i].repo
      /\ frames'[Len(frames) + 1] = Entered(c) /\ ~Entered(c).extras
      /\ Done' = Done
      /\ \A r \in Paths : kids'[r] = IF r = Top.repo THEN kids[r] \cup {c} ELSE kids[r]
  BY <1>2, EntersView DEF Entered
<1>4. old.left = Top.left \ {c} /\ old.extras = Top.extras
  OBVIOUS
<1>5. IsPrefix(c, c)
  BY <1>2, PathOrder
<1> HIDE DEF old
<1>6. ASSUME NEW i \in DOMAIN frames', frames'[i].extras, NEW p \in extras,
             Below(frames'[i].repo, p)
      PROVE  p \in frames'[i].left \/ \E k \in kids'[frames'[i].repo] : IsPrefix(k, p)
  <2>1. i \in DOMAIN frames /\ frames[i].extras /\ frames'[i].repo = frames[i].repo
    BY <1>1, <1>3, <1>4, <1>6
  <2>2. frames[i].repo \in Paths
    BY <2>1, VisitedType DEF Stacked
  <2>3. p \in frames[i].left \/ \E k \in kids[frames[i].repo] : IsPrefix(k, p)
    BY <1>6, <2>1 DEF ExtrasInv
  <2>4. kids[frames[i].repo] \subseteq kids'[frames[i].repo]
    BY <1>3, <2>2
  <2>5. CASE i = Len(frames)
    <3>1. frames'[i].left = Top.left \ {c} /\ frames[i].repo = Top.repo
      BY <1>1, <1>3, <1>4, <2>1, <2>5
    <3>2. c \in kids'[frames[i].repo]
      BY <1>3, <2>2, <3>1
    <3>3. p = c => \E k \in kids'[frames[i].repo] : IsPrefix(k, p)
      BY <1>5, <3>2
    <3> QED
      BY <1>1, <2>1, <2>3, <2>4, <2>5, <3>1, <3>3
  <2>6. CASE i # Len(frames)
    BY <1>3, <2>1, <2>3, <2>4, <2>6
  <2> QED
    BY <2>5, <2>6
<1>7. \A r \in Done' : \A p \in extras : Below(r, p) => p \in Done'
  BY <1>3 DEF ExtrasInv
<1> QED
  BY <1>6, <1>7 DEF ExtrasInv, Below

(* A step that keeps the repositories of the stack.                        *)
LEMMA SeesStack ==
  ASSUME Types, StackInv, pc = "mount", NEW new \in Frame, Sees(new),
         UNCHANGED <<world, root, extras>>,
         \A p \in new.left : Below(Top.repo, p)
  PROVE  StackInv'
<1>1. /\ DOMAIN frames' = DOMAIN frames /\ Len(frames) \in DOMAIN frames
      /\ \A i \in DOMAIN frames :
               /\ frames'[i] = IF i = Len(frames) THEN new ELSE frames[i]
               /\ frames'[i].repo = frames[i].repo
      /\ Visited' = Visited /\ frames # <<>>
      /\ Top = frames[Len(frames)]
  BY SeesView DEF Top, Last
<1>2. kids' = kids /\ pc' = "mount" /\ new.repo = Top.repo
  BY DEF Sees
<1>3. frames'[1].repo = root
  <2>1. 1 \in DOMAIN frames
    BY <1>1, TopIs DEF Types, WalkType
  <2> QED
    BY <1>1, <2>1 DEF StackInv
<1>4. \A i, k \in DOMAIN frames' : i < k => Below(frames'[i].repo, frames'[k].repo)
  BY <1>1 DEF StackInv
<1>5. \A i \in DOMAIN frames' : \A p \in frames'[i].left : Below(frames'[i].repo, p)
  BY <1>1, <1>2 DEF StackInv
<1>6. /\ \A v \in Visited' : v \in world.git /\ IsPrefix(root, v)
      /\ \A r \in Paths : \A k \in kids'[r] : Below(r, k) /\ k \in Visited' /\ r \in Visited'
  BY <1>1, <1>2 DEF StackInv
<1> QED
  BY <1>2, <1>3, <1>4, <1>5, <1>6 DEF StackInv, Below

LEMMA SeesExtras ==
  ASSUME Types, ExtrasInv, pc = "mount", NEW new \in Frame, Sees(new),
         UNCHANGED <<world, root, extras>>,
         new.extras => \A p \in extras : Below(Top.repo, p) =>
                           p \in new.left \/ \E k \in kids[Top.repo] : IsPrefix(k, p)
  PROVE  ExtrasInv'
<1>1. /\ DOMAIN frames' = DOMAIN frames /\ Len(frames) \in DOMAIN frames
      /\ \A i \in DOMAIN frames :
               /\ frames'[i] = IF i = Len(frames) THEN new ELSE frames[i]
               /\ frames'[i].repo = frames[i].repo
      /\ Done' = Done
      /\ Top = frames[Len(frames)]
  BY SeesView DEF Top, Last
<1>2. kids' = kids /\ new.repo = Top.repo
  BY DEF Sees
<1> QED
  BY <1>1, <1>2 DEF ExtrasInv, Below

LEMMA FinishesStack ==
  ASSUME Types, StackInv, Finishes
  PROVE  StackInv'
<1>1. /\ DOMAIN frames' = DOMAIN frames \ {Len(frames)}
      /\ DOMAIN frames = 1 .. Len(frames) /\ Len(frames) \in DOMAIN frames
      /\ \A i \in DOMAIN frames' : frames'[i] = frames[i]
      /\ Visited' = Visited
  BY FinishesView
<1>2. UNCHANGED <<world, root, kids>>
  BY FinishesSteps
<1>3. frames' # <<>> => frames'[1].repo = root
  <2> SUFFICES ASSUME frames' # <<>> PROVE frames'[1].repo = root
    OBVIOUS
  <2>1. frames' \in Seq(Frame)
    BY FinishesSteps
  <2>2. 1 \in DOMAIN frames'
    BY <2>1
  <2> QED
    BY <1>1, <2>2, FinishesView DEF StackInv
<1>4. /\ \A i, k \in DOMAIN frames' : i < k => Below(frames'[i].repo, frames'[k].repo)
      /\ \A i \in DOMAIN frames' : \A p \in frames'[i].left : Below(frames'[i].repo, p)
  BY <1>1 DEF StackInv
<1>5. pc' = "mounted" => frames' = <<>> /\ order' # <<>> /\ Last(order') = root
  <2> SUFFICES ASSUME pc' = "mounted"
               PROVE  frames' = <<>> /\ order' # <<>> /\ Last(order') = root
    OBVIOUS
  <2>1. Len(frames) = 1 /\ frames # <<>>
    BY FinishesSteps, FinishesView
  <2>2. Top.repo = root
    BY <2>1 DEF StackInv, Top, Last
  <2>3. frames' = <<>>
    <3>1. frames' \in Seq(Frame) /\ Len(frames') = 0
      BY <2>1, FinishesSteps, PopFrame DEF Types, WalkType
    <3> QED
      BY <3>1
  <2>4. order' # <<>> /\ Last(order') = Top.repo
    BY FinishesSteps, FinishesView DEF Last
  <2> QED
    BY <2>2, <2>3, <2>4
<1>6. /\ \A v \in Visited' : v \in world.git /\ IsPrefix(root, v)
      /\ \A r \in Paths : \A k \in kids'[r] : Below(r, k) /\ k \in Visited' /\ r \in Visited'
  BY <1>1, <1>2 DEF StackInv
<1> QED
  BY <1>2, <1>3, <1>4, <1>5, <1>6 DEF StackInv, Below

(* What is mounted in the repository that is finished, is finished.        *)
LEMMA KidsDone ==
  ASSUME Types, StackInv, frames # <<>>
  PROVE  kids[Top.repo] \subseteq Done
<1>1. Top.repo \in Paths
  BY TopIs, FrameType DEF Types, WalkType
<1>2. ASSUME NEW k \in kids[Top.repo], k \in Stacked PROVE FALSE
  <2>1. Below(Top.repo, k) /\ IsPrefix(k, Top.repo) /\ k \in Paths
    BY <1>1, <1>2, StackAbove, VisitedType DEF StackInv
  <2> QED
    BY <1>1, <2>1, BelowOrder
<1> QED
  BY <1>1, <1>2 DEF StackInv, Visited

LEMMA FinishesExtras ==
  ASSUME Types, StackInv, ExtrasInv, ScanInv, Finishes
  PROVE  ExtrasInv'
<1>1. /\ DOMAIN frames' = DOMAIN frames \ {Len(frames)} /\ Len(frames) \in DOMAIN frames
      /\ \A i \in DOMAIN frames' : frames'[i] = frames[i]
      /\ Done' = Done \cup {Top.repo} /\ frames # <<>>
      /\ Top = frames[Len(frames)]
  BY FinishesView DEF Top, Last
<1>2. /\ pc = "mount" /\ UNCHANGED <<world, root, kids, extras>>
      /\ Top.extras /\ Top.left = {} /\ Top.repo \in Paths
  BY FinishesSteps
<1>3. ASSUME NEW p \in extras, Below(Top.repo, p) PROVE p \in Done'
  <2>1. PICK k \in kids[Top.repo] : IsPrefix(k, p)
    BY <1>1, <1>2, <1>3 DEF ExtrasInv
  <2>2. k \in Done /\ k \in Paths /\ p \in Paths
    BY <1>1, <2>1, KidsDone, VisitedType DEF Types, WalkType
  <2>3. k = p \/ Below(k, p)
    BY <2>1, <2>2, BelowOrder
  <2> QED
    BY <1>1, <2>2, <2>3 DEF ExtrasInv
<1>4. \A r \in Done' : \A p \in extras : Below(r, p) => p \in Done'
  BY <1>1, <1>3 DEF ExtrasInv
<1>5. \A i \in DOMAIN frames' : frames'[i].extras =>
          \A p \in extras : Below(frames'[i].repo, p) =>
              p \in frames'[i].left \/ \E k \in kids[frames'[i].repo] : IsPrefix(k, p)
  BY <1>1 DEF ExtrasInv
<1> QED
  BY <1>2, <1>4, <1>5 DEF ExtrasInv, Below

(* The walk begins with a call for the root.                               *)
LEMMA FiltersView ==
  ASSUME Types, ScanInv, Filters, pc' = "mount"
  PROVE  /\ root \in Paths /\ root \in world.git /\ UNCHANGED <<world, root, kids>>
         /\ DOMAIN frames' = {1} /\ frames' # <<>> /\ Len(frames') = 1
         /\ frames'[1].repo = root /\ frames'[1].extras = FALSE
         /\ frames'[1].left = world.modules[root]
         /\ \A r \in Paths : kids'[r] = {}
         /\ order' = <<>> /\ DOMAIN order' = {}
         /\ Stacked' = {root} /\ Done' = {} /\ Visited' = {root}
<1> DEFINE first == [repo |-> root, extras |-> FALSE, left |-> world.modules[root]]
<1>1. /\ frames' = <<first>> /\ root \in world.git
      /\ UNCHANGED <<world, root, kids, order>> /\ pc = "register"
  BY DEF Filters
<1>2. root \in Paths /\ order' = <<>> /\ \A r \in Paths : kids'[r] = {}
  BY <1>1 DEF Types, RootInv, ScanInv
<1>3. /\ DOMAIN frames' = {1} /\ frames' # <<>> /\ frames'[1] = first
      /\ Len(frames') = 1
  <2> HIDE DEF first
  <2> QED
    BY <1>1
<1>4. Stacked' = {root}
  BY <1>3 DEF Stacked
<1>5. Done' = {} /\ DOMAIN order' = {}
  BY <1>2 DEF Done, ToSet
<1> QED
  BY <1>1, <1>2, <1>3, <1>4, <1>5 DEF Visited

LEMMA FiltersWalk ==
  ASSUME Types, ScanInv, Filters
  PROVE  WalkInv'
<1> SUFFICES ASSUME pc' = "mount" PROVE StackInv' /\ ExtrasInv'
  BY DEF WalkInv, Filters
<1>1. \A m \in world.modules[root] : Below(root, m)
  BY FiltersView, LayoutAssumption DEF Types, RootInv, Below
<1>2. IsPrefix(root, root)
  BY FiltersView, PathOrder
<1>3. /\ frames'[1].repo = root' /\ DOMAIN frames' = {1}
      /\ \A p \in frames'[1].left : Below(frames'[1].repo, p)
  BY <1>1, FiltersView
<1>4. StackInv'
  BY <1>2, <1>3, FiltersView DEF StackInv, Below
<1>5. ExtrasInv'
  BY <1>3, FiltersView DEF ExtrasInv
<1> QED
  BY <1>4, <1>5

LEMMA WalkLater ==
  ASSUME WalkInv, UNCHANGED <<world, root, extras, frames, kids, order>>, pc' = pc
  PROVE  WalkInv'
<1>1. Stacked' = Stacked /\ Done' = Done /\ Visited' = Visited
  BY DEF Stacked, Done, Visited
<1> QED
  BY <1>1 DEF WalkInv, StackInv, ExtrasInv, Below

LEMMA WalkStep == Types /\ ScanInv /\ WalkInv /\ [Next]_vars => WalkInv'
<1> SUFFICES ASSUME Types, ScanInv, WalkInv, [Next]_vars PROVE WalkInv'
  OBVIOUS
<1>1. CASE Locates \/ Merged \/ Scans \/ (\E at \in Paths \cup {User} : Merges(at))
           \/ \E r \in Paths : Registers(r)
  BY <1>1 DEF Locates, Merged, Scans, Merges, Registers, WalkInv
<1>2. CASE UNCHANGED vars
  BY <1>2, WalkLater DEF vars, walk
<1>3. CASE Filters
  BY <1>3, FiltersWalk
<1>4. CASE Finishes
  <2>1. StackInv' /\ ExtrasInv'
    BY <1>4, FinishesSteps, FinishesStack, FinishesExtras DEF WalkInv
  <2> QED
    BY <2>1 DEF WalkInv
<1> DEFINE quiet == UNCHANGED <<world, files, machines, root, state, registered,
                                owners, extras>>
<1>5. Halts => WalkInv'
  BY DEF Halts, WalkInv
<1>6. ASSUME NEW c \in Top.left, pc = "mount", quiet,
             Enters(c, [repo |-> Top.repo, extras |-> Top.extras, left |-> Top.left \ {c}])
      PROVE  WalkInv'
  <2>1. Top.extras \in BOOLEAN
    BY <1>6, TopIs, FrameType DEF Types, RootInv, WalkType
  <2>2. StackInv' /\ ExtrasInv'
    BY <1>6, <2>1, EntersStack, EntersExtras DEF WalkInv
  <2> QED
    BY <2>2 DEF WalkInv
<1>7. ASSUME NEW l \in SUBSET Paths, pc = "mount", quiet,
             Sees([repo |-> Top.repo, extras |-> TRUE, left |-> l]),
             \A p \in l : Below(Top.repo, p),
             \A p \in extras : Below(Top.repo, p) =>
                 p \in l \/ \E k \in kids[Top.repo] : IsPrefix(k, p)
      PROVE  WalkInv'
  <2> DEFINE new == [repo |-> Top.repo, extras |-> TRUE, left |-> l]
  <2>1. new \in Frame
    BY <1>7, TopIs, FrameType DEF Types, RootInv, WalkType
  <2>2. new.left = l /\ Sees(new)
    BY <1>7
  <2> HIDE DEF new
  <2>3. StackInv'
    BY <1>7, <2>1, <2>2, SeesStack DEF WalkInv
  <2>4. ExtrasInv'
    BY <1>7, <2>1, <2>2, SeesExtras DEF WalkInv
  <2> QED
    BY <2>3, <2>4 DEF WalkInv
<1>8. ASSUME NEW m \in Paths, MountsModule(m) PROVE WalkInv'
  <2>1. Top.extras = FALSE
    <3>1. Top.extras \in BOOLEAN
      BY <1>8, TopIs, FrameType DEF MountsModule, Types, RootInv, WalkType
    <3> QED
      BY <1>8, <3>1, ModulesSteps
  <2> QED
    BY <1>5, <1>6, <1>8, <2>1, ModulesSteps
<1>9. CASE ModulesDone
  <2>1. Candidates \in SUBSET Paths /\ \A p \in Candidates : Below(Top.repo, p)
    BY DEF Candidates, Types, WalkType, Below
  <2>2. ASSUME NEW p \in extras, Below(Top.repo, p)
        PROVE  p \in Candidates \/ \E k \in kids[Top.repo] : IsPrefix(k, p)
    <3>1. p \in Paths /\ IsPrefix(p, p)
      BY PathOrder DEF Types, WalkType
    <3> QED
      BY <2>2, <3>1 DEF Candidates, Below
  <2> QED
    BY <1>7, <1>9, <2>1, <2>2, ModulesDoneSteps
<1>10. ASSUME NEW p \in Paths, MountsExtra(p) PROVE WalkInv'
  <2>1. /\ Top.extras = TRUE /\ Top.left \in SUBSET Paths
        /\ Top = frames[Len(frames)] /\ Len(frames) \in DOMAIN frames /\ pc = "mount"
    BY <1>10, TopIs, FrameType DEF MountsExtra, Types, RootInv, WalkType
  <2>2. CASE InsideChild(p) /\ Sees([repo |-> Top.repo, extras |-> TRUE, left |-> Top.left \ {p}])
    <3>1. \A q \in extras : Below(Top.repo, q) =>
              q \in Top.left \ {p} \/ \E k \in kids[Top.repo] : IsPrefix(k, q)
      BY <2>1, <2>2 DEF InsideChild, WalkInv, ExtrasInv
    <3>2. \A q \in Top.left \ {p} : Below(Top.repo, q)
      BY <2>1 DEF WalkInv, StackInv
    <3> QED
      BY <1>7, <1>10, <2>1, <2>2, <3>1, <3>2, ExtrasSteps
  <2> QED
    BY <1>5, <1>6, <1>10, <2>1, <2>2, ExtrasSteps
<1> QED
  BY <1>1, <1>2, <1>3, <1>4, <1>8, <1>9, <1>10 DEF Next

(* All extra repositories are mounted in the end.                          *)
LEMMA ExtrasDone ==
  ASSUME Types, ScanInv, WalkInv, pc = "mounted"
  PROVE  root \in Done /\ extras \subseteq Done
<1>1. order # <<>> /\ Last(order) = root /\ ExtrasInv
  BY DEF WalkInv, StackInv
<1>2. root \in Done
  BY <1>1, LenProperties DEF Last, Done, ToSet, Types, WalkType
<1> QED
  BY <1>1, <1>2 DEF ScanInv, ExtrasInv

(* Every registered worktree of a repository at the top and every other    *)
(* repository at the top that is not ignored is in the tree, whatever      *)
(* repositories, submodules and worktrees there are.                       *)
THEOREM AllMounted == Spec => []NothingForgotten
<1>1. Types /\ ScanInv /\ WalkInv => NothingForgotten
  BY ExtrasDone DEF NothingForgotten, ScanInv, Wanted, Done
<1> QED
  BY <1>1, TypeInit, TypeStep, ScanInit, ScanStep, WalkStep, PTL DEF Spec

-----------------------------------------------------------------------------
(* The invariant behind TreeSound: what is mounted so far is a tree along  *)
(* the paths, and the call on top may extend it.                           *)

ReachInv == \A u, v \in Visited : Below(u, v) => \E k \in kids[u] : IsPrefix(k, v)

ApartInv == \A u \in Paths : \A k, l \in kids[u] : IsPrefix(k, l) => k = l

OnceInv == IsInjective(order) /\ Done \cap Stacked = {}

(* The submodules come first, the extra repositories by depth.             *)
Turns(f) ==
    /\ f.left \cap kids[f.repo] = {}
    /\ ~f.extras => /\ f.left \subseteq world.modules[f.repo]
                    /\ kids[f.repo] \subseteq world.modules[f.repo]
                    /\ world.modules[f.repo] \subseteq f.left \cup kids[f.repo]
    /\ f.extras => /\ world.modules[f.repo] \subseteq kids[f.repo]
                   /\ f.left \subseteq extras
                   /\ \A k \in kids[f.repo] : \/ k \in world.modules[f.repo]
                                              \/ \A p \in f.left : Len(k) <= Len(p)

TurnsInv == \A i \in DOMAIN frames : Turns(frames[i])

PostInv ==
    /\ \A r \in Done : world.modules[r] \subseteq kids[r]
    /\ \A i \in DOMAIN order : \A k \in kids[order[i]] :
          \E j \in DOMAIN order : j < i /\ order[j] = k

TreeInv ==
    pc \in {"mount", "mounted"} /\ Tidy =>
        ReachInv /\ ApartInv /\ OnceInv /\ TurnsInv /\ PostInv

(* The repository to be mounted lies beside all that is mounted there.     *)
LEMMA EntersApart ==
  ASSUME Types, StackInv, ScanInv, pc = "mount", Tidy, TurnsInv, NEW c \in Top.left,
         c \in world.git,
         Top.extras => ~InsideChild(c) /\ \A o \in Top.left : Len(c) <= Len(o)
  PROVE  \A k \in kids[Top.repo] : ~IsPrefix(k, c) /\ ~IsPrefix(c, k)
<1>1. /\ frames # <<>> /\ Top \in Frame /\ Top = frames[Len(frames)]
      /\ Len(frames) \in DOMAIN frames
  BY TopIs DEF Types, RootInv, WalkType
<1>2. /\ c \in Paths /\ Top.repo \in Paths /\ Top.repo \in Visited
      /\ Below(Top.repo, c) /\ Turns(Top) /\ Top.repo \in world.git
  BY <1>1, FrameType DEF StackInv, TurnsInv, Visited, Stacked
<1> SUFFICES ASSUME NEW k \in kids[Top.repo] PROVE ~IsPrefix(k, c) /\ ~IsPrefix(c, k)
  OBVIOUS
<1>3. k \in world.git /\ k \in Paths /\ Below(Top.repo, k) /\ k # c
  BY <1>2, VisitedType DEF StackInv, Turns
<1>4. Top.repo # k /\ Top.repo # c /\ IsPrefix(Top.repo, k) /\ IsPrefix(Top.repo, c)
  BY <1>2, <1>3, BelowOrder
<1>5. k \in world.modules[Top.repo] => ~IsPrefix(c, k)
  BY <1>2, <1>3, <1>4 DEF Tidy
<1>6. CASE ~Top.extras
  <2>1. k \in world.modules[Top.repo] /\ c \in world.modules[Top.repo]
    BY <1>2, <1>6 DEF Turns
  <2>2. ~IsPrefix(k, c)
    BY <1>2, <1>3, <1>4, <2>1 DEF Tidy
  <2> QED
    BY <1>5, <2>1, <2>2
<1>7. CASE Top.extras
  <2>1. ~IsPrefix(k, c)
    BY <1>3, <1>7 DEF InsideChild
  <2>2. k \notin world.modules[Top.repo] => Len(k) <= Len(c)
    BY <1>2, <1>7 DEF Turns
  <2>3. k \notin world.modules[Top.repo] => ~IsPrefix(c, k)
    BY <1>2, <1>3, <2>2, SamePath
  <2> QED
    BY <1>5, <2>1, <2>3
<1> QED
  BY <1>6, <1>7

LEMMA EntersFresh ==
  ASSUME Types, StackInv, pc = "mount", ReachInv, NEW c \in Top.left,
         \A k \in kids[Top.repo] : ~IsPrefix(k, c) /\ ~IsPrefix(c, k)
  PROVE  /\ \A v \in Visited : Below(Top.repo, v) => ~IsPrefix(c, v) /\ ~IsPrefix(v, c)
         /\ c \notin Visited /\ kids[c] = {}
<1>1. /\ frames # <<>> /\ Top \in Frame /\ Top = frames[Len(frames)]
      /\ Len(frames) \in DOMAIN frames
  BY TopIs DEF Types, RootInv, WalkType
<1>2. /\ c \in Paths /\ Top.repo \in Paths /\ Top.repo \in Visited /\ Below(Top.repo, c)
  BY <1>1, FrameType DEF StackInv, Visited, Stacked
<1>3. ASSUME NEW v \in Visited, Below(Top.repo, v)
      PROVE  ~IsPrefix(c, v) /\ ~IsPrefix(v, c)
  <2>1. PICK k \in kids[Top.repo] : IsPrefix(k, v)
    BY <1>2, <1>3 DEF ReachInv
  <2>2. v \in Paths /\ k \in Paths /\ ~IsPrefix(k, c) /\ ~IsPrefix(c, k)
    BY <1>2, <2>1, VisitedType DEF StackInv
  <2>3. ~IsPrefix(v, c)
    BY <1>2, <2>1, <2>2, PathOrder
  <2>4. ~IsPrefix(c, v)
    <3>1. Len(c) \in Nat /\ Len(k) \in Nat
      BY <1>2, <2>2, PrefixMeans
    <3> QED
      BY <1>2, <2>1, <2>2, <3>1, PathOrder
  <2> QED
    BY <2>3, <2>4
<1>4. c \notin Visited
  BY <1>2, <1>3, PathOrder
<1>5. kids[c] = {}
  BY <1>2, <1>4 DEF StackInv
<1> QED
  BY <1>3, <1>4, <1>5

(* Mounting another repository in the call on top.                         *)
LEMMA EntersTree ==
  ASSUME Types, StackInv, ScanInv, pc = "mount", Tidy,
         ReachInv, ApartInv, OnceInv, TurnsInv, PostInv, NEW c \in Top.left,
         Top.extras => ~InsideChild(c) /\ \A o \in Top.left : Len(c) <= Len(o),
         Enters(c, [repo |-> Top.repo, extras |-> Top.extras, left |-> Top.left \ {c}]),
         UNCHANGED <<world, root, extras>>
  PROVE  ReachInv' /\ ApartInv' /\ OnceInv' /\ TurnsInv' /\ PostInv'
<1> DEFINE old == [repo |-> Top.repo, extras |-> Top.extras, left |-> Top.left \ {c}]
           r == Top.repo
<1>1. /\ frames # <<>> /\ Top \in Frame /\ Top = frames[Len(frames)]
      /\ Len(frames) \in DOMAIN frames /\ DOMAIN frames = 1 .. Len(frames)
      /\ Len(frames) \in Nat
  BY TopIs DEF Types, RootInv, WalkType
<1>2. /\ c \in Paths /\ r \in Paths /\ old \in Frame /\ c \in world.git
      /\ Top.extras \in BOOLEAN /\ r \in Stacked /\ r \in Visited /\ Below(r, c)
  BY <1>1, FrameType DEF Enters, Stacked, Visited, StackInv
<1>3. /\ DOMAIN frames' = DOMAIN frames \cup {Len(frames) + 1}
      /\ \A i \in DOMAIN frames :
               /\ frames'[i] = IF i = Len(frames) THEN old ELSE frames[i]
               /\ frames'[i].repo = frames[i].repo
      /\ frames'[Len(frames) + 1] = Entered(c)
      /\ Done' = Done /\ Stacked' = Stacked \cup {c} /\ Visited' = Visited \cup {c}
      /\ \A u \in Paths : kids'[u] = IF u = r THEN kids[u] \cup {c} ELSE kids[u]
  BY <1>2, EntersView
<1>4. old.repo = r /\ old.left = Top.left \ {c} /\ old.extras = Top.extras
  OBVIOUS
<1>5. /\ Entered(c).repo = c /\ Entered(c).left = world.modules[c]
      /\ Entered(c).extras = FALSE
  BY DEF Entered
<1>6. \A k \in kids[r] : ~IsPrefix(k, c) /\ ~IsPrefix(c, k)
  BY <1>2, EntersApart
<1>7. /\ \A v \in Visited : Below(r, v) => ~IsPrefix(c, v) /\ ~IsPrefix(v, c)
      /\ c \notin Visited /\ kids[c] = {} /\ c # r
  BY <1>2, <1>6, EntersFresh
<1>8. order' = order
  BY DEF Enters
<1> HIDE DEF old
<1>9. ReachInv'
  <2> SUFFICES ASSUME NEW u \in Visited', NEW v \in Visited', Below(u, v)
               PROVE  \E k \in kids'[u] : IsPrefix(k, v)
    BY DEF ReachInv, Below
  <2>1. u \in Paths /\ v \in Paths
    BY <1>2, <1>3, VisitedType
  <2>2. kids[u] \subseteq kids'[u]
    BY <1>3, <2>1
  <2>3. u # c
    <3> SUFFICES ASSUME u = c PROVE FALSE
      OBVIOUS
    <3>1. v # c
      BY <1>2, <2>1, BelowOrder
    <3>2. v \in Visited /\ Below(r, v) /\ IsPrefix(c, v)
      BY <1>2, <1>3, <2>1, <3>1, BelowOrder
    <3> QED
      BY <1>7, <3>2
  <2>4. CASE v # c
    BY <1>3, <2>2, <2>3, <2>4 DEF ReachInv
  <2>5. CASE v = c
    <3>1. u \in Visited /\ IsPrefix(u, c) /\ IsPrefix(r, c)
      BY <1>2, <1>3, <2>1, <2>3, <2>5, BelowOrder
    <3>2. ~Below(r, u)
      BY <1>7, <3>1
    <3>3. IsPrefix(u, r) \/ IsPrefix(r, u)
      <4>1. Len(u) \in Nat /\ Len(r) \in Nat
        BY <1>2, <2>1, PrefixMeans
      <4> QED
        BY <1>2, <2>1, <3>1, <4>1, PathOrder
    <3>4. u = r \/ Below(u, r)
      BY <1>2, <2>1, <3>2, <3>3, BelowOrder
    <3>5. CASE u = r
      <4>1. c \in kids'[u] /\ IsPrefix(c, c)
        BY <1>2, <1>3, <3>5, PathOrder
      <4> QED
        BY <2>5, <4>1
    <3>6. CASE Below(u, r)
      <4>1. PICK k \in kids[u] : IsPrefix(k, r)
        BY <1>2, <3>1, <3>6 DEF ReachInv
      <4>2. k \in Paths /\ IsPrefix(k, c)
        BY <1>2, <2>1, <3>1, <4>1, PathOrder DEF Types, WalkType
      <4> QED
        BY <2>2, <2>5, <4>1, <4>2
    <3> QED
      BY <3>4, <3>5, <3>6
  <2> QED
    BY <2>4, <2>5
<1>10. ApartInv'
  <2> SUFFICES ASSUME NEW u \in Paths, NEW k \in kids'[u], NEW l \in kids'[u],
                      IsPrefix(k, l)
               PROVE  k = l
    BY DEF ApartInv
  <2>1. kids'[u] = IF u = r THEN kids[u] \cup {c} ELSE kids[u]
    BY <1>3
  <2>2. CASE u = r
    BY <1>6, <2>1, <2>2 DEF ApartInv
  <2>3. CASE u # r
    BY <2>1, <2>3 DEF ApartInv
  <2> QED
    BY <2>2, <2>3
<1>11. OnceInv'
  BY <1>3, <1>7, <1>8 DEF OnceInv, Visited
<1>12. TurnsInv'
  <2> SUFFICES ASSUME NEW i \in DOMAIN frames' PROVE Turns(frames[i])'
    BY DEF TurnsInv
  <2>1. CASE i = Len(frames) + 1
    <3>1. kids'[c] = {}
      BY <1>2, <1>3, <1>7
    <3> QED
      BY <1>3, <1>5, <2>1, <3>1 DEF Turns
  <2>2. CASE i = Len(frames)
    <3>1. frames'[i] = old /\ kids'[r] = kids[r] \cup {c}
      BY <1>1, <1>2, <1>3, <2>2
    <3>2. Turns(Top)
      BY <1>1 DEF TurnsInv
    <3>3. old.left \cap kids'[r] = {}
      BY <1>4, <3>1, <3>2 DEF Turns
    <3>4. CASE ~Top.extras
      BY <1>4, <3>1, <3>2, <3>3, <3>4 DEF Turns
    <3>5. CASE Top.extras
      <4>1. \A k \in kids'[r] : \/ k \in world.modules[r]
                                \/ \A p \in old.left : Len(k) <= Len(p)
        BY <1>4, <3>1, <3>2, <3>5 DEF Turns
      <4> QED
        BY <1>4, <3>1, <3>2, <3>3, <3>5, <4>1 DEF Turns
    <3> QED
      BY <3>4, <3>5
  <2>3. CASE i \in DOMAIN frames /\ i # Len(frames)
    <3>1. frames'[i] = frames[i] /\ frames[i].repo \in Paths
      BY <1>3, <2>3, VisitedType DEF Stacked
    <3>2. Below(frames[i].repo, r)
      BY <1>1, <2>3 DEF StackInv
    <3>3. kids'[frames[i].repo] = kids[frames[i].repo]
      BY <1>2, <1>3, <3>1, <3>2, BelowOrder
    <3> QED
      BY <2>3, <3>1, <3>3 DEF Turns, TurnsInv
  <2> QED
    BY <1>3, <2>1, <2>2, <2>3
<1>13. PostInv'
  <2>1. \A u \in Done : u \in Paths /\ kids'[u] = kids[u]
    BY <1>2, <1>3, VisitedType DEF OnceInv
  <2>2. \A i \in DOMAIN order : order[i] \in Done
    BY DEF Done, ToSet
  <2> QED
    BY <1>3, <1>8, <2>1, <2>2 DEF PostInv
<1> QED
  BY <1>9, <1>10, <1>11, <1>12, <1>13

(* The call on top turns to the extra repositories, or leaves one of them  *)
(* to a child.                                                             *)
LEMMA SeesTree ==
  ASSUME Types, StackInv, pc = "mount",
         ReachInv, ApartInv, OnceInv, TurnsInv, PostInv, NEW new \in Frame, Sees(new),
         UNCHANGED <<world, root, extras>>, Turns(new)
  PROVE  ReachInv' /\ ApartInv' /\ OnceInv' /\ TurnsInv' /\ PostInv'
<1>1. /\ DOMAIN frames' = DOMAIN frames
      /\ \A i \in DOMAIN frames : frames'[i] = IF i = Len(frames) THEN new ELSE frames[i]
      /\ Stacked' = Stacked /\ Done' = Done /\ Visited' = Visited
  BY SeesView
<1>2. kids' = kids /\ order' = order
  BY DEF Sees
<1>3. ReachInv' /\ ApartInv'
  BY <1>1, <1>2 DEF ReachInv, ApartInv, Below
<1>4. OnceInv' /\ PostInv'
  BY <1>1, <1>2 DEF OnceInv, PostInv
<1>5. TurnsInv'
  <2> SUFFICES ASSUME NEW i \in DOMAIN frames' PROVE Turns(frames[i])'
    BY DEF TurnsInv
  <2>1. Turns(frames'[i])
    BY <1>1 DEF TurnsInv
  <2> QED
    BY <1>2, <2>1 DEF Turns
<1> QED
  BY <1>3, <1>4, <1>5

(* Returning from a call: what it mounted has been finished before.        *)
LEMMA FinishesTree ==
  ASSUME Types, StackInv,
         ReachInv, ApartInv, OnceInv, TurnsInv, PostInv, Finishes
  PROVE  ReachInv' /\ ApartInv' /\ OnceInv' /\ TurnsInv' /\ PostInv'
<1> DEFINE r == Top.repo
<1>1. /\ DOMAIN frames' = DOMAIN frames \ {Len(frames)}
      /\ Len(frames) \in DOMAIN frames /\ DOMAIN frames = 1 .. Len(frames)
      /\ frames # <<>> /\ Top = frames[Len(frames)]
      /\ \A i \in DOMAIN frames' : frames'[i] = frames[i]
      /\ Done' = Done \cup {r} /\ Visited' = Visited
      /\ DOMAIN order' = DOMAIN order \cup {Len(order) + 1}
      /\ DOMAIN order = 1 .. Len(order) /\ Len(order) \in Nat
      /\ \A i \in DOMAIN order : order'[i] = order[i]
      /\ order'[Len(order) + 1] = r
  BY FinishesView DEF Top, Last
<1>2. UNCHANGED <<world, extras, kids>> /\ Top.extras /\ r \in Paths
  BY FinishesSteps
<1>3. r \in Stacked /\ r \notin Done
  BY <1>1 DEF Stacked, OnceInv
<1>4. \A i \in DOMAIN order : order[i] \in Done /\ order[i] # r
  BY <1>3 DEF Done, ToSet
<1>5. ReachInv' /\ ApartInv'
  BY <1>1, <1>2 DEF ReachInv, ApartInv, Below
<1>6. OnceInv'
  <2>1. IsInjective(order')
    <3>1. \A i, k \in DOMAIN order : order[i] = order[k] => i = k
      BY DEF OnceInv, IsInjective
    <3>2. ASSUME NEW i \in DOMAIN order', NEW k \in DOMAIN order', order'[i] = order'[k]
          PROVE  i = k
      BY <1>1, <1>4, <3>1, <3>2
    <3> QED
      BY <3>2 DEF IsInjective
  <2>2. r \notin Stacked'
    <3> SUFFICES ASSUME NEW i \in DOMAIN frames', frames'[i].repo = r PROVE FALSE
      BY DEF Stacked
    <3>1. i \in DOMAIN frames /\ i < Len(frames) /\ frames[i].repo = r
      BY <1>1
    <3>2. Below(r, r)
      BY <1>1, <3>1 DEF StackInv
    <3> QED
      BY <1>2, <3>2, BelowOrder
  <2>3. Stacked' \subseteq Stacked
    BY FinishesView
  <2> QED
    BY <1>1, <2>1, <2>2, <2>3 DEF OnceInv
<1>7. TurnsInv'
  <2> SUFFICES ASSUME NEW i \in DOMAIN frames' PROVE Turns(frames[i])'
    BY DEF TurnsInv
  <2>1. Turns(frames'[i])
    BY <1>1 DEF TurnsInv
  <2> QED
    BY <1>2, <2>1 DEF Turns
<1>8. PostInv'
  <2>1. world.modules[r] \subseteq kids[r]
    BY <1>1, <1>2 DEF TurnsInv, Turns
  <2>2. \A k \in kids[r] : \E j \in DOMAIN order : order[j] = k
    BY <1>1, KidsDone DEF Done, ToSet
  <2>3. ASSUME NEW i \in DOMAIN order', NEW k \in kids[order'[i]]
        PROVE  \E j \in DOMAIN order' : j < i /\ order'[j] = k
    <3>1. CASE i = Len(order) + 1
      <4>1. PICK j \in DOMAIN order : order[j] = k
        BY <1>1, <2>2, <2>3, <3>1
      <4>2. j \in DOMAIN order' /\ j < i /\ order'[j] = k
        BY <1>1, <3>1, <4>1
      <4> QED
        BY <4>2
    <3>2. CASE i \in DOMAIN order
      <4>1. PICK j \in DOMAIN order : j < i /\ order[j] = k
        BY <1>1, <2>3, <3>2 DEF PostInv
      <4> QED
        BY <1>1, <4>1
    <3> QED
      BY <1>1, <3>1, <3>2
  <2>4. \A u \in Done' : world.modules[u] \subseteq kids[u]
    BY <1>1, <2>1 DEF PostInv
  <2> QED
    BY <1>2, <2>3, <2>4 DEF PostInv
<1> QED
  BY <1>5, <1>6, <1>7, <1>8

LEMMA FiltersTree ==
  ASSUME Types, ScanInv, Filters, pc' = "mount"
  PROVE  ReachInv' /\ ApartInv' /\ OnceInv' /\ TurnsInv' /\ PostInv'
<1>1. /\ root \in Paths /\ UNCHANGED <<world, root, kids>>
      /\ DOMAIN frames' = {1} /\ frames'[1].repo = root /\ frames'[1].extras = FALSE
      /\ frames'[1].left = world.modules[root]
      /\ \A u \in Paths : kids'[u] = {}
      /\ order' = <<>> /\ DOMAIN order' = {}
      /\ Stacked' = {root} /\ Done' = {} /\ Visited' = {root}
  BY FiltersView
<1>2. ReachInv' /\ ApartInv'
  BY <1>1, BelowOrder DEF ReachInv, ApartInv, Below
<1>3. OnceInv' /\ PostInv'
  BY <1>1 DEF OnceInv, PostInv, IsInjective
<1>4. TurnsInv'
  BY <1>1 DEF TurnsInv, Turns
<1> QED
  BY <1>2, <1>3, <1>4

LEMMA TreeInit == Init => TreeInv
BY DEF Init, TreeInv

LEMMA TreeStep == Types /\ ScanInv /\ WalkInv /\ TreeInv /\ [Next]_vars => TreeInv'
<1> SUFFICES ASSUME Types, ScanInv, WalkInv, TreeInv, [Next]_vars,
                    pc' \in {"mount", "mounted"}, Tidy'
             PROVE  ReachInv' /\ ApartInv' /\ OnceInv' /\ TurnsInv' /\ PostInv'
  BY DEF TreeInv
<1> DEFINE Tree == ReachInv /\ ApartInv /\ OnceInv /\ TurnsInv /\ PostInv
           quiet == UNCHANGED <<world, files, machines, root, state, registered,
                                owners, extras>>
<1>1. CASE UNCHANGED vars
  <2>1. Tidy /\ Tree
    BY <1>1 DEF vars, walk, TreeInv, Tidy
  <2>2. Stacked' = Stacked /\ Done' = Done /\ Visited' = Visited
    BY <1>1 DEF vars, walk, Stacked, Done, Visited
  <2> QED
    BY <1>1, <2>1, <2>2 DEF vars, walk, ReachInv, ApartInv, OnceInv, TurnsInv, Turns,
                            PostInv, Below
<1>2. CASE Locates \/ Merged \/ Scans \/ (\E at \in Paths \cup {User} : Merges(at))
           \/ \E r \in Paths : Registers(r)
  BY <1>2 DEF Locates, Merged, Scans, Merges, Registers
<1>3. CASE Filters
  BY <1>3, FiltersTree DEF Filters
<1>4. pc = "mount" /\ quiet => Tidy /\ Tree /\ StackInv
  BY DEF TreeInv, Tidy, WalkInv
<1>5. ~Halts
  BY DEF Halts
<1>6. pc = "mount" => Top \in Frame /\ Top.extras \in BOOLEAN /\ Top.left \in SUBSET Paths
                      /\ Top.repo \in Paths
                      /\ Top = frames[Len(frames)] /\ Len(frames) \in DOMAIN frames
  BY TopIs, FrameType DEF Types, RootInv, WalkType
<1>7. CASE Finishes
  BY <1>4, <1>7, FinishesSteps, FinishesTree
<1>8. ASSUME NEW m \in Paths, MountsModule(m) PROVE Tree'
  BY <1>4, <1>5, <1>6, <1>8, ModulesSteps, EntersTree
<1>9. ASSUME NEW l \in SUBSET Paths, pc = "mount", quiet,
             Sees([repo |-> Top.repo, extras |-> TRUE, left |-> l]),
             l \cap kids[Top.repo] = {}, l \subseteq extras,
             world.modules[Top.repo] \subseteq kids[Top.repo],
             \A k \in kids[Top.repo] : \/ k \in world.modules[Top.repo]
                                       \/ \A p \in l : Len(k) <= Len(p)
      PROVE  Tree'
  <2> DEFINE new == [repo |-> Top.repo, extras |-> TRUE, left |-> l]
  <2>1. new \in Frame
    BY <1>6, <1>9, FrameType
  <2>2. new.repo = Top.repo /\ new.left = l /\ new.extras = TRUE /\ Sees(new)
    BY <1>9
  <2> HIDE DEF new
  <2>3. Turns(new)
    BY <1>9, <2>2 DEF Turns
  <2> QED
    BY <1>4, <1>9, <2>1, <2>2, <2>3, SeesTree
<1>10. CASE ModulesDone
  <2>1. /\ pc = "mount" /\ quiet /\ ~Top.extras /\ Top.left = {}
        /\ Sees([repo |-> Top.repo, extras |-> TRUE, left |-> Candidates])
    BY <1>10, ModulesDoneSteps
  <2>2. Turns(Top)
    BY <1>4, <1>6, <2>1 DEF TurnsInv
  <2>3. kids[Top.repo] = world.modules[Top.repo]
    BY <2>1, <2>2 DEF Turns
  <2>4. /\ Candidates \in SUBSET Paths /\ Candidates \cap kids[Top.repo] = {}
        /\ Candidates \subseteq extras
    BY DEF Candidates, Types, WalkType
  <2> QED
    BY <1>9, <2>1, <2>3, <2>4
<1>11. ASSUME NEW p \in Paths, MountsExtra(p) PROVE Tree'
  <2>1. /\ pc = "mount" /\ quiet /\ Top.extras /\ p \in Top.left
        /\ \A o \in Top.left : Len(p) <= Len(o)
    BY <1>11, ExtrasSteps
  <2>2. CASE InsideChild(p) /\ Sees([repo |-> Top.repo, extras |-> TRUE, left |-> Top.left \ {p}])
    <3>1. Turns(Top) /\ Top.left \ {p} \in SUBSET Paths
      BY <1>4, <1>6, <2>1 DEF TurnsInv
    <3>2. /\ (Top.left \ {p}) \cap kids[Top.repo] = {} /\ Top.left \ {p} \subseteq extras
          /\ world.modules[Top.repo] \subseteq kids[Top.repo]
          /\ \A k \in kids[Top.repo] : \/ k \in world.modules[Top.repo]
                                       \/ \A q \in Top.left \ {p} : Len(k) <= Len(q)
      BY <2>1, <3>1 DEF Turns
    <3> QED
      BY <1>9, <2>1, <2>2, <3>1, <3>2
  <2>3. CASE /\ ~InsideChild(p)
             /\ Enters(p, [repo |-> Top.repo, extras |-> TRUE, left |-> Top.left \ {p}])
    <3>1. Top.extras = TRUE
      BY <1>6, <2>1
    <3> QED
      BY <1>4, <2>1, <2>3, <3>1, EntersTree
  <2> QED
    BY <1>5, <1>11, <2>2, <2>3, ExtrasSteps
<1> QED
  BY <1>1, <1>2, <1>3, <1>7, <1>8, <1>10, <1>11 DEF Next

(* In a finished tree, being mounted in a repository and having it nearest *)
(* above is the same.                                                      *)
LEMMA KidsAreNearest ==
  ASSUME Types, StackInv, ReachInv, ApartInv, pc = "mounted",
         NEW u \in Done, NEW x \in Done
  PROVE  x \in kids[u] <=> x # root /\ u = Nearest(x, Done \ {x})
<1>1. frames = <<>> /\ Visited = Done /\ Done \subseteq Paths /\ u \in Paths /\ x \in Paths
  BY VisitedType DEF StackInv, Stacked, Visited
<1>2. root \in Done /\ root \in Paths /\ IsPrefix(root, x) /\ IsPrefix(root, u)
  <2>1. order # <<>> /\ Last(order) = root
    BY DEF StackInv
  <2>2. root \in Done
    BY <2>1, LenProperties DEF Last, Done, ToSet, Types, WalkType
  <2> QED
    BY <1>1, <2>2 DEF StackInv
<1>3. ASSUME x \in kids[u] PROVE x # root /\ u = Nearest(x, Done \ {x})
  <2>1. Below(u, x)
    BY <1>1, <1>3 DEF StackInv
  <2>2. x # root
    BY <1>1, <1>2, <2>1, BelowOrder
  <2>3. u \in Above(x) \cap (Done \ {x})
    BY <1>1, <2>1, BelowOrder DEF Above
  <2>4. ASSUME NEW o \in Above(x) \cap (Done \ {x}) PROVE Len(o) <= Len(u)
    <3>1. /\ o \in Paths /\ o \in Done /\ IsPrefix(o, x) /\ IsPrefix(u, x) /\ o # x
          /\ Len(o) \in Nat /\ Len(u) \in Nat
      BY <1>1, <2>3, PrefixMeans DEF Above
    <3> SUFFICES ASSUME Len(u) < Len(o) PROVE FALSE
      BY <3>1
    <3>2. IsPrefix(u, o) /\ u # o
      BY <1>1, <3>1, PathOrder
    <3>3. Below(u, o)
      BY <1>1, <3>1, <3>2, BelowOrder
    <3>4. PICK k \in kids[u] : IsPrefix(k, o)
      BY <1>1, <3>1, <3>3 DEF ReachInv
    <3>5. k \in Paths /\ IsPrefix(k, x)
      BY <1>1, <3>1, <3>4, PathOrder DEF Types, WalkType
    <3>6. k = x
      BY <1>1, <1>3, <3>4, <3>5 DEF ApartInv
    <3> QED
      BY <1>1, <3>1, <3>4, <3>6, PathOrder
  <2> QED
    BY <1>1, <2>2, <2>3, <2>4, NearestOnly
<1>4. ASSUME x # root, u = Nearest(x, Done \ {x}) PROVE x \in kids[u]
  <2>1. u \in Above(x) \cap (Done \ {x})
        /\ \A o \in Above(x) \cap (Done \ {x}) : Len(o) <= Len(u)
    <3>1. u # None
      BY <1>1, LayoutAssumption
    <3> QED
      BY <1>1, <1>4, <3>1, NearestIs
  <2>2. IsPrefix(u, x) /\ u # x /\ Below(u, x)
    BY <1>1, <2>1, BelowOrder DEF Above
  <2>3. PICK k \in kids[u] : IsPrefix(k, x)
    BY <1>1, <2>2 DEF ReachInv
  <2>4. k \in Done /\ k \in Paths /\ Below(u, k)
    BY <1>1, <2>3 DEF StackInv
  <2>5. Len(u) < Len(k) /\ Len(u) \in Nat /\ Len(k) \in Nat
    BY <1>1, <2>4, BelowOrder, PrefixMeans
  <2>6. k = x
    <3> SUFFICES ASSUME k # x PROVE FALSE
      OBVIOUS
    <3>1. k \in Above(x) \cap (Done \ {x})
      BY <2>3, <2>4 DEF Above
    <3> QED
      BY <2>1, <2>5, <3>1
  <2> QED
    BY <2>3, <2>6
<1> QED
  BY <1>3, <1>4

(* In every file system whose .gitmodules speak only of repositories with  *)
(* no other between, every repository is mounted once, in the nearest one  *)
(* above it that is mounted, and finished before that one.                 *)
THEOREM TreeCorrect == Spec => []TreeSound
<1>1. Types /\ ScanInv /\ WalkInv /\ TreeInv => TreeSound
  <2> SUFFICES ASSUME Types, ScanInv, WalkInv, TreeInv, pc = "mounted", Tidy
               PROVE  /\ IsInjective(order)
                      /\ Last(order) = root
                      /\ extras \subseteq Done
                      /\ \A r \in Done : world.modules[r] \subseteq kids[r]
                      /\ \A i, k \in DOMAIN order :
                            order[k] \in kids[order[i]] <=>
                               /\ order[k] # root
                               /\ order[i] = Nearest(order[k], Done \ {order[k]})
                      /\ \A i, k \in DOMAIN order : order[k] \in kids[order[i]] => k < i
    BY DEF TreeSound, Done
  <2>1. StackInv /\ ReachInv /\ ApartInv /\ OnceInv /\ PostInv
    BY DEF WalkInv, TreeInv
  <2>2. \A i \in DOMAIN order : order[i] \in Done
    BY DEF Done, ToSet
  <2>3. \A i, k \in DOMAIN order :
            order[k] \in kids[order[i]] <=>
               /\ order[k] # root
               /\ order[i] = Nearest(order[k], Done \ {order[k]})
    BY <2>1, <2>2, KidsAreNearest
  <2>4. ASSUME NEW i \in DOMAIN order, NEW k \in DOMAIN order, order[k] \in kids[order[i]]
        PROVE  k < i
    <3>1. PICK j \in DOMAIN order : j < i /\ order[j] = order[k]
      BY <2>1, <2>4 DEF PostInv
    <3>2. j = k
      BY <2>1, <3>1 DEF OnceInv, IsInjective
    <3> QED
      BY <3>1, <3>2
  <2>5. Last(order) = root /\ IsInjective(order) /\ extras \subseteq Done
    BY <2>1, ExtrasDone DEF StackInv, OnceInv
  <2>6. \A r \in Done : world.modules[r] \subseteq kids[r]
    BY <2>1 DEF PostInv
  <2> QED
    BY <2>3, <2>4, <2>5, <2>6
<1> QED
  BY <1>1, TypeInit, TypeStep, ScanInit, ScanStep, WalkStep, TreeInit, TreeStep, PTL
  DEF Spec

(* What SyncGit assumes of its constants Repos, Order and Kids, said of    *)
(* the repositories found, their order and what is mounted in them.        *)
SyncsTree ==
    pc = "mounted" /\ Tidy =>
        /\ order \in Seq(Done) /\ Len(order) > 0
        /\ \A r \in Done : \E i \in 1 .. Len(order) : order[i] = r
        /\ \A r \in Done : kids[r] \subseteq Done
        /\ \A r \in Done : r = order[Len(order)] \/ \E q \in Done : r \in kids[q]
        /\ \A i, k \in 1 .. Len(order) : order[k] \in kids[order[i]] => k < i

(* The tree that _discover_tree hands to build_snapshots is one for which  *)
(* the theorems of SyncGitProofs hold: SyncAssumption is met.              *)
THEOREM TreeForSync == Spec => []SyncsTree
<1>1. Types /\ ScanInv /\ WalkInv /\ TreeInv => SyncsTree
  <2> SUFFICES ASSUME Types, ScanInv, WalkInv, TreeInv, pc = "mounted", Tidy
               PROVE  /\ order \in Seq(Done) /\ Len(order) > 0
                      /\ \A r \in Done : \E i \in 1 .. Len(order) : order[i] = r
                      /\ \A r \in Done : kids[r] \subseteq Done
                      /\ \A r \in Done : \/ r = order[Len(order)]
                                         \/ \E q \in Done : r \in kids[q]
                      /\ \A i, k \in 1 .. Len(order) :
                            order[k] \in kids[order[i]] => k < i
    BY DEF SyncsTree
  <2>1. StackInv /\ ReachInv /\ ApartInv /\ OnceInv /\ PostInv
    BY DEF WalkInv, TreeInv
  <2>2. /\ DOMAIN order = 1 .. Len(order) /\ Len(order) \in Nat /\ order \in Seq(Paths)
        /\ order # <<>>
    BY <2>1, LenProperties DEF Types, WalkType, StackInv
  <2>3. Len(order) > 0 /\ order[Len(order)] = root /\ root \in Done
    BY <2>1, <2>2 DEF StackInv, Last, Done, ToSet
  <2>4. order \in Seq(Done)
    BY <2>2 DEF Done, ToSet
  <2>5. \A r \in Done : \E i \in 1 .. Len(order) : order[i] = r
    BY <2>2 DEF Done, ToSet
  <2>6. Done \subseteq Paths /\ Visited = Done
    BY <2>1, VisitedType DEF StackInv, Stacked, Visited
  <2>7. \A r \in Done : kids[r] \subseteq Done
    BY <2>1, <2>6 DEF StackInv
  <2>8. ASSUME NEW r \in Done, r # root PROVE \E q \in Done : r \in kids[q]
    <3>1. r \in Paths /\ root \in Paths /\ IsPrefix(root, r)
      BY <2>1, <2>3, <2>6, <2>8 DEF StackInv
    <3>2. root \in Above(r) \cap (Done \ {r})
      BY <2>3, <2>8, <3>1 DEF Above
    <3>3. Nearest(r, Done \ {r}) \in Done
      BY <3>1, <3>2, NearestIs
    <3> QED
      BY <2>1, <2>8, <3>3, KidsAreNearest
  <2>9. ASSUME NEW i \in 1 .. Len(order), NEW k \in 1 .. Len(order),
               order[k] \in kids[order[i]]
        PROVE  k < i
    <3>1. PICK j \in DOMAIN order : j < i /\ order[j] = order[k]
      BY <2>1, <2>2, <2>9 DEF PostInv
    <3>2. j = k
      BY <2>1, <2>2, <3>1 DEF OnceInv, IsInjective
    <3> QED
      BY <3>1, <3>2
  <2> QED
    BY <2>3, <2>4, <2>5, <2>7, <2>8, <2>9
<1> QED
  BY <1>1, TypeInit, TypeStep, ScanInit, ScanStep, WalkStep, TreeInit, TreeStep, PTL
  DEF Spec
=============================================================================
