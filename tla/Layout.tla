------------------------------- MODULE Layout -------------------------------
(***************************************************************************)
(* What `remote sync' finds before it synchronises (config.py,             *)
(* workspace.py, snapshot.py): the workspace root and the state directory  *)
(* above the current directory, the machines that several machines.json    *)
(* register, the repositories and worktrees of the workspace, and the tree *)
(* of repositories in whose postorder snapshots are built.                 *)
(*                                                                         *)
(* A path is the sequence of its names.  Nothing changes while the command *)
(* looks; that it looks correctly in every file system is the question.    *)
(***************************************************************************)
EXTENDS Naturals, SequencesExt

CONSTANTS
    Names,      \* names of directories
    Paths,      \* the directories
    Aliases,    \* names of machines
    Worlds,     \* file systems, see World
    User,       \* stands for ~/.config/remote-plugin
    Package,    \* the plugin's own directory
    Bad,        \* a machines.json that does not parse
    None

Definition == [at : Paths \cup {User}, index : Nat]

(* remote: directories with .remote; machines: the aliases that the file   *)
(* there (or the user's) lists, if there is one; git: directories with     *)
(* .git; modules: what .gitmodules lists; linked: the linked worktrees of  *)
(* the repository, as `git worktree list' names them; ignored: what the    *)
(* rules of the workspace root ignore.                                     *)
World == [cwd : Paths, remote : SUBSET Paths,
          machines : [Paths \cup {User} -> Seq(Aliases) \cup {Bad, None}],
          git : SUBSET Paths, modules : [Paths -> SUBSET Paths],
          linked : [Paths -> SUBSET Paths], ignored : SUBSET Paths]

(* git accepts no submodule outside its repository.                        *)
ASSUME LayoutAssumption ==
    /\ Paths \subseteq Seq(Names)
    /\ \A p \in Paths : \A q \in Prefixes(p) : q \in Paths
    /\ Worlds \subseteq World /\ Package \in Paths
    /\ \A w \in Worlds : \A r \in Paths : \A m \in w.modules[r] : IsStrictPrefix(r, m)
    /\ User \notin Paths \cup {None}
    /\ {Bad, None} \cap (Paths \cup Seq(Aliases) \cup Definition) = {}

VARIABLES
    world,      \* the file system
    pc,         \* what the command is looking for
    files,      \* machines.json files still to be merged
    machines,   \* machines[a]: the definition of a so far
    root,       \* the workspace root
    state,      \* the directory whose .remote/state holds the state
    registered, \* worktrees that the owners asked so far have registered
    owners,     \* repositories still to be asked for their worktrees
    extras,     \* repositories to mount besides submodules
    frames,     \* the calls of _discover_tree under way, the last on top
    kids,       \* kids[r]: repositories mounted in r
    order       \* repositories finished, in order

walk == <<registered, owners, extras, frames, kids, order>>
vars == <<world, pc, files, machines, root, state, walk>>

Pc == {"locate", "merge", "scan", "register", "mount", "mounted", "error"}
Frame == [repo : Paths, extras : BOOLEAN, left : SUBSET Paths]

TypeOK ==
    /\ world \in World /\ pc \in Pc
    /\ files \in SUBSET (Paths \cup {User})
    /\ machines \in [Aliases -> Definition \cup {None}]
    /\ root \in Paths \cup {None} /\ state \in Paths \cup {None}
    /\ registered \in SUBSET Paths /\ owners \in SUBSET Paths
    /\ extras \in SUBSET Paths
    /\ frames \in Seq(Frame) /\ order \in Seq(Paths)
    /\ kids \in [Paths -> SUBSET Paths]

Init ==
    /\ world \in Worlds /\ pc = "locate"
    /\ files = {} /\ machines = [a \in Aliases |-> None]
    /\ root = None /\ state = None
    /\ registered = {} /\ owners = {} /\ extras = {}
    /\ frames = <<>> /\ order = <<>>
    /\ kids = [p \in Paths |-> {}]

-----------------------------------------------------------------------------
Above(p) == {q \in Paths : IsPrefix(q, p)}
Deepest(S) == CHOOSE q \in S : \A o \in S : Len(o) <= Len(q)
Nearest(p, S) == IF Above(p) \cap S = {} THEN None ELSE Deepest(Above(p) \cap S)

(* Faulty variant: the .remote itself instead of the directory it is in.   *)
find_remote_dir(w) ==
    LET marked == Nearest(w.cwd, w.remote)
    IN  IF marked # None THEN Append(marked, ".remote") ELSE w.cwd

(* find_workspace_root: .remote, else the Git work tree, else here.        *)
find_workspace_root(w) ==
    LET marked == Nearest(w.cwd, w.remote)
        tree == Nearest(w.cwd, w.git)
    IN  IF marked # None THEN marked ELSE IF tree # None THEN tree ELSE w.cwd

(* Faulty variant: the nearest file comes first.                           *)
NearestFirst(p, q) == p # User => q # User /\ Len(p) >= Len(q)

(* The order of load_machines and _project_machines_paths: the user's file *)
(* and then from the farthest to the nearest.                              *)
Sooner(p, q) == p # User => q # User /\ Len(p) <= Len(q)

(* The files there are, the user's and those beside .remote above.         *)
Listed(w) == {p \in (Above(w.cwd) \cap w.remote) \cup {User} : w.machines[p] # None}

Locates ==
    /\ pc = "locate" /\ pc' = "merge"
    /\ root' = find_workspace_root(world)
    /\ files' = Listed(world)
    /\ UNCHANGED <<world, machines, state, walk>>

(* Where a file defines a machine last.                                    *)
LastIn(list, a) == CHOOSE i \in DOMAIN list : /\ list[i] = a
                                             /\ \A k \in DOMAIN list : list[k] = a => k <= i

(* _parse_file of the next file: one bad file is an error, whatever it     *)
(* would have defined.                                                     *)
Merges(at) ==
    /\ pc = "merge" /\ at \in files /\ \A p \in files : Sooner(at, p)
    /\ LET list == world.machines[at]
       IN  IF list = Bad THEN pc' = "error" /\ UNCHANGED <<files, machines>>
           ELSE /\ files' = files \ {at}
                /\ machines' = [a \in Aliases |->
                      IF Contains(list, a)
                         THEN [at |-> at, index |-> LastIn(list, a)]
                         ELSE machines[a]]
                /\ UNCHANGED pc
    /\ UNCHANGED <<world, root, state, walk>>

(* state_dir: the nearest .remote, else the plugin's own.                  *)
Merged ==
    /\ pc = "merge" /\ files = {} /\ pc' = "scan"
    /\ state' = IF Nearest(world.cwd, world.remote) # None
                THEN Nearest(world.cwd, world.remote) ELSE Package
    /\ UNCHANGED <<world, files, machines, root, walk>>

-----------------------------------------------------------------------------
(* _git_roots: the root and its direct children.                           *)
GitRoots == {p \in world.git : IsPrefix(root, p) /\ Len(p) <= Len(root) + 1}

Scans ==
    /\ pc = "scan" /\ pc' = "register"
    /\ owners' = GitRoots
    /\ UNCHANGED <<world, files, machines, root, state, registered, extras,
                   frames, kids, order>>

(* _registered_worktrees of one owner.                                     *)
Registers(r) ==
    /\ pc = "register" /\ r \in owners
    /\ owners' = owners \ {r}
    /\ registered' = registered \cup
                        {p \in world.linked[r] \ {r} : IsPrefix(root, p)}
    /\ UNCHANGED <<world, pc, files, machines, root, state, extras, frames,
                   kids, order>>

(* _ignored_by_parent: only direct children of the root are asked about,   *)
(* worktrees lie wherever they were registered.                            *)
Ignored(p) == p # root /\ root \in world.git /\ p \in world.ignored

(* Faulty variant: a worktree has to obey the ignore rules.                *)
ContextsObeying == {p \in GitRoots \cup (registered \cap world.git) : ~Ignored(p)}

Contexts ==
    (registered \cap world.git) \cup {p \in GitRoots : ~Ignored(p)}

(* build_snapshots needs a repository at the root.                         *)
Filters ==
    /\ pc = "register" /\ owners = {}
    /\ extras' = Contexts \ {root}
    /\ IF root \in world.git
          THEN /\ pc' = "mount"
               /\ frames' = <<[repo |-> root, extras |-> FALSE,
                               left |-> world.modules[root]]>>
          ELSE pc' = "error" /\ UNCHANGED frames
    /\ UNCHANGED <<world, files, machines, root, state, registered, owners,
                   kids, order>>

-----------------------------------------------------------------------------
Top == Last(frames)

(* The call on top turns to child c, which must be a work tree.            *)
Descends(c, left) ==
    IF c \notin world.git THEN pc' = "error" /\ UNCHANGED <<frames, kids>>
    ELSE /\ frames' = Append([frames EXCEPT ![Len(frames)].left = left],
                             [repo |-> c, extras |-> FALSE,
                              left |-> world.modules[c]])
         /\ kids' = [kids EXCEPT ![Top.repo] = @ \cup {c}]
         /\ UNCHANGED pc

MountsModule(m) ==
    /\ pc = "mount" /\ ~Top.extras /\ m \in Top.left
    /\ Descends(m, Top.left \ {m})
    /\ UNCHANGED <<world, files, machines, root, state, registered, owners,
                   extras, order>>

(* The submodules are done; the candidates are the other repositories      *)
(* inside this one.                                                        *)
ModulesDone ==
    /\ pc = "mount" /\ ~Top.extras /\ Top.left = {}
    /\ frames' = [frames EXCEPT ![Len(frames)] =
          [repo |-> Top.repo, extras |-> TRUE,
           left |-> {p \in extras \ kids[Top.repo] : IsStrictPrefix(Top.repo, p)}]]
    /\ UNCHANGED <<world, pc, files, machines, root, state, registered, owners,
                   extras, kids, order>>

(* Faulty variant: a child's own repositories are mounted here as well.    *)
InNoChild(p) == FALSE

InsideChild(p) == \E k \in kids[Top.repo] : k # p /\ IsPrefix(k, p)

(* The candidates in order of depth; one inside a child is left to it.     *)
MountsExtra(p) ==
    /\ pc = "mount" /\ Top.extras /\ p \in Top.left
    /\ \A o \in Top.left : Len(p) <= Len(o)
    /\ IF InsideChild(p)
          THEN /\ frames' = [frames EXCEPT ![Len(frames)].left = @ \ {p}]
               /\ UNCHANGED <<pc, kids>>
          ELSE Descends(p, Top.left \ {p})
    /\ UNCHANGED <<world, files, machines, root, state, registered, owners,
                   extras, order>>

(* The call returns: _iter_postorder yields a node after its children.     *)
Finishes ==
    /\ pc = "mount" /\ Top.extras /\ Top.left = {}
    /\ order' = Append(order, Top.repo)
    /\ frames' = Front(frames)
    /\ pc' = IF Len(frames) = 1 THEN "mounted" ELSE pc
    /\ UNCHANGED <<world, files, machines, root, state, registered, owners,
                   extras, kids>>

Next ==
    \/ Locates \/ Merged \/ Scans \/ Filters \/ ModulesDone \/ Finishes
    \/ \E at \in Paths \cup {User} : Merges(at)
    \/ \E p \in Paths : Registers(p) \/ MountsModule(p) \/ MountsExtra(p)

Spec == Init /\ [][Next]_vars

-----------------------------------------------------------------------------
(* Properties.                                                             *)

(* A .gitmodules speaks only of paths with no other repository between.    *)
Tidy ==
    \A r, q \in world.git : \A m \in world.modules[r] :
        IsPrefix(r, q) /\ IsPrefix(q, m) => q \in {r, m}

(* The tree is what SyncGit supposes and git can store: every discovered   *)
(* repository and every submodule is mounted, each once, in the nearest    *)
(* mounted repository above it, and finished before that.                  *)
TreeSound ==
    pc = "mounted" /\ Tidy =>
        LET mounted == ToSet(order) IN
        /\ IsInjective(order)
        /\ Last(order) = root
        /\ extras \subseteq mounted
        /\ \A r \in mounted : world.modules[r] \subseteq kids[r]
        /\ \A i, k \in DOMAIN order :
              order[k] \in kids[order[i]] <=>
                 /\ order[k] # root
                 /\ order[i] = Nearest(order[k], mounted \ {order[k]})
        /\ \A i, k \in DOMAIN order : order[k] \in kids[order[i]] => k < i

(* Every registered worktree of a repository at the top, even one that is  *)
(* ignored itself, is synchronised wherever it lies, and so is every other *)
(* repository at the top that is not ignored.                              *)
NothingForgotten ==
    pc = "mounted" =>
        \A p \in world.git :
            /\ \/ \E r \in GitRoots : p \in world.linked[r] \ {r}
               \/ p \in GitRoots /\ p \notin world.ignored
            /\ IsPrefix(root, p)
            => p \in ToSet(order)

(* load_machines keeps to its own docstring, the nearest file overrides:   *)
(* a machine is the one defined by the nearest of all the files above the  *)
(* current directory that define it, its last entry there, and the user's  *)
(* only if none does; state and workspace lie where the same .remote is.   *)
NearestWins ==
    pc \in {"scan", "register", "mount", "mounted"} =>
        /\ \A a \in Aliases :
              LET Defines(p) == world.machines[p] # None /\ Contains(world.machines[p], a)
                  near == Nearest(world.cwd,
                             {p \in world.remote \cap Above(world.cwd) : Defines(p)})
                  at == IF near # None THEN near
                        ELSE IF Defines(User) THEN User ELSE None
              IN  IF at = None THEN machines[a] = None
                  ELSE /\ machines[a].at = at
                       /\ world.machines[at][machines[a].index] = a
                       /\ \A i \in DOMAIN world.machines[at] :
                             world.machines[at][i] = a => i <= machines[a].index
        /\ world.remote \cap Above(world.cwd) # {} => state = root

(* docs/PRD.md:169 and docs/spec.md:55 say less: a machine comes from the  *)
(* nearest machines.json or from the user's.  The code also takes one that *)
(* only a farther file names, so this does not hold and no run checks it.  *)
OnlyNearestFile ==
    pc \in {"scan", "register", "mount", "mounted"} =>
        \A a \in Aliases : machines[a] # None =>
            machines[a].at \in
                {User, Nearest(world.cwd, {p \in world.remote \cap Above(world.cwd) :
                                              world.machines[p] # None})}
=============================================================================
