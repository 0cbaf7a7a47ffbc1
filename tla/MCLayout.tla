------------------------------ MODULE MCLayout ------------------------------
(* Instances of Layout for TLC.                                            *)
EXTENDS Layout, FiniteSetsExt, TLC

CONSTANTS a, b, m, n

(* A workspace of five directories, four deep.                             *)
Tree == {<<>>, <<a>>, <<b>>, <<a, b>>, <<a, b, a>>}
PluginDir == <<b>>

Small(S, k) == UNION {kSubset(i, S) : i \in 0 .. k}
Plain == [p \in Tree \cup {User} |-> None]
Nothing == [p \in Tree |-> {}]
Ties(k, R) == {[p \in Tree |-> {e[2] : e \in {x \in E : x[1] = p}}] : E \in Small(R, k)}
Inside == {x \in Tree \X Tree : IsStrictPrefix(x[1], x[2])}
Elsewhere == Tree \X (Tree \ {<<>>})

(* Repositories anywhere, with up to two submodules and one worktree in    *)
(* all, and an ignored child of the root.                                  *)
GitWorlds ==
    {[cwd |-> <<>>, remote |-> {<<>>}, machines |-> Plain, git |-> g,
      modules |-> s, linked |-> w, ignored |-> i] :
        g \in {{<<a>>, <<b>>}} \cup {T \cup {<<>>} : T \in SUBSET Tree},
        s \in Ties(2, Inside), w \in Ties(1, Elsewhere),
        i \in {{}, {<<a>>}, {<<b>>}}}

(* The command started anywhere, .remote anywhere, up to two entries in a  *)
(* file.                                                                   *)
Lists == {None, Bad, <<m>>, <<n, m>>, <<m, m>>}
ConfigWorlds ==
    {[cwd |-> c, remote |-> r, machines |-> [p \in Tree \cup {User} |->
         IF p = User THEN u ELSE IF p = <<a, b>> THEN l ELSE
         IF p = <<a>> THEN k ELSE None],
      git |-> {<<>>}, modules |-> Nothing, linked |-> Nothing, ignored |-> {}] :
        c \in Tree, r \in SUBSET Tree, u \in {None, <<m>>, <<n>>}, l \in Lists,
        k \in Lists}

AllWorlds == GitWorlds \cup ConfigWorlds
=============================================================================
