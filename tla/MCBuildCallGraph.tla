-------------------------- MODULE MCBuildCallGraph --------------------------
(* Every program of up to three nodes after that of the first file, over   *)
(* two callees and with or without a second file, and some longer ones.    *)
EXTENDS BuildCallGraph

CONSTANTS f, g

MCNames == {f, g}

Of(kind, up, role, name, sel, lit) ==
    [kind |-> kind, up |-> up, role |-> role, name |-> name, sel |-> sel, lit |-> lit]

FileNode == Of("file", 0, "in", f, "plain", FALSE)

Candidates ==
    {FileNode} \union
    {n \in [kind : {"assign", "skip", "call"}, up : 1 .. 4, role : Spine \union {"arg", "in"},
            name : MCNames, sel : {"var", "plain"}, lit : BOOLEAN] :
        n.kind # "call" => n.name = f /\ n.sel = "plain" /\ ~n.lit}

Extended(ps) == {q \in {Append(p, n) : p \in ps, n \in Candidates} : Placed(q, Len(q))}

One == Extended({<<FileNode>>})
Two == Extended(One)
Three == Extended(Two)

(* Longer: four calls on one spine, with a pkg selector at its end, and    *)
(* three of them behind an assignment or with something more after them.   *)
Link(up) == {n \in [kind : {"skip", "call"}, up : {up}, role : Spine, name : MCNames,
                    sel : {"plain"}, lit : {FALSE}] : n.kind = "skip" => n.name = f}

Outer(n, up) == [n EXCEPT !.up = up, !.role = "in"]

Spines ==
    {p \in {<<FileNode, Outer(a, 1), b, c, [d EXCEPT !.sel = "pkg"]>> :
               a \in Link(1), b \in Link(2), c \in Link(3), d \in Link(4)} :
        \A i \in 2 .. 5 : Placed(p, i)}

Assigned ==
    {p \in {<<FileNode, [FileNode EXCEPT !.kind = "assign", !.up = 1], Outer(a, u), b, c>> :
               u \in {1, 2}, a \in Link(1), b \in Link(3), c \in Link(4)} :
        \A i \in 2 .. 5 : Placed(p, i)}

Continued == Extended({SubSeq(p, 1, 4) : p \in Spines})

MCPrograms == Three \union Two \union One \union Spines \union Assigned \union Continued
=============================================================================
