---------------------------- MODULE MCChangeSet -----------------------------
(* Two docsets /a and /b with a few paths below them.                      *)
EXTENDS ChangeSet

MCPaths == {<<"a">>, <<"a", "x">>, <<"b">>, <<"b", "x">>, <<"b", "x", "z">>}
MCRoots == {<<"a">>, <<"b">>}
MCContents == {"old", "new"}

WriteLeaf(p, v, c) == [act |-> "write", path |-> p, val |-> v, cond |-> c, expect |-> {}]
OtherLeaf(act, p, e) == [act |-> act, path |-> p, val |-> "old", cond |-> "any", expect |-> e]
InDocset == {p \in MCPaths : Len(p) > 1}
MCLeaves ==
  {WriteLeaf(p, "new", c) : p \in InDocset, c \in {"any", "create", "old"}}
    \cup {OtherLeaf(a, p, {}) : a \in Acts \ {"write"}, p \in InDocset}
    \cup {OtherLeaf("remove_all", p, {<<p, "old">>}) : p \in InDocset}
MCBatches == UNION {[1..n -> MCLeaves] : n \in 1..2}

\* mv /a/x /b/x: write the destination, remove the source if it is unchanged.
MCMoves ==
  {<<WriteLeaf(<<"b", "x">>, v, "create"),
     OtherLeaf("remove_all", <<"a", "x">>, {<<<<"a", "x">>, v>>})>> : v \in MCContents}

\* The docset /b is declared and not on disk yet; /a/x is there.
SourceInit == Init /\ tree[<<"a", "x">>] \in MCContents
SourceOnDisk == SourceInit /\ [][Next]_vars
=============================================================================
